--------------------------- MODULE AddressProofs ---------------------------
(***************************************************************************)
(* Proofs about AddressState and AddressWriter: filter, map and database   *)
(* together implement the address book, and the script numbers that one    *)
(* thread gives out lead to the records that the other one appends.        *)
(***************************************************************************)
EXTENDS AddressState, TLAPS, SequenceTheorems, FiniteSetTheorems

NodeSet == [io : {"in", "out"}, type : DOMAIN DedupType, hash : Hash, up : Nat,
            spends : Nat, tx : Nat]
ResSet == [scriptNum : Nat, isNew : BOOLEAN]
AllBits == UNION {BitsOf[h] : h \in Hash}
Elements(s) == {s[n] : n \in DOMAIN s}

(* The map m leads from hashes to numbers.                                 *)
IsMap(m) == DOMAIN m \subseteq Hash /\ \A h \in DOMAIN m : m[h] \in Nat

TypeInv ==
  /\ open \in BOOLEAN /\ rolledBack \in BOOLEAN
  /\ DOMAIN db = Columns /\ \A c \in Columns : IsMap(db[c])
  /\ DOMAIN multi = Equived /\ \A k \in Equived : IsMap(multi[k])
  /\ bloom \in [Equived -> SUBSET AllBits]
  /\ scriptIndexes \in [Kind -> Nat]
  /\ nodes \in Seq(NodeSet) /\ res \in Seq(ResSet)
  /\ Len(res) <= Len(nodes) /\ written \in 0..Len(res)
  /\ unspent \subseteq Nat
  /\ DOMAIN file = Kind
  /\ \A k \in Kind : /\ file[k] \in Seq(Elements(file[k]))
                     /\ \A n \in 1..Len(file[k]) : "hash" \in DOMAIN file[k][n]

(* A closed AddressState is all on disk, and nothing is under way.         *)
ClosedInv ==
  ~open => /\ disk.multi = multi /\ disk.scriptIndexes = scriptIndexes
           /\ written = Len(nodes) /\ Len(res) = Len(nodes)

(* The filter knows every address of its column.                           *)
FilterInv ==
  \A k \in Equived : \A h \in DOMAIN db[Column(k)] : BitsOf[h] \subseteq bloom[k]

(* The map of the addresses used more than once agrees with the database,  *)
(* as long as only the columns of the filters are used.                    *)
MultiInv ==
  \A k \in Equived : \A h \in DOMAIN multi[k] :
    /\ multi[k][h] # 0
    /\ ~KeysMet => h \in DOMAIN db[Column(k)] /\ multi[k][h] = db[Column(k)][h]

KindOf(i) == DedupType[nodes[i].type]

BookInv == TypeInv /\ ClosedInv /\ FilterInv /\ MultiInv

-----------------------------------------------------------------------------
(* The operators the model is built from.                                  *)

(* Address types, kinds and columns.                                       *)
LEMMA Kinds ==
  /\ \A t \in DOMAIN DedupType : DedupType[t] \in Kind
  /\ Equived \subseteq Kind /\ "PUBKEY" \in Equived
  /\ "PUBKEY" \in Columns
  /\ \A k \in Equived : Column(k) \in Columns /\ Column(k) # "PUBKEY"
  /\ \A k, l \in Equived : Column(k) = Column(l) => k = l
  /\ \A c \in Columns : c = "PUBKEY" \/ \E k \in Equived : c = Column(k)
  /\ \A t \in DOMAIN DedupType : DedupType[t] \in Equived =>
       IF t = "MULTISIG_PUBKEY" THEN ExampleType(t) = "PUBKEY" /\ DedupType[t] = "PUBKEY"
       ELSE ExampleType(t) = Column(DedupType[t])
<1>1. DOMAIN DedupType = {"PUBKEY", "PUBKEYHASH", "WITNESS_PUBKEYHASH", "MULTISIG_PUBKEY",
                          "SCRIPTHASH", "WITNESS_SCRIPTHASH", "MULTISIG", "NONSTANDARD",
                          "NULL_DATA"}
  BY DEF DedupType
<1>2. /\ DedupType["PUBKEY"] = "PUBKEY" /\ DedupType["PUBKEYHASH"] = "PUBKEY"
      /\ DedupType["WITNESS_PUBKEYHASH"] = "PUBKEY" /\ DedupType["MULTISIG_PUBKEY"] = "PUBKEY"
      /\ DedupType["SCRIPTHASH"] = "SCRIPTHASH" /\ DedupType["WITNESS_SCRIPTHASH"] = "SCRIPTHASH"
      /\ DedupType["MULTISIG"] = "MULTISIG" /\ DedupType["NONSTANDARD"] = "NONSTANDARD"
      /\ DedupType["NULL_DATA"] = "NULL_DATA"
  BY DEF DedupType
<1>3. \A t \in DOMAIN DedupType : DedupType[t] \in Kind
  BY DEF Kind
<1>4. Equived \subseteq Kind /\ "PUBKEY" \in Equived
  BY <1>1, <1>2 DEF Kind, Equived
<1>5. \A k \in Equived : Column(k) \in Columns /\ Column(k) # "PUBKEY"
  BY DEF Columns, Column
<1>6. \A k, l \in Equived : Column(k) = Column(l) => k = l
  BY DEF Column, Equived
<1>7. \A c \in Columns : c = "PUBKEY" \/ \E k \in Equived : c = Column(k)
  BY DEF Columns
<1>8. ASSUME NEW t \in DOMAIN DedupType, DedupType[t] \in Equived
      PROVE  IF t = "MULTISIG_PUBKEY" THEN ExampleType(t) = "PUBKEY" /\ DedupType[t] = "PUBKEY"
             ELSE ExampleType(t) = Column(DedupType[t])
  BY <1>2, <1>8 DEF ExampleType, Column
<1> QED
  BY <1>3, <1>4, <1>5, <1>6, <1>7, <1>8 DEF Columns

(* A map with one more address.                                            *)
LEMMA PutMap ==
  ASSUME NEW m, IsMap(m), NEW h \in Hash, NEW n \in Nat
  PROVE  /\ IsMap(Put(m, h, n)) /\ DOMAIN Put(m, h, n) = DOMAIN m \cup {h}
         /\ Put(m, h, n)[h] = n
         /\ \A g \in DOMAIN m : g # h => Put(m, h, n)[g] = m[g]
         /\ Put(m, h, n) # << >>
<1>1. /\ DOMAIN Put(m, h, n) = DOMAIN m \cup {h} /\ Put(m, h, n)[h] = n
      /\ \A g \in DOMAIN m : g # h => Put(m, h, n)[g] = m[g]
  BY DEF Put
<1>2. IsMap(Put(m, h, n))
  BY <1>1 DEF IsMap
<1>3. h \notin DOMAIN << >>
  OBVIOUS
<1> QED
  BY <1>1, <1>2, <1>3

(* A map without the numbers from n on.                                    *)
LEMMA BelowMap ==
  ASSUME NEW m, IsMap(m), NEW n
  PROVE  /\ IsMap(Below(m, n))
         /\ \A h : h \in DOMAIN Below(m, n) <=> h \in DOMAIN m /\ m[h] < n
         /\ \A h \in DOMAIN Below(m, n) : h \in DOMAIN m /\ Below(m, n)[h] = m[h]
<1>1. /\ \A h : h \in DOMAIN Below(m, n) <=> h \in DOMAIN m /\ m[h] < n
      /\ \A h \in DOMAIN Below(m, n) : h \in DOMAIN m /\ Below(m, n)[h] = m[h]
  BY DEF Below
<1> QED
  BY <1>1 DEF IsMap

(* The filter built anew from a column lets all its addresses pass.        *)
LEMMA FilterHas ==
  ASSUME NEW m, IsMap(m)
  PROVE  /\ FilterOf(m) \in SUBSET AllBits
         /\ \A h \in DOMAIN m : BitsOf[h] \subseteq FilterOf(m)
<1>1. DOMAIN m \subseteq Hash
  BY DEF IsMap
<1> QED
  BY <1>1 DEF FilterOf, AllBits

(* Sequences whose elements have no set of their own.                      *)
LEMMA ElementsAppend ==
  ASSUME NEW s, s \in Seq(Elements(s)), NEW e
  PROVE  /\ Append(s, e) \in Seq(Elements(Append(s, e)))
         /\ Len(s) \in Nat /\ Len(Append(s, e)) = Len(s) + 1
         /\ \A n \in 1..Len(s) : Append(s, e)[n] = s[n]
         /\ Append(s, e)[Len(s) + 1] = e
<1> DEFINE S == Elements(s) \cup {e}
           t == Append(s, e)
<1>1. s \in Seq(S) /\ e \in S
  <2>1. Elements(s) \subseteq S
    OBVIOUS
  <2>2. \A n \in 1..Len(s) : s[n] \in S
    BY ElementOfSeq
  <2>3. Len(s) \in Nat /\ DOMAIN s = 1..Len(s) /\ s = [n \in 1..Len(s) |-> s[n]]
    BY LenProperties
  <2>4. s \in [1..Len(s) -> S]
    BY <2>2, <2>3
  <2> QED
    BY <2>3, <2>4, SeqDef
<1>2. /\ t \in Seq(S) /\ Len(t) = Len(s) + 1
      /\ \A n \in 1..Len(s) : t[n] = s[n]
      /\ t[Len(s) + 1] = e
  BY <1>1, AppendProperties
<1>3. Len(s) \in Nat /\ Len(t) \in Nat /\ DOMAIN t = 1..Len(t) /\ t \in [1..Len(t) -> S]
  BY <1>1, <1>2, LenProperties
<1> HIDE DEF t
<1>4. t \in [1..Len(t) -> Elements(t)]
  BY <1>3 DEF Elements
<1>5. t \in Seq(Elements(t))
  BY <1>3, <1>4, SeqDef
<1> QED
  BY <1>2, <1>3, <1>5 DEF t

(* Equal intervals from 1 end at the same number.                          *)
LEMMA SameLength ==
  ASSUME NEW a \in Nat, NEW b \in Nat, 1..a = 1..b
  PROVE  a = b
<1>1. a # 0 => a \in 1..b
  BY a # 0 => a \in 1..a
<1>2. b # 0 => b \in 1..a
  BY b # 0 => b \in 1..b
<1> QED
  BY <1>1, <1>2

(* A function on the positions of a sequence is a sequence as long as it.  *)
LEMMA ElementsKept ==
  ASSUME NEW s, s \in Seq(Elements(s)), NEW t, t \in [1..Len(s) -> Elements(t)]
  PROVE  t \in Seq(Elements(t)) /\ Len(t) = Len(s)
<1>1. Len(s) \in Nat
  BY LenProperties
<1>2. t \in Seq(Elements(t))
  <2>1. \A S : \A m \in Nat : [1..m -> S] \subseteq Seq(S)
    BY SeqDef
  <2> QED
    BY <1>1, <2>1, Zenon
<1>3. Len(t) \in Nat /\ DOMAIN t = 1..Len(t) /\ DOMAIN t = 1..Len(s)
  BY <1>2, LenProperties
<1>4. Len(t) = Len(s)
  BY <1>1, <1>3, SameLength
<1> QED
  BY <1>2, <1>4

(* The first part of a sequence.                                           *)
LEMMA ElementsSub ==
  ASSUME NEW s, s \in Seq(Elements(s)), NEW n \in 0..Len(s)
  PROVE  /\ SubSeq(s, 1, n) \in Seq(Elements(SubSeq(s, 1, n)))
         /\ Len(SubSeq(s, 1, n)) = n
         /\ \A i \in 1..n : SubSeq(s, 1, n)[i] = s[i] /\ i \in 1..Len(s)
<1> DEFINE t == SubSeq(s, 1, n)
<1>1. Len(s) \in Nat /\ \A i \in 1..Len(s) : s[i] \in Elements(s)
  BY LenProperties, ElementOfSeq
<1>2. \A i \in 1..n : s[i] \in Elements(s) /\ i \in 1..Len(s)
  BY <1>1
<1>3. /\ t \in Seq(Elements(s)) /\ Len(t) = IF 1 <= n THEN n - 1 + 1 ELSE 0
      /\ \A i \in 1..(n - 1 + 1) : t[i] = s[1 + i - 1]
  BY <1>1, <1>2, SubSeqProperties
<1>4. Len(t) = n /\ \A i \in 1..n : t[i] = s[i]
  <2>1. n \in Nat /\ n - 1 + 1 = n /\ \A i \in 1..n : 1 + i - 1 = i
    BY <1>1
  <2>2. Len(t) = n
    BY <1>3, <2>1
  <2>3. \A i \in 1..n : t[i] = s[1 + i - 1]
    BY <1>3, <2>1
  <2> HIDE DEF t
  <2> QED
    BY <2>1, <2>2, <2>3
<1> HIDE DEF t
<1>5. t \in [1..Len(t) -> Elements(s)] /\ Len(t) \in Nat /\ DOMAIN t = 1..Len(t)
  BY <1>3, LenProperties
<1>6. t \in [1..Len(t) -> Elements(t)]
  BY <1>5 DEF Elements
<1>7. t \in Seq(Elements(t))
  BY <1>5, <1>6, SeqDef
<1> QED
  BY <1>2, <1>4, <1>7 DEF t

-----------------------------------------------------------------------------
(* The steps.                                                              *)

(* The node that is resolved next.                                         *)
LEMMA NodeFacts ==
  ASSUME TypeInv
  PROVE  /\ Len(nodes) \in Nat /\ Len(res) \in Nat /\ written \in Nat /\ written <= Len(res)
         /\ \A i \in 1..Len(nodes) :
              /\ nodes[i] \in NodeSet /\ nodes[i].type \in DOMAIN DedupType
              /\ nodes[i].hash \in Hash /\ nodes[i].io \in {"in", "out"} /\ nodes[i].tx \in Nat
              /\ KindOf(i) \in Kind
         /\ \A i \in 1..Len(res) : /\ res[i] \in ResSet /\ res[i].scriptNum \in Nat
                                   /\ res[i].isNew \in BOOLEAN /\ i \in 1..Len(nodes)
<1>1. nodes \in Seq(NodeSet) /\ res \in Seq(ResSet) /\ Len(res) <= Len(nodes)
      /\ written \in 0..Len(res)
  BY DEF TypeInv
<1>2. Len(nodes) \in Nat /\ Len(res) \in Nat /\ written \in Nat /\ written <= Len(res)
  BY <1>1, LenProperties
<1>3. ASSUME NEW i \in 1..Len(nodes)
      PROVE  /\ nodes[i] \in NodeSet /\ nodes[i].type \in DOMAIN DedupType
             /\ nodes[i].hash \in Hash /\ nodes[i].io \in {"in", "out"} /\ nodes[i].tx \in Nat
             /\ KindOf(i) \in Kind
  <2>1. nodes[i] \in NodeSet
    BY <1>1, ElementOfSeq
  <2>2. /\ nodes[i].type \in DOMAIN DedupType
        /\ nodes[i].hash \in Hash /\ nodes[i].io \in {"in", "out"} /\ nodes[i].tx \in Nat
    BY <2>1 DEF NodeSet
  <2> QED
    BY <2>1, <2>2, Kinds DEF KindOf
<1>4. ASSUME NEW i \in 1..Len(res)
      PROVE  /\ res[i] \in ResSet /\ res[i].scriptNum \in Nat
             /\ res[i].isNew \in BOOLEAN /\ i \in 1..Len(nodes)
  <2>1. res[i] \in ResSet
    BY <1>1, ElementOfSeq
  <2> QED
    BY <1>1, <1>2, <2>1 DEF ResSet
<1> QED
  BY <1>2, <1>3, <1>4

(* What one more resolved node leaves as it was.                           *)
LEMMA ResGrows ==
  ASSUME TypeInv, Len(res) < Len(nodes), NEW r \in ResSet, res' = Append(res, r)
  PROVE  /\ res' \in Seq(ResSet) /\ Len(res') = Len(res) + 1 /\ Len(res') <= Len(nodes)
         /\ \A i \in 1..Len(res) : res'[i] = res[i]
         /\ res'[Len(res) + 1] = r
         /\ written \in 0..Len(res')
<1>1. /\ res' \in Seq(ResSet) /\ Len(res') = Len(res) + 1
      /\ \A i \in 1..Len(res) : res'[i] = res[i]
      /\ res'[Len(res) + 1] = r
  BY AppendProperties DEF TypeInv
<1> QED
  BY <1>1, NodeFacts

(* No address is known at first.                                           *)
LEMMA BookInit == Init => BookInv
<1> SUFFICES ASSUME Init PROVE BookInv
  OBVIOUS
<1>1. IsMap(<< >>) /\ DOMAIN << >> = {}
  BY DEF IsMap
<1>2. << >> \in Seq(Elements(<< >>)) /\ Len(<< >>) = 0
  BY EmptySeq
<1>3. TypeInv
  <2>1. DOMAIN db = Columns /\ \A c \in Columns : IsMap(db[c])
    BY <1>1 DEF Init
  <2>2. DOMAIN multi = Equived /\ \A k \in Equived : IsMap(multi[k])
    BY <1>1 DEF Init
  <2>3. bloom \in [Equived -> SUBSET AllBits] /\ scriptIndexes \in [Kind -> Nat]
    BY DEF Init
  <2>4. /\ open \in BOOLEAN /\ rolledBack \in BOOLEAN
        /\ nodes \in Seq(NodeSet) /\ res \in Seq(ResSet) /\ unspent \subseteq Nat
        /\ Len(res) <= Len(nodes) /\ written \in 0..Len(res)
    <3>1. nodes = << >> /\ res = << >> /\ written = 0 /\ unspent = {} /\ open = FALSE
          /\ rolledBack = FALSE
      BY DEF Init
    <3>2. << >> \in Seq(NodeSet) /\ << >> \in Seq(ResSet)
      BY EmptySeq, Zenon
    <3>3. Len(res) = 0 /\ Len(nodes) = 0
      BY <1>2, <3>1, Zenon
    <3>4. Len(res) <= Len(nodes) /\ written \in 0..Len(res)
      BY <3>1, <3>3
    <3> QED
      BY <3>1, <3>2, <3>4
  <2>5. /\ DOMAIN file = Kind
        /\ \A k \in Kind : /\ file[k] \in Seq(Elements(file[k]))
                           /\ \A n \in 1..Len(file[k]) : "hash" \in DOMAIN file[k][n]
    <3>1. DOMAIN file = Kind /\ \A k \in Kind : file[k] = << >>
      BY DEF Init
    <3>2. \A n \in 1..0 : FALSE
      OBVIOUS
    <3> QED
      BY <1>2, <3>1, <3>2, Zenon
  <2> QED
    BY <2>1, <2>2, <2>3, <2>4, <2>5 DEF TypeInv
<1>4. ClosedInv /\ FilterInv /\ MultiInv
  BY <1>1, <1>2, Kinds DEF Init, ClosedInv, FilterInv, MultiInv
<1> QED
  BY <1>3, <1>4 DEF BookInv

(* Opening and closing move nothing: the disk has what the process had.    *)
LEMMA OpenClose ==
  ASSUME BookInv, Open \/ Close \/ UNCHANGED vars
  PROVE  /\ BookInv'
         /\ UNCHANGED <<db, multi, bloom, scriptIndexes, nodes, res, written, file, rolledBack>>
<1>1. TypeInv /\ ClosedInv /\ FilterInv /\ MultiInv
  BY DEF BookInv
<1>2. /\ UNCHANGED <<db, bloom, nodes, res, written, unspent, file, rolledBack>>
      /\ multi' = multi /\ scriptIndexes' = scriptIndexes
  BY <1>1 DEF Open, Close, vars, book, scripts, ClosedInv
<1>3. TypeInv'
  BY <1>1, <1>2 DEF TypeInv, Open, Close, vars
<1>4. ClosedInv'
  BY <1>1, <1>2 DEF ClosedInv, Open, Close, Idle, vars
<1>5. FilterInv' /\ MultiInv'
  BY <1>1, <1>2 DEF FilterInv, MultiInv, KeysMet
<1> QED
  BY <1>2, <1>3, <1>4, <1>5 DEF BookInv

(* The input around an input: itself, if it is one of the transaction.     *)
LEMMA AroundInput ==
  ASSUME NEW shape \in TxShapes, NEW i \in DOMAIN shape, shape[i].io = "in"
  PROVE  Around(shape, i) \in Inputs(shape) /\ (shape[i].up = 0 => Around(shape, i) = i)
<1>1. \E j \in Inputs(shape) : IsAround(shape, j, i)
  BY TreeAssumption DEF IsTree
<1> DEFINE a == Around(shape, i)
<1>2. a \in Inputs(shape) /\ IsAround(shape, a, i)
  BY <1>1, Zenon DEF Around
<1> HIDE DEF a
<1>3. ASSUME shape[i].up = 0
      PROVE  a = i
  <2>1. i \in Inputs(shape) /\ DOMAIN shape \subseteq Nat
    BY <1>3, ShapeAssumption, LenProperties DEF Inputs
  <2>2. a \in Nat /\ i \in Nat /\ a <= i /\ \A k \in (a + 1)..i : k \notin Inputs(shape)
    BY <1>2, <2>1 DEF IsAround, Inputs
  <2>3. i \notin (a + 1)..i
    BY <2>1, <2>2
  <2> QED
    BY <2>2, <2>3
<1> QED
  BY <1>2, <1>3 DEF a

(* What the nodes of a transaction spend.                                  *)
SpentBy(shape, spent) ==
  [i \in DOMAIN shape |-> IF shape[i].io = "in" THEN spent[Around(shape, i)] ELSE 0]

(* An input spends an output that was unspent.                             *)
LEMMA SpentByInput ==
  ASSUME NEW shape \in TxShapes, NEW U, NEW spent \in [Inputs(shape) -> U],
         NEW i \in DOMAIN shape, shape[i].io = "in"
  PROVE  /\ SpentBy(shape, spent)[i] \in U
         /\ shape[i].up = 0 => SpentBy(shape, spent)[i] = spent[i]
<1>1. SpentBy(shape, spent)[i] = spent[Around(shape, i)]
  BY DEF SpentBy
<1> QED
  BY <1>1, AroundInput

(* A transaction adds nodes at the end.                                    *)
LEMMA AddTxStep ==
  ASSUME BookInv, AddTx
  PROVE  /\ BookInv' /\ \A i \in 1..Len(nodes) : nodes'[i] = nodes[i]
<1>1. TypeInv /\ ClosedInv /\ FilterInv /\ MultiInv
  BY DEF BookInv
<1>2. /\ UNCHANGED <<open, rolledBack, db, multi, bloom, scriptIndexes, disk, res, written, file>>
      /\ open
  BY DEF AddTx, book
<1> DEFINE tx == IF nodes = << >> THEN 0 ELSE nodes[Len(nodes)].tx + 1
<1>3. tx \in Nat
  <2>1. nodes # << >> => Len(nodes) \in 1..Len(nodes)
    BY <1>1, NodeFacts, EmptySeq DEF TypeInv
  <2> QED
    BY <1>1, <2>1, NodeFacts
<1> HIDE DEF tx
<1> DEFINE More(shape, p) ==
      [i \in DOMAIN shape |->
         [io |-> shape[i].io, type |-> shape[i].type, hash |-> shape[i].hash,
          up |-> IF shape[i].up = 0 THEN 0 ELSE Len(nodes) + shape[i].up,
          spends |-> p[i], tx |-> tx]]
<1>41. PICK shape \in TxShapes : \E spent \in [Inputs(shape) -> unspent] :
        /\ nodes' = nodes \o
             [i \in DOMAIN shape |->
                [io |-> shape[i].io, type |-> shape[i].type, hash |-> shape[i].hash,
                 up |-> IF shape[i].up = 0 THEN 0 ELSE Len(nodes) + shape[i].up,
                 spends |-> IF shape[i].io = "in" THEN spent[Around(shape, i)] ELSE 0,
                 tx |-> tx]]
        /\ unspent' = (unspent \ {spent[i] : i \in Inputs(shape)}) \cup
             {Len(nodes) + i : i \in {i \in DOMAIN shape :
                shape[i].io = "out" /\ shape[i].up = 0 /\ Spendable(shape[i].type)}}
  BY Zenon DEF AddTx, tx
<1>42. PICK spent \in [Inputs(shape) -> unspent] :
        /\ nodes' = nodes \o
             [i \in DOMAIN shape |->
                [io |-> shape[i].io, type |-> shape[i].type, hash |-> shape[i].hash,
                 up |-> IF shape[i].up = 0 THEN 0 ELSE Len(nodes) + shape[i].up,
                 spends |-> IF shape[i].io = "in" THEN spent[Around(shape, i)] ELSE 0,
                 tx |-> tx]]
        /\ unspent' = (unspent \ {spent[i] : i \in Inputs(shape)}) \cup
             {Len(nodes) + i : i \in {i \in DOMAIN shape :
                shape[i].io = "out" /\ shape[i].up = 0 /\ Spendable(shape[i].type)}}
  BY <1>41, Zenon
<1>4. /\ nodes' = nodes \o More(shape, SpentBy(shape, spent))
      /\ unspent' = (unspent \ {spent[i] : i \in Inputs(shape)}) \cup
           {Len(nodes) + i : i \in {i \in DOMAIN shape :
              shape[i].io = "out" /\ shape[i].up = 0 /\ Spendable(shape[i].type)}}
  <2>1. \A i \in DOMAIN shape : SpentBy(shape, spent)[i] =
          IF shape[i].io = "in" THEN spent[Around(shape, i)] ELSE 0
    BY DEF SpentBy
  <2> HIDE DEF SpentBy
  <2>2. nodes' = nodes \o More(shape, SpentBy(shape, spent))
    BY <1>42, <2>1, Zenon
  <2> QED
    BY <1>42, <2>2, Zenon
<1> DEFINE p == SpentBy(shape, spent)
<1>5. Len(nodes) \in Nat /\ \A i \in DOMAIN shape : p[i] \in Nat
  <2>1. unspent \subseteq Nat /\ Len(nodes) \in Nat
    BY <1>1, NodeFacts DEF TypeInv
  <2>2. ASSUME NEW i \in DOMAIN shape
        PROVE  p[i] \in Nat
    <3>1. CASE shape[i].io = "in"
      BY <2>1, <3>1, SpentByInput
    <3>2. CASE shape[i].io # "in"
      BY <3>2 DEF SpentBy
    <3> QED
      BY <3>1, <3>2
  <2> QED
    BY <2>1, <2>2
<1> HIDE DEF p
<1>6. /\ shape \in Seq([io : {"in", "out"}, type : DOMAIN DedupType, hash : Hash, up : Nat])
      /\ DOMAIN shape = 1..Len(shape) /\ Len(shape) \in Nat
  BY ShapeAssumption, LenProperties
<1>7. ASSUME NEW i \in DOMAIN shape
      PROVE  [io |-> shape[i].io, type |-> shape[i].type, hash |-> shape[i].hash,
              up |-> IF shape[i].up = 0 THEN 0 ELSE Len(nodes) + shape[i].up,
              spends |-> p[i], tx |-> tx] \in NodeSet
  <2>1. shape[i] \in [io : {"in", "out"}, type : DOMAIN DedupType, hash : Hash, up : Nat]
    BY <1>6, <1>7, ElementOfSeq
  <2>2. /\ shape[i].io \in {"in", "out"} /\ shape[i].type \in DOMAIN DedupType
        /\ shape[i].hash \in Hash /\ shape[i].up \in Nat
    BY <2>1
  <2> QED
    BY <1>3, <1>5, <2>2 DEF NodeSet
<1>8. More(shape, p) \in Seq(NodeSet)
  <2>1. More(shape, p) \in [1..Len(shape) -> NodeSet]
    BY <1>6, <1>7
  <2> QED
    BY <1>6, <2>1, SeqDef
<1> HIDE DEF More
<1>9. /\ nodes' \in Seq(NodeSet) /\ Len(nodes') = Len(nodes) + Len(More(shape, p))
      /\ \A i \in 1..Len(nodes) : nodes'[i] = nodes[i]
      /\ Len(More(shape, p)) \in Nat
  <2>1. nodes \in Seq(NodeSet)
    BY <1>1 DEF TypeInv
  <2>2. nodes' \in Seq(NodeSet) /\ Len(nodes') = Len(nodes) + Len(More(shape, p))
        /\ \A i \in 1..(Len(nodes) + Len(More(shape, p))) :
             nodes'[i] = IF i <= Len(nodes) THEN nodes[i] ELSE More(shape, p)[i - Len(nodes)]
    BY <1>4, <1>8, <2>1, ConcatProperties DEF p
  <2>3. Len(More(shape, p)) \in Nat
    BY <1>8, LenProperties
  <2> QED
    BY <1>5, <2>2, <2>3
<1>10. unspent' \subseteq Nat
  <2>1. \A x \in unspent' : x \in unspent \/ \E i \in DOMAIN shape : x = Len(nodes) + i
    BY <1>4, Zenon
  <2>2. \A i \in DOMAIN shape : Len(nodes) + i \in Nat
    BY <1>5, <1>6
  <2> QED
    BY <1>1, <2>1, <2>2 DEF TypeInv
<1>11. TypeInv'
  <2>1. Len(res) <= Len(nodes')
    BY <1>1, <1>5, <1>9, NodeFacts DEF TypeInv
  <2> QED
    BY <1>1, <1>2, <1>9, <1>10, <2>1 DEF TypeInv
<1>12. ClosedInv' /\ FilterInv' /\ MultiInv'
  BY <1>1, <1>2 DEF ClosedInv, FilterInv, MultiInv, KeysMet
<1> QED
  BY <1>9, <1>11, <1>12 DEF BookInv

(* A script that the resolver passes over.                                 *)
LEMMA SkipStep ==
  ASSUME BookInv, Skip
  PROVE  BookInv'
<1>1. TypeInv /\ ClosedInv /\ FilterInv /\ MultiInv
  BY DEF BookInv
<1>2. /\ UNCHANGED <<open, rolledBack, db, multi, bloom, scriptIndexes, disk, nodes, unspent,
                     written, file>>
      /\ Len(res) < Len(nodes) /\ res' = Append(res, [scriptNum |-> 0, isNew |-> FALSE])
  BY DEF Skip, book, scripts
<1>3. [scriptNum |-> 0, isNew |-> FALSE] \in ResSet
  BY DEF ResSet
<1>4. TypeInv'
  BY <1>1, <1>2, <1>3, ResGrows DEF TypeInv
<1>5. open
  BY <1>1, <1>2, NodeFacts DEF ClosedInv
<1>6. ClosedInv' /\ FilterInv' /\ MultiInv'
  BY <1>1, <1>2, <1>5 DEF ClosedInv, FilterInv, MultiInv, KeysMet
<1> QED
  BY <1>4, <1>6 DEF BookInv

(* The writer changes only the records.                                    *)
LEMMA SerializeFrame ==
  ASSUME BookInv, Serialize, TypeInv'
  PROVE  BookInv'
<1>1. TypeInv /\ ClosedInv /\ FilterInv /\ MultiInv
  BY DEF BookInv
<1>2. /\ UNCHANGED <<open, rolledBack, db, multi, bloom, scriptIndexes, disk, nodes, res>>
      /\ written < Len(res)
  BY DEF Serialize, book, scripts
<1>3. open
  BY <1>1, <1>2, NodeFacts DEF ClosedInv
<1> QED
  BY <1>1, <1>2, <1>3 DEF BookInv, ClosedInv, FilterInv, MultiInv, KeysMet

-----------------------------------------------------------------------------
(* AddressState::findAddress and resolveAddress.                           *)

(* Where a number that was found comes from.                               *)
LEMMA FindAddress ==
  ASSUME TypeInv, NEW t \in DOMAIN DedupType, NEW h \in Hash, DedupType[t] \in Equived
  PROVE  /\ AddressNum(t, h) \in Nat
         /\ ExampleType(t) \in Columns
         /\ AddressNum(t, h) # 0 =>
              \/ h \in DOMAIN multi[DedupType[t]] /\ AddressNum(t, h) = multi[DedupType[t]][h]
              \/ /\ h \notin DOMAIN multi[DedupType[t]]
                 /\ h \in DOMAIN db[ExampleType(t)] /\ AddressNum(t, h) = db[ExampleType(t)][h]
<1>1. ExampleType(t) \in Columns
  BY Kinds
<1>2. IsMap(db[ExampleType(t)]) /\ IsMap(multi[DedupType[t]])
  BY <1>1 DEF TypeInv
<1> QED
  BY <1>1, <1>2 DEF AddressNum, Lookup, IsMap

(* An address that the filter and the maps know.                           *)
LEMMA FoundStep ==
  ASSUME TypeInv, MultiInv, NEW t \in DOMAIN DedupType, NEW h \in Hash,
         DedupType[t] \in Equived, AddressNum(t, h) # 0, Found(t, h)
  PROVE  /\ DOMAIN multi' = Equived /\ \A k \in Equived : IsMap(multi'[k])
         /\ MultiInv'
         /\ \A k \in Equived : \A g \in DOMAIN multi'[k] :
              \/ g \in DOMAIN multi[k] /\ multi'[k][g] = multi[k][g]
              \/ g = h /\ k = DedupType[t] /\ multi'[k][g] = AddressNum(t, h)
         /\ ~KeysMet => /\ h \in DOMAIN db[Column(DedupType[t])]
                        /\ AddressNum(t, h) = db[Column(DedupType[t])][h]
<1> DEFINE k == DedupType[t]
           a == AddressNum(t, h)
<1>1. /\ multi' = [multi EXCEPT ![k] = Insert(@, h, a)] /\ db' = db
      /\ DOMAIN multi = Equived /\ \A l \in Equived : IsMap(multi[l])
  BY DEF Found, TypeInv
<1>2. a \in Nat /\ ExampleType(t) \in Columns
      /\ \/ h \in DOMAIN multi[k] /\ a = multi[k][h]
         \/ h \notin DOMAIN multi[k] /\ h \in DOMAIN db[ExampleType(t)] /\ a = db[ExampleType(t)][h]
  BY FindAddress
<1>3. ~KeysMet => h \in DOMAIN db[Column(k)] /\ a = db[Column(k)][h]
  <2>1. CASE h \in DOMAIN multi[k] /\ a = multi[k][h]
    BY <2>1 DEF MultiInv
  <2>2. CASE h \in DOMAIN db[ExampleType(t)] /\ a = db[ExampleType(t)][h]
    <3>1. CASE t = "MULTISIG_PUBKEY"
      <4>1. h \in DOMAIN db["PUBKEY"]
        BY <2>2, <3>1, Kinds
      <4>2. db["PUBKEY"] # << >>
        BY <4>1
      <4> QED
        BY <4>2 DEF KeysMet
    <3>2. CASE t # "MULTISIG_PUBKEY"
      BY <2>2, <3>2, Kinds
    <3> QED
      BY <3>1, <3>2
  <2> QED
    BY <1>2, <2>1, <2>2
<1> HIDE DEF a
<1>4. /\ DOMAIN multi' = Equived
      /\ \A l \in Equived : multi'[l] = IF l = k THEN Insert(multi[k], h, a) ELSE multi[l]
  BY <1>1
<1>5. /\ IsMap(Insert(multi[k], h, a))
      /\ \A g \in DOMAIN Insert(multi[k], h, a) :
           \/ g \in DOMAIN multi[k] /\ Insert(multi[k], h, a)[g] = multi[k][g]
           \/ g = h /\ Insert(multi[k], h, a)[g] = a
  <2>1. IsMap(multi[k])
    BY <1>1
  <2>2. CASE h \in DOMAIN multi[k]
    BY <2>1, <2>2 DEF Insert
  <2>3. CASE h \notin DOMAIN multi[k]
    <3>1. Insert(multi[k], h, a) = Put(multi[k], h, a)
      BY <2>3 DEF Insert
    <3>2. /\ IsMap(Put(multi[k], h, a)) /\ DOMAIN Put(multi[k], h, a) = DOMAIN multi[k] \cup {h}
          /\ Put(multi[k], h, a)[h] = a
          /\ \A g \in DOMAIN multi[k] : g # h => Put(multi[k], h, a)[g] = multi[k][g]
      <4>1. a \in Nat
        BY <1>2
      <4> HIDE DEF k
      <4> QED
        BY <2>1, <4>1, PutMap
    <3> QED
      BY <3>1, <3>2
  <2> QED
    BY <2>2, <2>3
<1>6. \A l \in Equived : \A g \in DOMAIN multi'[l] :
        \/ g \in DOMAIN multi[l] /\ multi'[l][g] = multi[l][g]
        \/ g = h /\ l = k /\ multi'[l][g] = a
  BY <1>4, <1>5
<1>7. MultiInv'
  <2>1. a # 0
    BY DEF a
  <2> QED
    BY <1>1, <1>3, <1>6, <2>1 DEF MultiInv, KeysMet
<1> QED
  BY <1>1, <1>3, <1>4, <1>5, <1>6, <1>7 DEF a

(* An address that gets the next number.                                   *)
LEMMA NotFoundStep ==
  ASSUME TypeInv, FilterInv, MultiInv, NEW t \in DOMAIN DedupType, NEW h \in Hash,
         DedupType[t] \in Equived, AddressNum(t, h) = 0, NotFound(t, h)
  PROVE  /\ DOMAIN db' = Columns /\ \A c \in Columns : IsMap(db'[c])
         /\ bloom' \in [Equived -> SUBSET AllBits]
         /\ scriptIndexes' \in [Kind -> Nat]
         /\ FilterInv' /\ MultiInv'
         /\ \A c \in Columns : \A g \in DOMAIN db'[c] :
              \/ g \in DOMAIN db[c] /\ db'[c][g] = db[c][g]
              \/ g = h /\ c = ExampleType(t) /\ db'[c][g] = scriptIndexes[DedupType[t]]
         /\ ~ZeroGiven => h \notin DOMAIN db[ExampleType(t)]
                          \/ t = "MULTISIG_PUBKEY"
         /\ t = "MULTISIG_PUBKEY" => KeysMet'
<1> DEFINE k == DedupType[t]
           c == ExampleType(t)
           n == scriptIndexes[k]
<1>1. /\ scriptIndexes' = [scriptIndexes EXCEPT ![k] = @ + 1]
      /\ db' = [db EXCEPT ![c] = Put(@, h, n)]
      /\ bloom' = [bloom EXCEPT ![k] = IF added[k] + 1 >= MaxItems[k]
                                        THEN FilterOf(db'[Column(k)]) ELSE @ \cup BitsOf[h]]
      /\ multi' = multi
  BY DEF NotFound
<1>2. k \in Kind /\ c \in Columns /\ n \in Nat /\ Column(k) \in Columns /\ k \in Equived
      /\ IsMap(db[c]) /\ DOMAIN db = Columns /\ bloom \in [Equived -> SUBSET AllBits]
      /\ scriptIndexes \in [Kind -> Nat] /\ \A x \in Columns : IsMap(db[x])
  <2>1. k \in Kind /\ c \in Columns /\ k \in Equived /\ Column(k) \in Columns
    BY Kinds, FindAddress
  <2>2. DOMAIN db = Columns /\ bloom \in [Equived -> SUBSET AllBits]
        /\ scriptIndexes \in [Kind -> Nat] /\ \A x \in Columns : IsMap(db[x])
    BY DEF TypeInv
  <2> QED
    BY <2>1, <2>2
<1>3. scriptIndexes' \in [Kind -> Nat]
  BY <1>1, <1>2
<1>4. /\ DOMAIN db' = Columns
      /\ \A x \in Columns : db'[x] = IF x = c THEN Put(db[c], h, n) ELSE db[x]
  BY <1>1, <1>2
<1> HIDE DEF c, n, k
<1>5. /\ IsMap(Put(db[c], h, n)) /\ DOMAIN Put(db[c], h, n) = DOMAIN db[c] \cup {h}
      /\ Put(db[c], h, n)[h] = n
      /\ \A g \in DOMAIN db[c] : g # h => Put(db[c], h, n)[g] = db[c][g]
      /\ Put(db[c], h, n) # << >>
  BY <1>2, PutMap
<1> USE DEF k
<1>6. \A x \in Columns : IsMap(db'[x])
  BY <1>2, <1>4, <1>5
<1>7. \A x \in Columns : \A g \in DOMAIN db'[x] :
        \/ g \in DOMAIN db[x] /\ db'[x][g] = db[x][g]
        \/ g = h /\ x = c /\ db'[x][g] = n
  BY <1>4, <1>5
<1>8. \A l \in Equived :
        bloom'[l] = IF l = k THEN (IF added[k] + 1 >= MaxItems[k]
                                   THEN FilterOf(db'[Column(k)]) ELSE bloom[k] \cup BitsOf[h])
                    ELSE bloom[l]
  BY <1>1, <1>2
<1>9. bloom' \in [Equived -> SUBSET AllBits]
  <2>1. FilterOf(db'[Column(k)]) \in SUBSET AllBits
    BY <1>2, <1>6, FilterHas
  <2>2. BitsOf[h] \in SUBSET AllBits
    BY DEF AllBits
  <2>3. bloom[k] \cup BitsOf[h] \in SUBSET AllBits
    BY <1>2, <2>2
  <2> QED
    BY <1>1, <1>2, <2>1, <2>3
<1>10. FilterInv'
  <2> SUFFICES ASSUME NEW l \in Equived, NEW g \in DOMAIN db'[Column(l)]
               PROVE  BitsOf[g] \subseteq bloom'[l]
    BY DEF FilterInv
  <2>1. CASE l = k /\ added[k] + 1 >= MaxItems[k]
    BY <1>2, <1>6, <1>8, <2>1, FilterHas
  <2>2. CASE l = k /\ ~(added[k] + 1 >= MaxItems[k])
    <3>1. g \in DOMAIN db[Column(k)] \/ g = h
      BY <1>2, <1>7, <2>2
    <3>2. bloom'[l] = bloom[k] \cup BitsOf[h]
      BY <1>8, <2>2
    <3> QED
      BY <2>2, <3>1, <3>2 DEF FilterInv
  <2>3. CASE l # k
    <3>1. c # Column(l)
      <4>1. c = "PUBKEY" \/ c = Column(k)
        BY Kinds DEF c
      <4> QED
        BY <1>2, <2>3, <4>1, Kinds
    <3>2. db'[Column(l)] = db[Column(l)]
      BY <1>4, <3>1, Kinds
    <3> QED
      BY <1>8, <2>3, <3>2 DEF FilterInv
  <2> QED
    BY <2>1, <2>2, <2>3
<1>11. PossiblyContains(k, h) => h \notin DOMAIN multi[k]
  <2>1. AddressNum(t, h) = IF ~PossiblyContains(k, h) THEN 0
                           ELSE IF h \in DOMAIN multi[k] THEN multi[k][h] ELSE Lookup(t, h)
    BY DEF AddressNum
  <2> QED
    BY <1>2, <2>1 DEF MultiInv
<1>12. ~PossiblyContains(k, h) => h \notin DOMAIN db[Column(k)]
  BY <1>2 DEF PossiblyContains, FilterInv
<1>13. t = "MULTISIG_PUBKEY" => KeysMet'
  <2>1. t = "MULTISIG_PUBKEY" => c = "PUBKEY"
    BY Kinds DEF c
  <2> QED
    BY <1>4, <1>5, <2>1, Kinds DEF KeysMet
<1>14. KeysMet => KeysMet'
  <2> SUFFICES ASSUME db["PUBKEY"] # << >> PROVE db'["PUBKEY"] # << >>
    BY DEF KeysMet
  <2> QED
    BY <1>4, <1>5, Kinds
<1>15. MultiInv'
  <2> SUFFICES ASSUME NEW l \in Equived, NEW g \in DOMAIN multi[l]
               PROVE  /\ multi[l][g] # 0
                      /\ ~KeysMet' => /\ g \in DOMAIN db'[Column(l)]
                                      /\ multi[l][g] = db'[Column(l)][g]
    BY <1>1 DEF MultiInv
  <2>1. multi[l][g] # 0
    BY DEF MultiInv
  <2>2. ASSUME ~KeysMet'
        PROVE  g \in DOMAIN db'[Column(l)] /\ multi[l][g] = db'[Column(l)][g]
    <3>1. g \in DOMAIN db[Column(l)] /\ multi[l][g] = db[Column(l)][g]
      BY <1>14, <2>2 DEF MultiInv
    <3>2. CASE Column(l) # c
      BY <1>4, <3>1, <3>2, Kinds
    <3>3. CASE Column(l) = c
      <4>1. t # "MULTISIG_PUBKEY" /\ c = Column(k)
        BY <1>13, <2>2, Kinds DEF c
      <4>2. l = k
        BY <1>2, <3>3, <4>1, Kinds
      <4>3. g # h
        BY <1>11, <1>12, <3>1, <4>2
      <4> QED
        BY <1>2, <1>4, <1>5, <3>1, <3>3, <4>3
    <3> QED
      BY <3>2, <3>3
  <2> QED
    BY <2>1, <2>2
<1>16. ~ZeroGiven => h \notin DOMAIN db[c] \/ t = "MULTISIG_PUBKEY"
  <2> SUFFICES ASSUME ~ZeroGiven, t # "MULTISIG_PUBKEY", h \in DOMAIN db[c] PROVE FALSE
    OBVIOUS
  <2>1. c = Column(k)
    BY Kinds DEF c
  <2>2. PossiblyContains(k, h)
    BY <1>12, <2>1
  <2>3. AddressNum(t, h) = db[c][h]
    BY <1>11, <2>2 DEF AddressNum, Lookup, c
  <2> QED
    BY <1>2, <2>3 DEF ZeroGiven
<1> QED
  BY <1>3, <1>4, <1>6, <1>7, <1>9, <1>10, <1>13, <1>15, <1>16 DEF c, n

(* ScriptOutput::resolve of the next node.                                 *)
LEMMA ResolveCases ==
  ASSUME BookInv, Resolve, NEW i, i = Len(res) + 1
  PROVE  /\ i \in 1..Len(nodes) /\ nodes[i].type \in DOMAIN DedupType /\ nodes[i].hash \in Hash
         /\ nodes[i].io = "out" /\ KindOf(i) \in Kind /\ open
         /\ UNCHANGED <<open, rolledBack, disk, nodes, unspent, written, file>>
         /\ \/ /\ KindOf(i) \notin Equived /\ NonDedup(KindOf(i), nodes[i].hash)
            \/ /\ KindOf(i) \in Equived /\ AddressNum(nodes[i].type, nodes[i].hash) = 0
               /\ NotFound(nodes[i].type, nodes[i].hash)
            \/ /\ KindOf(i) \in Equived /\ AddressNum(nodes[i].type, nodes[i].hash) # 0
               /\ Found(nodes[i].type, nodes[i].hash)
         /\ res' = Append(res, [scriptNum |-> answer'.num, isNew |-> answer'.isNew])
         /\ Len(res) < Len(nodes)
<1>1. TypeInv /\ ClosedInv /\ Len(res) < Len(nodes)
  BY DEF BookInv, Resolve
<1>2. i \in 1..Len(nodes) /\ open
  BY <1>1, NodeFacts DEF ClosedInv
<1>3. /\ nodes[i].type \in DOMAIN DedupType /\ nodes[i].hash \in Hash
      /\ KindOf(i) \in Kind /\ nodes[i].io \in {"in", "out"}
  BY <1>1, <1>2, NodeFacts
<1>4. ~Skipped(nodes[i])
  BY DEF Resolve
<1>5. nodes[i].io = "out"
  BY <1>3, <1>4 DEF Skipped
<1>6. UNCHANGED <<open, rolledBack, disk, nodes, unspent, written, file>>
  BY DEF Resolve, scripts
<1>7. IF DedupType[nodes[i].type] \notin Equived THEN NonDedup(DedupType[nodes[i].type], nodes[i].hash)
      ELSE IF AddressNum(nodes[i].type, nodes[i].hash) = 0
           THEN NotFound(nodes[i].type, nodes[i].hash)
           ELSE Found(nodes[i].type, nodes[i].hash)
  BY DEF Resolve
<1>8. res' = Append(res, [scriptNum |-> answer'.num, isNew |-> answer'.isNew])
  BY DEF Resolve
<1> QED
  BY <1>1, <1>2, <1>3, <1>5, <1>6, <1>7, <1>8 DEF KindOf

(* Resolving a script, one way or the other.                               *)
LEMMA ResolveStep ==
  ASSUME BookInv, Resolve
  PROVE  /\ BookInv'
         /\ [scriptNum |-> answer'.num, isNew |-> answer'.isNew] \in ResSet
<1> DEFINE i == Len(res) + 1
           t == nodes[i].type
           h == nodes[i].hash
           k == KindOf(i)
<1>1. TypeInv /\ ClosedInv /\ FilterInv /\ MultiInv
  BY DEF BookInv
<1>2. /\ i \in 1..Len(nodes) /\ t \in DOMAIN DedupType /\ h \in Hash /\ k \in Kind
      /\ UNCHANGED <<open, rolledBack, disk, nodes, unspent, written, file>> /\ open
      /\ \/ k \notin Equived /\ NonDedup(k, h)
         \/ k \in Equived /\ AddressNum(t, h) = 0 /\ NotFound(t, h)
         \/ k \in Equived /\ AddressNum(t, h) # 0 /\ Found(t, h)
      /\ res' = Append(res, [scriptNum |-> answer'.num, isNew |-> answer'.isNew])
      /\ Len(res) < Len(nodes)
  BY ResolveCases
<1>3. k = DedupType[t]
  BY DEF KindOf
<1> HIDE DEF i, t, h, k
<1>4. /\ scriptIndexes \in [Kind -> Nat] /\ bloom \in [Equived -> SUBSET AllBits]
      /\ DOMAIN db = Columns /\ \A c \in Columns : IsMap(db[c])
      /\ DOMAIN multi = Equived /\ \A l \in Equived : IsMap(multi[l])
  BY <1>1 DEF TypeInv
<1>5. /\ scriptIndexes' \in [Kind -> Nat] /\ bloom' \in [Equived -> SUBSET AllBits]
      /\ DOMAIN db' = Columns /\ \A c \in Columns : IsMap(db'[c])
      /\ DOMAIN multi' = Equived /\ \A l \in Equived : IsMap(multi'[l])
      /\ FilterInv' /\ MultiInv'
      /\ answer'.num \in Nat /\ answer'.isNew \in BOOLEAN
  <2>1. CASE k \notin Equived /\ NonDedup(k, h)
    <3>1. /\ scriptIndexes' = [scriptIndexes EXCEPT ![k] = @ + 1]
          /\ answer' = [kind |-> k, hash |-> h, num |-> scriptIndexes[k], isNew |-> TRUE]
          /\ UNCHANGED <<db, multi, bloom>>
      BY <2>1 DEF NonDedup
    <3>2. scriptIndexes' \in [Kind -> Nat]
      BY <1>2, <1>4, <3>1
    <3>3. answer'.num \in Nat /\ answer'.isNew \in BOOLEAN
      BY <1>2, <1>4, <3>1
    <3>4. FilterInv' /\ MultiInv'
      BY <1>1, <3>1 DEF FilterInv, MultiInv, KeysMet
    <3> QED
      BY <1>4, <3>1, <3>2, <3>3, <3>4
  <2>2. CASE k \in Equived /\ AddressNum(t, h) = 0 /\ NotFound(t, h)
    <3>1. multi' = multi
          /\ answer' = [kind |-> k, hash |-> h, num |-> scriptIndexes[k], isNew |-> TRUE]
      BY <1>3, <2>2 DEF NotFound
    <3>2. answer'.num \in Nat /\ answer'.isNew \in BOOLEAN
      BY <1>2, <1>4, <3>1
    <3> QED
      BY <1>1, <1>2, <1>3, <1>4, <2>2, <3>1, <3>2, NotFoundStep
  <2>3. CASE k \in Equived /\ AddressNum(t, h) # 0 /\ Found(t, h)
    <3>1. UNCHANGED <<db, bloom, scriptIndexes>>
          /\ answer' = [kind |-> k, hash |-> h, num |-> AddressNum(t, h), isNew |-> FALSE]
      BY <1>3, <2>3 DEF Found
    <3>2. AddressNum(t, h) \in Nat
      BY <1>1, <1>2, <1>3, <2>3, FindAddress
    <3>3. answer'.num \in Nat /\ answer'.isNew \in BOOLEAN
      BY <3>1, <3>2
    <3>4. FilterInv'
      BY <1>1, <3>1 DEF FilterInv
    <3>5. /\ DOMAIN multi' = Equived /\ \A l \in Equived : IsMap(multi'[l])
          /\ MultiInv'
      BY <1>1, <1>2, <1>3, <2>3, FoundStep
    <3> QED
      BY <1>4, <3>1, <3>3, <3>4, <3>5
  <2> QED
    BY <1>2, <2>1, <2>2, <2>3
<1>6. [scriptNum |-> answer'.num, isNew |-> answer'.isNew] \in ResSet
  BY <1>5 DEF ResSet
<1>7. /\ res' \in Seq(ResSet) /\ Len(res') <= Len(nodes) /\ written \in 0..Len(res')
  BY <1>1, <1>2, <1>6, ResGrows
<1>8. TypeInv'
  BY <1>1, <1>2, <1>5, <1>7 DEF TypeInv
<1>9. ClosedInv'
  BY <1>2 DEF ClosedInv
<1> QED
  BY <1>5, <1>6, <1>8, <1>9 DEF BookInv

-----------------------------------------------------------------------------
(* Rollback.                                                               *)

(* The counts rolled back to, and what is left of the maps and files.      *)
LEMMA RollbackEffect ==
  ASSUME BookInv, Rollback
  PROVE  \E counts \in [Kind -> Nat] :
           /\ \A k \in Kind : counts[k] <= Len(file[k])
           /\ scriptIndexes' = counts
           /\ DOMAIN multi' = Equived
           /\ \A k \in Equived : multi'[k] = Below(multi[k], counts[k])
           /\ DOMAIN db' = Columns
           /\ \A k \in Equived : db'[Column(k)] = Below(db[Column(k)], counts[k])
           /\ db'["PUBKEY"] = db["PUBKEY"]
           /\ file' = [k \in Kind |-> SubSeq(file[k], 1, counts[k])]
<1>1. TypeInv /\ ClosedInv /\ ~open
  BY DEF BookInv, Rollback
<1>2. disk.multi = multi
  BY <1>1 DEF ClosedInv
<1>3. PICK counts \in [Kind -> UNION {0..Len(file[k]) : k \in Kind}] :
        /\ \A k \in Kind : counts[k] <= Len(file[k])
        /\ multi' = [k \in Equived |-> Below(disk.multi[k], counts[k])]
        /\ db' = [c \in Columns |->
                    IF \E k \in Equived : Column(k) = c
                      THEN Below(db[c], counts[CHOOSE k \in Equived : Column(k) = c])
                      ELSE db[c]]
        /\ scriptIndexes' = counts
        /\ file' = [k \in Kind |-> SubSeq(file[k], 1, counts[k])]
  BY DEF Rollback
<1>5. counts \in [Kind -> Nat]
  BY <1>3
<1>6. ASSUME NEW k \in Equived
      PROVE  db'[Column(k)] = Below(db[Column(k)], counts[k])
  <2>1. Column(k) \in Columns
    BY Kinds
  <2>2. \E l \in Equived : Column(l) = Column(k)
    OBVIOUS
  <2> DEFINE l == CHOOSE l \in Equived : Column(l) = Column(k)
  <2>3. l \in Equived /\ Column(l) = Column(k)
    BY <2>2, Zenon
  <2>4. l = k
    BY <2>3, Kinds
  <2>5. db'[Column(k)] = Below(db[Column(k)], counts[l])
    BY <1>3, <2>1, <2>2
  <2> QED
    BY <2>4, <2>5
<1>7. db'["PUBKEY"] = db["PUBKEY"]
  <2>1. ~\E k \in Equived : Column(k) = "PUBKEY"
    BY Kinds
  <2> QED
    BY <1>3, <2>1, Kinds
<1>8. DOMAIN db' = Columns /\ DOMAIN multi' = Equived
      /\ \A k \in Equived : multi'[k] = Below(multi[k], counts[k])
  BY <1>2, <1>3
<1> QED
  BY <1>3, <1>5, <1>6, <1>7, <1>8

(* Rolling the state back keeps the three stores in agreement.             *)
LEMMA RollbackStep ==
  ASSUME BookInv, Rollback
  PROVE  BookInv'
<1>1. TypeInv /\ ClosedInv /\ MultiInv
  BY DEF BookInv
<1>2. PICK counts \in [Kind -> Nat] :
           /\ \A k \in Kind : counts[k] <= Len(file[k])
           /\ scriptIndexes' = counts
           /\ DOMAIN multi' = Equived
           /\ \A k \in Equived : multi'[k] = Below(multi[k], counts[k])
           /\ DOMAIN db' = Columns
           /\ \A k \in Equived : db'[Column(k)] = Below(db[Column(k)], counts[k])
           /\ db'["PUBKEY"] = db["PUBKEY"]
           /\ file' = [k \in Kind |-> SubSeq(file[k], 1, counts[k])]
  BY RollbackEffect
<1>3. /\ bloom' = [k \in Equived |-> FilterOf(db'[Column(k)])]
      /\ disk' = [multi |-> multi', added |-> added', scriptIndexes |-> scriptIndexes']
      /\ nodes' = << >> /\ res' = << >> /\ written' = 0 /\ unspent' = {}
      /\ rolledBack' = TRUE /\ open' = open
  BY DEF Rollback
<1>4. \A k \in Equived : IsMap(multi[k]) /\ IsMap(db[Column(k)])
      /\ IsMap(db["PUBKEY"])
  BY <1>1, Kinds DEF TypeInv
<1>5. ASSUME NEW k \in Equived
      PROVE  /\ IsMap(multi'[k]) /\ IsMap(db'[Column(k)])
             /\ \A h : h \in DOMAIN multi'[k] <=> h \in DOMAIN multi[k] /\ multi[k][h] < counts[k]
             /\ \A h \in DOMAIN multi'[k] : multi'[k][h] = multi[k][h]
             /\ \A h : h \in DOMAIN db'[Column(k)] <=>
                  h \in DOMAIN db[Column(k)] /\ db[Column(k)][h] < counts[k]
             /\ \A h \in DOMAIN db'[Column(k)] : db'[Column(k)][h] = db[Column(k)][h]
  <2>1. multi'[k] = Below(multi[k], counts[k]) /\ IsMap(multi[k])
        /\ db'[Column(k)] = Below(db[Column(k)], counts[k]) /\ IsMap(db[Column(k)])
    BY <1>2, <1>4
  <2>2. /\ IsMap(multi'[k])
        /\ \A h : h \in DOMAIN multi'[k] <=> h \in DOMAIN multi[k] /\ multi[k][h] < counts[k]
        /\ \A h \in DOMAIN multi'[k] : multi'[k][h] = multi[k][h]
    BY <2>1, BelowMap
  <2>3. /\ IsMap(db'[Column(k)])
        /\ \A h : h \in DOMAIN db'[Column(k)] <=>
             h \in DOMAIN db[Column(k)] /\ db[Column(k)][h] < counts[k]
        /\ \A h \in DOMAIN db'[Column(k)] : db'[Column(k)][h] = db[Column(k)][h]
    BY <2>1, BelowMap
  <2> QED
    BY <2>2, <2>3
<1>6. ASSUME NEW c \in Columns PROVE IsMap(db'[c])
  <2>1. CASE c = "PUBKEY"
    BY <1>2, <1>4, <2>1, Kinds
  <2>2. ASSUME NEW k \in Equived, c = Column(k) PROVE IsMap(db'[c])
    BY <1>5, <2>2
  <2> QED
    BY <2>1, <2>2, Kinds
<1>7. bloom' \in [Equived -> SUBSET AllBits] /\ FilterInv'
  BY <1>3, <1>5, FilterHas DEF FilterInv
<1>8. /\ DOMAIN file' = Kind
      /\ \A k \in Kind : /\ file'[k] \in Seq(Elements(file'[k]))
                         /\ \A n \in 1..Len(file'[k]) : "hash" \in DOMAIN file'[k][n]
  <2> SUFFICES ASSUME NEW k \in Kind
               PROVE  /\ file'[k] \in Seq(Elements(file'[k]))
                      /\ \A n \in 1..Len(file'[k]) : "hash" \in DOMAIN file'[k][n]
    BY <1>2
  <2>1. /\ file[k] \in Seq(Elements(file[k]))
        /\ \A n \in 1..Len(file[k]) : "hash" \in DOMAIN file[k][n]
    BY <1>1 DEF TypeInv
  <2>2. counts[k] \in 0..Len(file[k]) /\ file'[k] = SubSeq(file[k], 1, counts[k])
    BY <1>2, <2>1, LenProperties
  <2>3. /\ file'[k] \in Seq(Elements(file'[k])) /\ Len(file'[k]) = counts[k]
        /\ \A i \in 1..counts[k] : file'[k][i] = file[k][i] /\ i \in 1..Len(file[k])
    BY <2>1, <2>2, ElementsSub
  <2> QED
    BY <2>1, <2>3
<1>9. Len(<< >>) = 0 /\ << >> \in Seq(NodeSet) /\ << >> \in Seq(ResSet)
  BY EmptySeq
<1>10. TypeInv'
  <2>1. Len(res') = 0 /\ Len(nodes') = 0
    BY <1>3, <1>9, Zenon
  <2>2. Len(res') <= Len(nodes') /\ written' \in 0..Len(res')
    BY <1>3, <2>1
  <2>3. nodes' \in Seq(NodeSet) /\ res' \in Seq(ResSet)
    BY <1>3, <1>9
  <2>4. scriptIndexes' \in [Kind -> Nat]
    BY <1>2
  <2>5. open' \in BOOLEAN /\ rolledBack' \in BOOLEAN /\ unspent' \subseteq Nat
    BY <1>1, <1>3 DEF TypeInv
  <2> QED
    BY <1>2, <1>5, <1>6, <1>7, <1>8, <2>2, <2>3, <2>4, <2>5 DEF TypeInv
<1>11. ClosedInv'
  BY <1>3 DEF ClosedInv
<1>12. MultiInv'
  <2> SUFFICES ASSUME NEW k \in Equived, NEW h \in DOMAIN multi'[k]
               PROVE  /\ multi'[k][h] # 0
                      /\ ~KeysMet' => /\ h \in DOMAIN db'[Column(k)]
                                      /\ multi'[k][h] = db'[Column(k)][h]
    BY DEF MultiInv
  <2>1. h \in DOMAIN multi[k] /\ multi'[k][h] = multi[k][h] /\ multi[k][h] < counts[k]
    BY <1>5
  <2>2. multi[k][h] # 0 /\ (~KeysMet => h \in DOMAIN db[Column(k)] /\ multi[k][h] = db[Column(k)][h])
    BY <1>1, <2>1 DEF MultiInv
  <2>3. KeysMet' <=> KeysMet
    BY <1>2 DEF KeysMet
  <2> QED
    BY <1>5, <2>1, <2>2, <2>3
<1> QED
  BY <1>7, <1>10, <1>11, <1>12 DEF BookInv

-----------------------------------------------------------------------------
(* AddressWriter.                                                          *)

(* The writer appends the record of a new script, or changes a record of   *)
(* some kind in place; a record keeps its hash.                            *)
Appends(i) == file' = [file EXCEPT ![KindOf(i)] = Append(@, NewRecord(i))]
Changes(k, x, r) ==
  /\ file' = [file EXCEPT ![k][x] = r]
  /\ "hash" \in DOMAIN file[k][x] => "hash" \in DOMAIN r /\ r.hash = file[k][x].hash

(* Whatever [r EXCEPT ...] overwrites, it is not the hash.                 *)
LEMMA KeepsHash ==
  ASSUME NEW r, NEW f, NEW v, f # "hash", "hash" \in DOMAIN r
  PROVE  "hash" \in DOMAIN [r EXCEPT ![f] = v] /\ [r EXCEPT ![f] = v]["hash"] = r["hash"]
OBVIOUS

(* A record that learns its data keeps its hash.                           *)
LEMMA KnownKeepsHash ==
  ASSUME NEW n, NEW r, "hash" \in DOMAIN r
  PROVE  "hash" \in DOMAIN Known(n, r) /\ Known(n, r).hash = r.hash
<1>1. CASE n.type = "PUBKEY"
  BY <1>1, KeepsHash DEF Known
<1>2. CASE n.type = "WITNESS_SCRIPTHASH"
  BY <1>2, KeepsHash DEF Known
<1>3. CASE n.type # "PUBKEY" /\ n.type # "WITNESS_SCRIPTHASH"
  BY <1>3 DEF Known
<1> QED
  BY <1>1, <1>2, <1>3

(* A record that is spent keeps its hash.                                  *)
LEMMA SpendKeepsHash ==
  ASSUME NEW i, NEW r, "hash" \in DOMAIN r
  PROVE  "hash" \in DOMAIN Spend(i, r) /\ Spend(i, r).hash = r.hash
<1>1. ASSUME NEW q, "hash" \in DOMAIN q
      PROVE  "hash" \in DOMAIN Reveals(i, q) /\ Reveals(i, q).hash = q.hash
  <2> DEFINE T == nodes[i].type
  <2>1. CASE T \in {"PUBKEYHASH", "WITNESS_PUBKEYHASH"}
    BY <1>1, <2>1, KeepsHash DEF Reveals
  <2>2. CASE T \in {"SCRIPTHASH", "WITNESS_SCRIPTHASH"}
    BY <1>1, <2>2, KeepsHash DEF Reveals
  <2>3. CASE T = "NONSTANDARD"
    BY <1>1, <2>3, KeepsHash DEF Reveals
  <2>4. CASE T \notin {"PUBKEYHASH", "WITNESS_PUBKEYHASH", "SCRIPTHASH", "WITNESS_SCRIPTHASH",
                       "NONSTANDARD"}
    BY <1>1, <2>4 DEF Reveals
  <2> QED
    BY <2>1, <2>2, <2>3, <2>4
<1> DEFINE s == [r EXCEPT !.seen = IF nodes[nodes[i].spends].tx < @ THEN nodes[nodes[i].spends].tx
                                   ELSE @]
           u == [s EXCEPT !.spent = nodes[i].tx]
<1>2. "hash" \in DOMAIN s /\ s.hash = r.hash
  BY KeepsHash
<1>3. "hash" \in DOMAIN u /\ u.hash = s.hash
  BY <1>2, KeepsHash
<1>4. Spend(i, r) = IF r.spent = Never THEN Reveals(i, u) ELSE s
  BY DEF Spend
<1> HIDE DEF u, s
<1> QED
  BY <1>1, <1>2, <1>3, <1>4

(* One node of serializeAddressess.                                        *)
LEMMA SerializeCases ==
  ASSUME BookInv, Serialize, NEW w, w = written + 1
  PROVE  /\ w \in 1..Len(res) /\ w \in 1..Len(nodes) /\ KindOf(w) \in Kind /\ written' = w
         /\ UNCHANGED <<open, rolledBack, db, multi, bloom, scriptIndexes, disk, nodes, unspent, res>>
         /\ \/ res[w].isNew /\ nodes[w].io = "out" /\ Appends(w)
            \/ /\ ~(res[w].isNew /\ nodes[w].io = "out")
               /\ file' = file \/ \E x, r : Changes(KindOf(w), x, r)
<1>1. TypeInv /\ written < Len(res)
  BY DEF BookInv, Serialize
<1>2. w \in 1..Len(res) /\ w \in 1..Len(nodes) /\ KindOf(w) \in Kind
  <2>1. w \in 1..Len(res)
    BY <1>1, NodeFacts
  <2> QED
    BY <1>1, <2>1, NodeFacts
<1>3. UNCHANGED <<open, rolledBack, db, multi, bloom, scriptIndexes, disk, nodes, unspent, res>>
      /\ written' = w
  BY DEF Serialize, book, scripts
<1>4. CASE nodes[w].io = "out"
  <2>1. WriteOutput(w)
    BY <1>4 DEF Serialize
  <2>2. CASE res[w].isNew
    BY <1>2, <1>3, <1>4, <2>1, <2>2 DEF WriteOutput, Appends, KindOf
  <2>3. CASE ~res[w].isNew /\ Skipped(nodes[w])
    BY <1>2, <1>3, <1>4, <2>1, <2>3 DEF WriteOutput
  <2>4. CASE ~res[w].isNew /\ ~Skipped(nodes[w])
    <3> DEFINE k == KindOf(w)
               x == res[w].scriptNum
               r == Known(nodes[w], file[k][x])
    <3>1. file' = [file EXCEPT ![k][x] = r]
      BY <2>1, <2>4 DEF WriteOutput, KindOf
    <3>2. "hash" \in DOMAIN file[k][x] => "hash" \in DOMAIN r /\ r.hash = file[k][x].hash
      BY KnownKeepsHash
    <3>3. Changes(k, x, r)
      BY <3>1, <3>2 DEF Changes
    <3> QED
      BY <1>2, <1>3, <2>4, <3>3
  <2> QED
    BY <2>2, <2>3, <2>4
<1>5. CASE nodes[w].io # "out"
  <2> DEFINE k == KindOf(w)
             x == InputNum(w)
             r == Spend(w, file[k][x])
  <2>1. file' = [file EXCEPT ![k][x] = r]
    BY <1>5 DEF Serialize, WriteInput, KindOf
  <2>2. "hash" \in DOMAIN file[k][x] => "hash" \in DOMAIN r /\ r.hash = file[k][x].hash
    BY SpendKeepsHash
  <2>3. Changes(k, x, r)
    BY <2>1, <2>2 DEF Changes
  <2> QED
    BY <1>2, <1>3, <1>5, <2>3
<1> QED
  BY <1>4, <1>5

(* The effect on the records of each kind.                                 *)
LEMMA AppendEffect ==
  ASSUME TypeInv, NEW w \in 1..Len(nodes), Appends(w), NEW k \in Kind
  PROVE  /\ DOMAIN file' = Kind
         /\ file'[k] \in Seq(Elements(file'[k]))
         /\ \A n \in 1..Len(file'[k]) : "hash" \in DOMAIN file'[k][n]
         /\ k # KindOf(w) => file'[k] = file[k]
         /\ k = KindOf(w) => /\ Len(file'[k]) = Len(file[k]) + 1
                             /\ \A n \in 1..Len(file[k]) : file'[k][n] = file[k][n]
                             /\ file'[k][Len(file[k]) + 1].hash = nodes[w].hash
<1>1. /\ DOMAIN file = Kind /\ file[k] \in Seq(Elements(file[k])) /\ Len(file[k]) \in Nat
      /\ \A n \in 1..Len(file[k]) : "hash" \in DOMAIN file[k][n]
  BY LenProperties DEF TypeInv
<1>2. DOMAIN file' = Kind
      /\ file'[k] = IF k = KindOf(w) THEN Append(file[k], NewRecord(w)) ELSE file[k]
  BY <1>1 DEF Appends
<1>3. "hash" \in DOMAIN NewRecord(w) /\ NewRecord(w).hash = nodes[w].hash
  BY DEF NewRecord
<1>4. CASE k # KindOf(w)
  BY <1>1, <1>2, <1>4
<1>5. CASE k = KindOf(w)
  <2>1. file'[k] = Append(file[k], NewRecord(w))
    BY <1>2, <1>5
  <2>2. /\ file'[k] \in Seq(Elements(file'[k])) /\ Len(file'[k]) = Len(file[k]) + 1
        /\ \A n \in 1..Len(file[k]) : file'[k][n] = file[k][n]
        /\ file'[k][Len(file[k]) + 1] = NewRecord(w)
    BY <1>1, <2>1, ElementsAppend
  <2>3. \A n \in 1..Len(file'[k]) : n \in 1..Len(file[k]) \/ n = Len(file[k]) + 1
    BY <1>1, <2>2
  <2> QED
    BY <1>1, <1>2, <1>3, <1>5, <2>2, <2>3
<1> QED
  BY <1>4, <1>5

(* A record changed in place keeps its hash, and all stay in their places. *)
LEMMA ChangeEffect ==
  ASSUME TypeInv, NEW l \in Kind, NEW x, NEW r, Changes(l, x, r), NEW k \in Kind
  PROVE  /\ DOMAIN file' = Kind
         /\ file'[k] \in Seq(Elements(file'[k])) /\ Len(file'[k]) = Len(file[k])
         /\ \A n \in 1..Len(file[k]) : "hash" \in DOMAIN file'[k][n]
                                       /\ file'[k][n].hash = file[k][n].hash
<1>1. /\ DOMAIN file = Kind /\ file[k] \in Seq(Elements(file[k])) /\ Len(file[k]) \in Nat
      /\ \A n \in 1..Len(file[k]) : "hash" \in DOMAIN file[k][n]
  BY LenProperties DEF TypeInv
<1>2. file' = [file EXCEPT ![l] = [file[l] EXCEPT ![x] = r]]
  BY DEF Changes
<1>3. DOMAIN file' = Kind
      /\ file'[k] = IF k = l THEN [file[k] EXCEPT ![x] = r] ELSE file[k]
  BY <1>1, <1>2
<1>4. CASE k # l
  BY <1>1, <1>3, <1>4
<1>5. CASE k = l
  <2>1. file'[k] = [file[k] EXCEPT ![x] = r]
    BY <1>3, <1>5
  <2>2. /\ file'[k] \in Seq(Elements(file'[k])) /\ Len(file'[k]) = Len(file[k])
        /\ \A n \in 1..Len(file[k]) : file'[k][n] = IF n = x THEN r ELSE file[k][n]
    <3>1. file'[k] = [n \in DOMAIN file[k] |-> IF n = x THEN r ELSE file[k][n]]
      BY <2>1, Zenon
    <3>2. DOMAIN file[k] = 1..Len(file[k])
      BY <1>1, LenProperties
    <3>3. file'[k] = [n \in 1..Len(file[k]) |-> IF n = x THEN r ELSE file[k][n]]
      BY <3>1, <3>2
    <3>4. file'[k] \in [1..Len(file[k]) -> Elements(file'[k])]
      BY <3>3 DEF Elements
    <3>5. file'[k] \in Seq(Elements(file'[k])) /\ Len(file'[k]) = Len(file[k])
      BY <1>1, <3>4, ElementsKept
    <3> QED
      BY <3>3, <3>5
  <2>3. x \in 1..Len(file[k]) => "hash" \in DOMAIN r /\ r.hash = file[k][x].hash
    BY <1>1, <1>5 DEF Changes
  <2> QED
    BY <1>1, <1>3, <2>2, <2>3
<1> QED
  BY <1>4, <1>5

(* Writing a script changes nothing that is asked for numbers.             *)
LEMMA SerializeStep ==
  ASSUME BookInv, Serialize
  PROVE  BookInv'
<1> DEFINE w == written + 1
<1>1. TypeInv
  BY DEF BookInv
<1>2. /\ w \in 1..Len(res) /\ w \in 1..Len(nodes) /\ KindOf(w) \in Kind /\ written' = w
      /\ UNCHANGED <<open, rolledBack, db, multi, bloom, scriptIndexes, disk, nodes, unspent, res>>
      /\ \/ res[w].isNew /\ nodes[w].io = "out" /\ Appends(w)
         \/ /\ ~(res[w].isNew /\ nodes[w].io = "out")
            /\ file' = file \/ \E x, r : Changes(KindOf(w), x, r)
  BY SerializeCases
<1> HIDE DEF w
<1>3. /\ DOMAIN file' = Kind
      /\ \A k \in Kind : /\ file'[k] \in Seq(Elements(file'[k]))
                         /\ \A n \in 1..Len(file'[k]) : "hash" \in DOMAIN file'[k][n]
  <2>1. CASE Appends(w)
    <3>1. w \in 1..Len(nodes)
      BY <1>2
    <3>2. \A k \in Kind :
            /\ DOMAIN file' = Kind
            /\ file'[k] \in Seq(Elements(file'[k]))
            /\ \A n \in 1..Len(file'[k]) : "hash" \in DOMAIN file'[k][n]
      BY <1>1, <2>1, <3>1, AppendEffect
    <3> QED
      BY <1>2, <3>2
  <2>2. CASE file' = file
    BY <1>1, <2>2 DEF TypeInv
  <2>3. CASE \E x, r : Changes(KindOf(w), x, r)
    <3>1. PICK x, r : Changes(KindOf(w), x, r)
      BY <2>3
    <3>2. \A k \in Kind :
            /\ DOMAIN file' = Kind
            /\ file'[k] \in Seq(Elements(file'[k])) /\ Len(file'[k]) = Len(file[k])
            /\ \A n \in 1..Len(file[k]) : "hash" \in DOMAIN file'[k][n]
      BY <1>1, <1>2, <3>1, ChangeEffect
    <3> QED
      BY <1>2, <3>2
  <2> QED
    BY <1>2, <2>1, <2>2, <2>3
<1>4. TypeInv'
  <2>1. written' \in 0..Len(res)
    BY <1>1, <1>2, NodeFacts
  <2> QED
    BY <1>1, <1>2, <1>3, <2>1 DEF TypeInv
<1> QED
  BY <1>4, SerializeFrame

(* The filter never hides an address of its column, and the map and the    *)
(* database agree, across restarts, rollbacks and rebuilt filters.         *)
THEOREM BookInvariance == Spec => []BookInv
<1>1. BookInv /\ [Next]_vars => BookInv'
  BY OpenClose, AddTxStep, SkipStep, ResolveStep, SerializeStep, RollbackStep DEF Next
<1> QED
  BY BookInit, <1>1, PTL DEF Spec

-----------------------------------------------------------------------------
(* The address book.                                                       *)

(* The database columns of the kinds and the counters, open or closed.     *)
Columned == [k \in Equived |-> db[Column(k)]]
Counters == IF open THEN scriptIndexes ELSE disk.scriptIndexes

(* Opening, closing, reading a transaction and writing records are not     *)
(* steps of the book.                                                      *)
LEMMA OtherStutter ==
  ASSUME BookInv, Open \/ Close \/ AddTx \/ Skip \/ Serialize \/ UNCHANGED vars
  PROVE  UNCHANGED <<Columned, Counters, answer>>
<1>1. UNCHANGED <<db, answer>>
  BY DEF Open, Close, AddTx, Skip, Serialize, vars, book
<1>2. UNCHANGED Counters
  <2>1. CASE Open
    BY <2>1 DEF Open, Counters
  <2>2. CASE Close
    BY <2>2 DEF Close, Idle, book, Counters
  <2>3. CASE AddTx \/ Skip \/ Serialize
    <3>1. UNCHANGED <<open, scriptIndexes, disk>>
      BY <2>3 DEF AddTx, Skip, Serialize, book
    <3> QED
      BY <3>1 DEF Counters
  <2>4. CASE UNCHANGED vars
    BY <2>4 DEF vars, book, Counters
  <2> QED
    BY <2>1, <2>2, <2>3, <2>4
<1> QED
  BY <1>1, <1>2 DEF Columned

(* An address that is found is one of the book's, with its number.         *)
LEMMA FoundIsKnown ==
  ASSUME BookInv, open, open', NEW t \in DOMAIN DedupType, NEW h \in Hash,
         DedupType[t] \in Equived, AddressNum(t, h) # 0, Found(t, h), ~KeysMet'
  PROVE  Book!Known(DedupType[t], h)
<1> DEFINE k == DedupType[t]
<1>1. UNCHANGED <<db, scriptIndexes>>
      /\ answer' = [kind |-> k, hash |-> h, num |-> AddressNum(t, h), isNew |-> FALSE]
  BY DEF Found
<1>2. ~KeysMet
  BY <1>1 DEF KeysMet
<1>3. h \in DOMAIN db[Column(k)] /\ AddressNum(t, h) = db[Column(k)][h]
  BY <1>2, FoundStep DEF BookInv
<1> QED
  BY <1>1, <1>3 DEF Book!Known

(* One that is not found is new to the book, unless a number is 0, and     *)
(* gets the next number.                                                   *)
LEMMA NotFoundIsNew ==
  ASSUME BookInv, open, open', NEW t \in DOMAIN DedupType, NEW h \in Hash,
         DedupType[t] \in Equived, AddressNum(t, h) = 0, NotFound(t, h),
         ~KeysMet', ~ZeroGiven
  PROVE  Book!New(DedupType[t], h)
<1> DEFINE k == DedupType[t]
           n == scriptIndexes[k]
<1>1. /\ t # "MULTISIG_PUBKEY" /\ h \notin DOMAIN db[ExampleType(t)]
  BY NotFoundStep DEF BookInv
<1>2. ExampleType(t) = Column(k) /\ Column(k) \in Columns /\ k \in Equived
  BY <1>1, Kinds
<1>3. /\ scriptIndexes' = [scriptIndexes EXCEPT ![k] = @ + 1]
      /\ db' = [db EXCEPT ![Column(k)] = Put(@, h, n)]
      /\ answer' = [kind |-> k, hash |-> h, num |-> n, isNew |-> TRUE]
  BY <1>2 DEF NotFound
<1>4. DOMAIN db = Columns
  BY DEF BookInv, TypeInv
<1>5. \A l \in Equived : db'[Column(l)] = IF l = k THEN Put(db[Column(k)], h, n) ELSE db[Column(l)]
  BY <1>2, <1>3, <1>4, Kinds
<1>6. Columned' = [Columned EXCEPT ![k] = Put(@, h, n)]
  BY <1>2, <1>5 DEF Columned
<1>7. Columned' = [Columned EXCEPT ![k] = [g \in DOMAIN @ \cup {h} |-> IF g = h THEN n ELSE @[g]]]
  BY <1>6 DEF Put
<1>8. h \notin DOMAIN Columned[k]
  BY <1>1, <1>2 DEF Columned
<1> QED
  BY <1>3, <1>7, <1>8 DEF Book!New, Book!Fresh, Columned

(* A rollback forgets the numbers from the counts on.                      *)
LEMMA RollbackForgets ==
  ASSUME BookInv, Rollback
  PROVE  Book!Forget
<1>1. ~open /\ ~open' /\ answer' = [kind |-> "none"]
      /\ disk'.scriptIndexes = scriptIndexes'
  BY DEF Rollback
<1>2. PICK counts \in [Kind -> Nat] :
           /\ scriptIndexes' = counts
           /\ \A k \in Equived : db'[Column(k)] = Below(db[Column(k)], counts[k])
  BY RollbackEffect
<1>3. Counters' = counts
  BY <1>1, <1>2 DEF Counters
<1>4. Columned' = [k \in Equived |-> Below(Columned[k], Counters'[k])]
  BY <1>2, <1>3 DEF Columned
<1> QED
  BY <1>1, <1>2, <1>3, <1>4 DEF Book!Forget, Book!NoAnswer, Below, Columned, Counters

(* AddressState implements the address book: an address gets the next      *)
(* number when it is first met and the same one ever after, through full   *)
(* filters, restarts and rollbacks, as long as no key of a multisig script *)
(* was met and no number is 0.                                             *)
THEOREM StateIsAddressBook == Spec => ImplementsAddressBook
<1>1. Init => Book!Init
  <2> SUFFICES ASSUME Init PROVE Book!Init
    OBVIOUS
  <2>1. Columned = [k \in Equived |-> << >>]
    BY Kinds DEF Init, Columned
  <2>2. Counters = [k \in Kind |-> 1]
    BY DEF Init, Counters
  <2>3. answer = [kind |-> "none"]
    BY DEF Init
  <2> QED
    BY <2>1, <2>2, <2>3, Zenon DEF Book!Init, Book!NoAnswer, Columned, Counters
<1>2. BookInv /\ [Next]_vars => [Book!Next \/ KeysMet' \/ ZeroGiven \/ ZeroGiven']_(Book!vars)
  <2> SUFFICES ASSUME BookInv, [Next]_vars, ~KeysMet', ~ZeroGiven
               PROVE  Book!Next \/ UNCHANGED Book!vars
    BY DEF Book!vars
  <2>1. CASE Open \/ Close \/ AddTx \/ Skip \/ Serialize \/ UNCHANGED vars
    BY <2>1, OtherStutter DEF Book!vars, Columned, Counters
  <2>2. CASE Resolve
    <3> DEFINE i == Len(res) + 1
               t == nodes[i].type
               h == nodes[i].hash
               k == KindOf(i)
    <3>1. /\ t \in DOMAIN DedupType /\ h \in Hash /\ k \in Kind
          /\ UNCHANGED open /\ open
          /\ \/ k \notin Equived /\ NonDedup(k, h)
             \/ k \in Equived /\ AddressNum(t, h) = 0 /\ NotFound(t, h)
             \/ k \in Equived /\ AddressNum(t, h) # 0 /\ Found(t, h)
      BY <2>2, ResolveCases
    <3>2. k = DedupType[t]
      BY DEF KindOf
    <3> HIDE DEF i, t, h, k
    <3>3. CASE k \notin Equived /\ NonDedup(k, h)
      <4>1. Book!Fresh(k, h) /\ UNCHANGED Columned
        BY <3>1, <3>3 DEF NonDedup, Book!Fresh, Columned
      <4> QED
        BY <3>1, <3>3, <4>1 DEF Book!Next, Columned
    <3>4. CASE k \in Equived /\ AddressNum(t, h) = 0 /\ NotFound(t, h)
      <4>1. Book!New(k, h)
        BY <3>1, <3>2, <3>4, NotFoundIsNew
      <4> QED
        BY <3>1, <3>4, <4>1 DEF Book!Next
    <3>5. CASE k \in Equived /\ AddressNum(t, h) # 0 /\ Found(t, h)
      <4>1. Book!Known(k, h)
        BY <3>1, <3>2, <3>5, FoundIsKnown
      <4> QED
        BY <3>1, <3>5, <4>1 DEF Book!Next
    <3> QED
      BY <3>1, <3>3, <3>4, <3>5
  <2>3. CASE Rollback
    BY <2>3, RollbackForgets DEF Book!Next
  <2> QED
    BY <2>1, <2>2, <2>3 DEF Next
<1> QED
  BY <1>1, <1>2, BookInvariance, PTL DEF Spec, ImplementsAddressBook

-----------------------------------------------------------------------------
(* The script numbers that one thread gives out (AddressState) lead to the *)
(* records that the other one appends (AddressWriter).                     *)
-----------------------------------------------------------------------------
(* The scripts of kind k that have a new number and no record yet.         *)
Pending(k) == {i \in (written + 1)..Len(res) : res[i].isNew /\ KindOf(i) = k}

(* They have, in order, the numbers that follow those of the records.      *)
PendingInv ==
  \A k \in Kind :
    /\ Len(file[k]) < scriptIndexes[k]
    /\ \A i \in Pending(k) :
         Len(file[k]) < res[i].scriptNum /\ res[i].scriptNum < scriptIndexes[k]
    /\ \A i, j \in Pending(k) : i < j => res[i].scriptNum < res[j].scriptNum
    /\ \A n \in Nat : Len(file[k]) < n /\ n < scriptIndexes[k] =>
         \E i \in Pending(k) : res[i].scriptNum = n
NewInv == \A i \in 1..Len(res) : res[i].isNew => nodes[i].io = "out"

(* Number n of kind k is that of hash h: it is in the record, or the       *)
(* script that will be that record is pending and not after node m.        *)
Named(k, n, h, m) ==
  \/ n \in 1..Len(file[k]) /\ file[k][n].hash = h
  \/ \E j \in Pending(k) : j <= m /\ res[j].scriptNum = n /\ nodes[j].hash = h

NameInv ==
  /\ \A i \in 1..Len(res) :
       res[i].scriptNum # 0 => Named(KindOf(i), res[i].scriptNum, nodes[i].hash, i)
  /\ \A k \in Equived : \A h \in DOMAIN multi[k] : Named(k, multi[k][h], h, Len(res))
  /\ \A k \in Equived : \A h \in DOMAIN db[Column(k)] :
       Named(k, db[Column(k)][h], h, Len(res))
  /\ \A h \in DOMAIN db["PUBKEY"] : Named("PUBKEY", db["PUBKEY"][h], h, Len(res))

RecordInv == ~rolledBack => PendingInv /\ NewInv /\ NameInv

-----------------------------------------------------------------------------
(* Names.                                                                  *)

(* A pending script is pending for the nodes after it too.                 *)
LEMMA NamedLater ==
  ASSUME TypeInv, NEW k, NEW n, NEW h, NEW m \in Nat, NEW p \in Nat, m <= p, Named(k, n, h, m)
  PROVE  Named(k, n, h, p)
<1>1. \A j \in Pending(k) : j \in Nat
  BY NodeFacts DEF Pending
<1> QED
  BY <1>1 DEF Named

(* The same in the next state, for the numbers and hashes it is given.     *)
NamedNext(k, n, h, m) ==
  \/ n \in 1..Len(file'[k]) /\ file'[k][n].hash = h
  \/ \E j \in (written' + 1)..Len(res') :
       /\ res'[j].isNew /\ DedupType[nodes'[j].type] = k
       /\ j <= m /\ res'[j].scriptNum = n /\ nodes'[j].hash = h

(* When a step keeps the names, and names what is new, all have a name.    *)
LEMMA NamesKept ==
  ASSUME TypeInv, TypeInv', NameInv,
         Len(res') >= Len(res), \A i \in 1..Len(res) : res'[i] = res[i],
         \A i \in 1..Len(res) : nodes'[i] = nodes[i],
         \A k \in Kind : \A n, h, m : Named(k, n, h, m) => NamedNext(k, n, h, m),
         \A i \in 1..Len(res') : i \notin 1..Len(res) /\ res'[i].scriptNum # 0 =>
           NamedNext(DedupType[nodes'[i].type], res'[i].scriptNum, nodes'[i].hash, i),
         \A k \in Equived : \A h \in DOMAIN multi'[k] :
           \/ h \in DOMAIN multi[k] /\ multi'[k][h] = multi[k][h]
           \/ NamedNext(k, multi'[k][h], h, Len(res')),
         \A k \in Equived : \A h \in DOMAIN db'[Column(k)] :
           \/ h \in DOMAIN db[Column(k)] /\ db'[Column(k)][h] = db[Column(k)][h]
           \/ NamedNext(k, db'[Column(k)][h], h, Len(res')),
         \A h \in DOMAIN db'["PUBKEY"] :
           \/ h \in DOMAIN db["PUBKEY"] /\ db'["PUBKEY"][h] = db["PUBKEY"][h]
           \/ NamedNext("PUBKEY", db'["PUBKEY"][h], h, Len(res'))
  PROVE  NameInv'
<1>1. Len(res) \in Nat /\ Len(res') \in Nat
  BY LenProperties DEF TypeInv
<1>2. ASSUME NEW k \in Kind, NEW n, NEW h, Named(k, n, h, Len(res))
      PROVE  NamedNext(k, n, h, Len(res'))
  <2>1. Named(k, n, h, Len(res'))
    BY <1>1, <1>2, NamedLater
  <2> QED
    BY <2>1
<1>3. ASSUME NEW i \in 1..Len(res'), res'[i].scriptNum # 0
      PROVE  NamedNext(DedupType[nodes'[i].type], res'[i].scriptNum, nodes'[i].hash, i)
  <2>1. CASE i \in 1..Len(res)
    <3>1. res'[i] = res[i] /\ nodes'[i] = nodes[i]
      BY <2>1
    <3>2. Named(KindOf(i), res[i].scriptNum, nodes[i].hash, i) /\ KindOf(i) \in Kind
      BY <1>3, <2>1, <3>1, NodeFacts DEF NameInv
    <3>3. NamedNext(KindOf(i), res[i].scriptNum, nodes[i].hash, i)
      BY <3>2
    <3> QED
      BY <3>1, <3>3 DEF KindOf
  <2>2. CASE i \notin 1..Len(res)
    BY <1>3, <2>2
  <2> QED
    BY <2>1, <2>2
<1>4. \A k \in Equived : \A h \in DOMAIN multi'[k] : NamedNext(k, multi'[k][h], h, Len(res'))
  BY <1>2, Kinds DEF NameInv
<1>5. \A k \in Equived : \A h \in DOMAIN db'[Column(k)] :
        NamedNext(k, db'[Column(k)][h], h, Len(res'))
  BY <1>2, Kinds DEF NameInv
<1>6. \A h \in DOMAIN db'["PUBKEY"] : NamedNext("PUBKEY", db'["PUBKEY"][h], h, Len(res'))
  BY <1>2, Kinds DEF NameInv
<1> QED
  BY <1>3, <1>4, <1>5, <1>6 DEF NameInv, Named, NamedNext, Pending, KindOf

-----------------------------------------------------------------------------
(* The steps.                                                              *)

(* No record is written at first.                                          *)
LEMMA RecordInit == Init => RecordInv
<1> SUFFICES ASSUME Init PROVE PendingInv /\ NewInv /\ NameInv
  BY DEF RecordInv
<1>1. Len(<< >>) = 0 /\ DOMAIN << >> = {}
  BY EmptySeq
<1>2. /\ Len(res) = 0 /\ \A k \in Kind : Len(file[k]) = 0 /\ scriptIndexes[k] = 1
      /\ written = 0
  BY <1>1 DEF Init
<1>3. /\ \A k \in Equived : DOMAIN multi[k] = {}
      /\ \A c \in Columns : DOMAIN db[c] = {}
  BY <1>1 DEF Init
<1>4. PendingInv /\ NewInv
  BY <1>2 DEF PendingInv, Pending, NewInv
<1>5. NameInv
  BY <1>2, <1>3, Kinds DEF NameInv
<1> QED
  BY <1>4, <1>5

(* Steps that only add nodes, or nothing.                                  *)
LEMMA RecordFrame ==
  ASSUME TypeInv, TypeInv', RecordInv,
         UNCHANGED <<db, multi, scriptIndexes, res, written, file, rolledBack>>,
         \A i \in 1..Len(nodes) : nodes'[i] = nodes[i]
  PROVE  RecordInv'
<1> SUFFICES ASSUME ~rolledBack PROVE PendingInv' /\ NewInv' /\ NameInv'
  BY DEF RecordInv
<1>1. PendingInv /\ NewInv /\ NameInv
  BY DEF RecordInv
<1>2. \A i \in 1..Len(res) : nodes'[i] = nodes[i]
  BY NodeFacts
<1>3. \A i \in (written + 1)..Len(res) : i \in 1..Len(res)
  BY NodeFacts
<1>4. \A k : Pending(k)' = Pending(k)
  BY <1>2, <1>3 DEF Pending, KindOf
<1>5. PendingInv'
  BY <1>1, <1>4 DEF PendingInv
<1>6. NewInv'
  BY <1>1, <1>2 DEF NewInv
<1>7. \A k, n, h, m : Named(k, n, h, m) => NamedNext(k, n, h, m)
  BY <1>2, <1>3 DEF Named, NamedNext, Pending, KindOf
<1>8. NameInv'
  <2>1. Len(res) \in Nat
    BY NodeFacts
  <2> QED
    BY <1>1, <1>2, <1>7, <2>1, NamesKept
<1> QED
  BY <1>5, <1>6, <1>8

(* What is pending stays so when its numbers, the records and the counters *)
(* do not move.                                                            *)
LEMMA PendingKept ==
  ASSUME PendingInv, UNCHANGED scriptIndexes,
         \A k \in Kind : Len(file'[k]) = Len(file[k]),
         \A k \in Kind : \A j : j \in Pending(k)' <=> j \in Pending(k),
         \A k \in Kind : \A j \in Pending(k) : res'[j] = res[j]
  PROVE  PendingInv'
<1> SUFFICES ASSUME NEW k \in Kind
             PROVE  /\ Len(file'[k]) < scriptIndexes'[k]
                    /\ \A j \in Pending(k)' : Len(file'[k]) < res'[j].scriptNum
                                             /\ res'[j].scriptNum < scriptIndexes'[k]
                    /\ \A j, l \in Pending(k)' :
                         j < l => res'[j].scriptNum < res'[l].scriptNum
                    /\ \A n \in Nat : Len(file'[k]) < n /\ n < scriptIndexes'[k] =>
                         \E j \in Pending(k)' : res'[j].scriptNum = n
  BY DEF PendingInv
<1>1. Len(file'[k]) < scriptIndexes'[k]
  BY DEF PendingInv
<1>2. ASSUME NEW j \in Pending(k)'
      PROVE  Len(file'[k]) < res'[j].scriptNum /\ res'[j].scriptNum < scriptIndexes'[k]
  BY DEF PendingInv
<1>3. ASSUME NEW j \in Pending(k)', NEW l \in Pending(k)', j < l
      PROVE  res'[j].scriptNum < res'[l].scriptNum
  BY <1>3 DEF PendingInv
<1>4. ASSUME NEW n \in Nat, Len(file'[k]) < n, n < scriptIndexes'[k]
      PROVE  \E j \in Pending(k)' : res'[j].scriptNum = n
  <2>1. PICK j \in Pending(k) : res[j].scriptNum = n
    BY <1>4 DEF PendingInv
  <2> QED
    BY <2>1
<1> QED
  BY <1>1, <1>2, <1>3, <1>4

(* The next node is resolved to a number that is not new.                  *)
LEMMA OldResolved ==
  ASSUME TypeInv, TypeInv', RecordInv, NEW r \in ResSet, ~r.isNew, Len(res) < Len(nodes),
         res' = Append(res, r), NEW i, i = Len(res) + 1,
         UNCHANGED <<db, scriptIndexes, nodes, written, file, rolledBack>>,
         ~rolledBack /\ r.scriptNum # 0 =>
           Named(KindOf(i), r.scriptNum, nodes[i].hash, Len(res)),
         ~rolledBack =>
           \A k \in Equived : \A h \in DOMAIN multi'[k] :
             \/ h \in DOMAIN multi[k] /\ multi'[k][h] = multi[k][h]
             \/ Named(k, multi'[k][h], h, Len(res))
  PROVE  RecordInv'
<1> SUFFICES ASSUME ~rolledBack PROVE PendingInv' /\ NewInv' /\ NameInv'
  BY DEF RecordInv
<1>1. PendingInv /\ NewInv /\ NameInv
  BY DEF RecordInv
<1>2. /\ Len(res) \in Nat /\ written \in Nat /\ written <= Len(res)
      /\ Len(res') = i /\ \A j \in 1..Len(res) : res'[j] = res[j]
      /\ res'[i] = r /\ i \in 1..Len(nodes) /\ KindOf(i) \in Kind
  <2>1. Len(res) \in Nat /\ written \in Nat /\ written <= Len(res) /\ Len(nodes) \in Nat
    BY NodeFacts
  <2>2. Len(res') = Len(res) + 1 /\ (\A j \in 1..Len(res) : res'[j] = res[j])
        /\ res'[Len(res) + 1] = r
    BY ResGrows
  <2>3. i \in 1..Len(nodes)
    BY <2>1
  <2> QED
    BY <2>1, <2>2, <2>3, NodeFacts
<1>3. /\ \A j \in 1..Len(res') : j \in 1..Len(res) \/ j = i
      /\ \A j \in (written + 1)..Len(res') : j \in (written + 1)..Len(res) \/ j = i
      /\ \A j \in (written + 1)..Len(res) : j \in (written + 1)..Len(res')
      /\ \A j \in (written + 1)..Len(res) : j \in 1..Len(res)
  BY <1>2
<1>4. \A k : \A j : j \in Pending(k)' <=> j \in Pending(k)
  BY <1>2, <1>3 DEF Pending, KindOf
<1>5. PendingInv'
  <2>1. \A k \in Kind : \A j \in Pending(k) : res'[j] = res[j]
    BY <1>2, <1>3 DEF Pending
  <2> QED
    BY <1>1, <1>4, <2>1, PendingKept
<1>6. NewInv'
  BY <1>1, <1>2, <1>3 DEF NewInv
<1>7. \A k, n, h, m : Named(k, n, h, m) => NamedNext(k, n, h, m)
  BY <1>2, <1>3 DEF Named, NamedNext, Pending, KindOf
<1>8. ASSUME NEW k \in Kind, NEW n, NEW h, Named(k, n, h, Len(res))
      PROVE  NamedNext(k, n, h, i)
  <2>1. Named(k, n, h, i)
    BY <1>2, <1>8, NamedLater
  <2> QED
    BY <1>7, <2>1
<1>9. r.scriptNum # 0 => NamedNext(KindOf(i), r.scriptNum, nodes[i].hash, i)
  BY <1>2, <1>8
<1>10. \A j \in 1..Len(res') : j \notin 1..Len(res) /\ res'[j].scriptNum # 0 =>
         NamedNext(DedupType[nodes'[j].type], res'[j].scriptNum, nodes'[j].hash, j)
  BY <1>2, <1>3, <1>9 DEF KindOf
<1>11. \A k \in Equived : \A h \in DOMAIN multi'[k] :
           \/ h \in DOMAIN multi[k] /\ multi'[k][h] = multi[k][h]
           \/ NamedNext(k, multi'[k][h], h, Len(res'))
  BY <1>2, <1>8, Kinds
<1>12. NameInv'
  <2>1. Len(res') >= Len(res)
    BY <1>2
  <2>2. \A j \in 1..Len(res) : nodes'[j] = nodes[j]
    OBVIOUS
  <2> QED
    BY <1>1, <1>2, <1>7, <1>10, <1>11, <2>1, <2>2, NamesKept
<1> QED
  BY <1>5, <1>6, <1>12

(* The next node is resolved to the next number of its kind.               *)
LEMMA NewResolved ==
  ASSUME TypeInv, TypeInv', RecordInv, NEW i, i = Len(res) + 1, NEW k, k = KindOf(i),
         Len(res) < Len(nodes), nodes[i].io = "out",
         Len(res') = i, \A j \in 1..Len(res) : res'[j] = res[j],
         res'[i].scriptNum = scriptIndexes[k], res'[i].isNew,
         \A l \in Kind : scriptIndexes'[l] = IF l = k THEN scriptIndexes[l] + 1
                                            ELSE scriptIndexes[l],
         UNCHANGED <<multi, nodes, written, file, rolledBack>>,
         \A l \in Equived : \A g \in DOMAIN db'[Column(l)] :
           \/ g \in DOMAIN db[Column(l)] /\ db'[Column(l)][g] = db[Column(l)][g]
           \/ g = nodes[i].hash /\ l = k /\ db'[Column(l)][g] = scriptIndexes[k],
         \A g \in DOMAIN db'["PUBKEY"] :
           \/ g \in DOMAIN db["PUBKEY"] /\ db'["PUBKEY"][g] = db["PUBKEY"][g]
           \/ g = nodes[i].hash /\ k = "PUBKEY" /\ db'["PUBKEY"][g] = scriptIndexes[k]
  PROVE  RecordInv'
<1> SUFFICES ASSUME ~rolledBack PROVE PendingInv' /\ NewInv' /\ NameInv'
  BY DEF RecordInv
<1>1. PendingInv /\ NewInv /\ NameInv
  BY DEF RecordInv
<1> DEFINE num == scriptIndexes[k]
<1>2. /\ Len(res) \in Nat /\ written \in Nat /\ written <= Len(res)
      /\ i \in 1..Len(nodes) /\ k \in Kind /\ num \in Nat
      /\ \A l \in Kind : scriptIndexes[l] \in Nat /\ Len(file[l]) \in Nat
  <2>1. Len(res) \in Nat /\ written \in Nat /\ written <= Len(res) /\ Len(nodes) \in Nat
    BY NodeFacts
  <2>2. i \in 1..Len(nodes)
    BY <2>1
  <2>3. k \in Kind
    BY <2>2, NodeFacts
  <2>4. \A l \in Kind : scriptIndexes[l] \in Nat /\ Len(file[l]) \in Nat
    BY LenProperties DEF TypeInv
  <2> QED
    BY <2>1, <2>2, <2>3, <2>4
<1>3. Len(res') = i /\ \A j \in 1..Len(res) : res'[j] = res[j]
  OBVIOUS
<1>4. /\ \A j \in 1..Len(res') : j \in 1..Len(res) \/ j = i
      /\ \A j \in (written + 1)..Len(res') : j \in (written + 1)..Len(res) \/ j = i
      /\ \A j \in (written + 1)..Len(res) : j \in (written + 1)..Len(res')
      /\ \A j \in (written + 1)..Len(res) : j \in 1..Len(res) /\ j \in Nat /\ j < i
      /\ i \in (written + 1)..Len(res')
  BY <1>2, <1>3
<1>5. /\ res'[i].scriptNum = num /\ res'[i].isNew
      /\ \A l \in Kind : scriptIndexes'[l] = IF l = k THEN num + 1 ELSE scriptIndexes[l]
  OBVIOUS
<1> HIDE DEF num
<1>6. ASSUME NEW l
      PROVE  /\ \A j : j \in Pending(l)' <=> j \in Pending(l) \/ (l = k /\ j = i)
             /\ \A j \in Pending(l) : res'[j] = res[j] /\ j < i /\ j \in Nat
                                      /\ res[j].scriptNum \in Nat
  <2>1. \A j : j \in Pending(l)' <=> j \in Pending(l) \/ (l = k /\ j = i)
    BY <1>3, <1>4, <1>5 DEF Pending, KindOf
  <2>2. \A j \in Pending(l) : res'[j] = res[j] /\ j < i /\ j \in Nat /\ j \in 1..Len(res)
    BY <1>3, <1>4 DEF Pending
  <2> QED
    BY <2>1, <2>2, NodeFacts
<1>7. PendingInv'
  <2> SUFFICES ASSUME NEW l \in Kind
               PROVE  /\ Len(file'[l]) < scriptIndexes'[l]
                      /\ \A j \in Pending(l)' : Len(file'[l]) < res'[j].scriptNum
                                               /\ res'[j].scriptNum < scriptIndexes'[l]
                      /\ \A j, q \in Pending(l)' :
                           j < q => res'[j].scriptNum < res'[q].scriptNum
                      /\ \A n \in Nat : Len(file'[l]) < n /\ n < scriptIndexes'[l] =>
                           \E j \in Pending(l)' : res'[j].scriptNum = n
    BY DEF PendingInv
  <2>1. /\ Len(file[l]) < scriptIndexes[l] /\ Len(file[l]) \in Nat /\ scriptIndexes[l] \in Nat
        /\ \A j \in Pending(l) :
             Len(file[l]) < res[j].scriptNum /\ res[j].scriptNum < scriptIndexes[l]
        /\ \A j, q \in Pending(l) : j < q => res[j].scriptNum < res[q].scriptNum
        /\ \A n \in Nat : Len(file[l]) < n /\ n < scriptIndexes[l] =>
             \E j \in Pending(l) : res[j].scriptNum = n
    BY <1>1, <1>2 DEF PendingInv
  <2>2. scriptIndexes'[l] = IF l = k THEN scriptIndexes[l] + 1 ELSE scriptIndexes[l]
    BY <1>5 DEF num
  <2>3. /\ \A j : j \in Pending(l)' <=> j \in Pending(l) \/ (l = k /\ j = i)
        /\ \A j \in Pending(l) : res'[j] = res[j] /\ j < i /\ j \in Nat
                                 /\ res[j].scriptNum \in Nat
    BY <1>6
  <2>4. l = k => res'[i].scriptNum = scriptIndexes[l]
    BY <1>5 DEF num
  <2>5. Len(file'[l]) < scriptIndexes'[l]
    BY <2>1, <2>2
  <2>6. ASSUME NEW j \in Pending(l)'
        PROVE  Len(file'[l]) < res'[j].scriptNum /\ res'[j].scriptNum < scriptIndexes'[l]
    <3>1. CASE j \in Pending(l)
      <4>1. /\ Len(file[l]) < res[j].scriptNum /\ res[j].scriptNum < scriptIndexes[l]
            /\ res'[j].scriptNum = res[j].scriptNum /\ res[j].scriptNum \in Nat
        BY <2>1, <2>3, <3>1
      <4>2. /\ scriptIndexes[l] \in Nat /\ Len(file'[l]) = Len(file[l])
            /\ \/ scriptIndexes'[l] = scriptIndexes[l]
               \/ scriptIndexes'[l] = scriptIndexes[l] + 1
        BY <2>1, <2>2
      <4>3. res'[j].scriptNum < scriptIndexes'[l]
        BY <4>1, <4>2
      <4> QED
        BY <4>1, <4>2, <4>3
    <3>2. CASE l = k /\ j = i
      BY <2>1, <2>2, <2>4, <3>2
    <3> QED
      BY <2>3, <3>1, <3>2
  <2>7. ASSUME NEW j \in Pending(l)', NEW q \in Pending(l)', j < q
        PROVE  res'[j].scriptNum < res'[q].scriptNum
    <3>1. j # i
      <4>1. i \in Nat /\ (q = i \/ (q \in Nat /\ q < i))
        BY <1>2, <2>3
      <4> QED
        BY <2>7, <4>1
    <3>2. j \in Pending(l) /\ res'[j] = res[j]
      BY <2>3, <3>1
    <3>3. CASE q = i /\ l = k
      BY <2>1, <2>4, <3>2, <3>3
    <3>4. CASE q \in Pending(l)
      BY <2>1, <2>3, <2>7, <3>2, <3>4
    <3> QED
      BY <2>3, <3>3, <3>4
  <2>8. ASSUME NEW n \in Nat, Len(file'[l]) < n, n < scriptIndexes'[l]
        PROVE  \E j \in Pending(l)' : res'[j].scriptNum = n
    <3>1. CASE n < scriptIndexes[l]
      <4>1. PICK j \in Pending(l) : res[j].scriptNum = n
        BY <2>1, <2>8, <3>1
      <4> QED
        BY <2>3, <4>1
    <3>2. CASE ~(n < scriptIndexes[l])
      <4>1. l = k /\ n = scriptIndexes[l]
        BY <2>1, <2>2, <2>8, <3>2
      <4> QED
        BY <2>3, <2>4, <4>1
    <3> QED
      BY <3>1, <3>2
  <2> QED
    BY <2>5, <2>6, <2>7, <2>8
<1>8. NewInv'
  BY <1>1, <1>3, <1>4 DEF NewInv
<1>9. \A l, n, h, m : Named(l, n, h, m) => NamedNext(l, n, h, m)
  BY <1>3, <1>4 DEF Named, NamedNext, Pending, KindOf
<1>10. NamedNext(k, num, nodes[i].hash, i)
  BY <1>2, <1>4, <1>5 DEF NamedNext, KindOf
<1>11. \A j \in 1..Len(res') : j \notin 1..Len(res) /\ res'[j].scriptNum # 0 =>
         NamedNext(DedupType[nodes'[j].type], res'[j].scriptNum, nodes'[j].hash, j)
  BY <1>4, <1>5, <1>10 DEF KindOf
<1>12. NameInv'
  <2>1. Len(res') >= Len(res) /\ Len(res') = i
    BY <1>2, <1>3
  <2>2. \A j \in 1..Len(res) : nodes'[j] = nodes[j]
    OBVIOUS
  <2>3. \A l \in Equived : \A h \in DOMAIN multi'[l] :
           \/ h \in DOMAIN multi[l] /\ multi'[l][h] = multi[l][h]
           \/ NamedNext(l, multi'[l][h], h, Len(res'))
    OBVIOUS
  <2>4. \A l \in Equived : \A h \in DOMAIN db'[Column(l)] :
           \/ h \in DOMAIN db[Column(l)] /\ db'[Column(l)][h] = db[Column(l)][h]
           \/ NamedNext(l, db'[Column(l)][h], h, Len(res'))
    BY <1>10, <2>1 DEF num
  <2>5. \A h \in DOMAIN db'["PUBKEY"] :
           \/ h \in DOMAIN db["PUBKEY"] /\ db'["PUBKEY"][h] = db["PUBKEY"][h]
           \/ NamedNext("PUBKEY", db'["PUBKEY"][h], h, Len(res'))
    BY <1>10, <2>1 DEF num
  <2> QED
    BY <1>1, <1>3, <1>9, <1>11, <2>1, <2>2, <2>3, <2>4, <2>5, NamesKept
<1> QED
  BY <1>7, <1>8, <1>12

(* A script without a record is passed over.                               *)
LEMMA SkipRecord ==
  ASSUME BookInv, RecordInv, Skip
  PROVE  RecordInv'
<1>1. TypeInv /\ TypeInv'
  BY SkipStep DEF BookInv
<1>2. /\ UNCHANGED <<db, multi, scriptIndexes, nodes, written, file, rolledBack>>
      /\ Len(res) < Len(nodes) /\ res' = Append(res, [scriptNum |-> 0, isNew |-> FALSE])
  BY DEF Skip, book, scripts
<1> DEFINE r == [scriptNum |-> 0, isNew |-> FALSE]
<1>3. r \in ResSet /\ ~r.isNew /\ r.scriptNum = 0 /\ res' = Append(res, r)
  BY <1>2 DEF ResSet
<1> HIDE DEF r
<1> QED
  BY <1>1, <1>2, <1>3, OldResolved

(* What the next number does to the counters and to res.                   *)
LEMMA Appended ==
  ASSUME BookInv, Resolve, NEW k \in Kind, answer'.num = scriptIndexes[k], answer'.isNew,
         scriptIndexes' = [scriptIndexes EXCEPT ![k] = @ + 1]
  PROVE  /\ Len(res') = Len(res) + 1 /\ \A j \in 1..Len(res) : res'[j] = res[j]
         /\ res'[Len(res) + 1].scriptNum = scriptIndexes[k] /\ res'[Len(res) + 1].isNew
         /\ \A l \in Kind : scriptIndexes'[l] = IF l = k THEN scriptIndexes[l] + 1
                                             ELSE scriptIndexes[l]
<1> DEFINE r == [scriptNum |-> answer'.num, isNew |-> answer'.isNew]
<1>1. r \in ResSet /\ TypeInv /\ res' = Append(res, r) /\ Len(res) < Len(nodes)
  BY ResolveStep, ResolveCases DEF BookInv
<1>2. r.scriptNum = scriptIndexes[k] /\ r.isNew
  OBVIOUS
<1> HIDE DEF r
<1>3. /\ Len(res') = Len(res) + 1 /\ \A j \in 1..Len(res) : res'[j] = res[j]
      /\ res'[Len(res) + 1] = r
  BY <1>1, ResGrows
<1>4. \A l \in Kind : scriptIndexes'[l] = IF l = k THEN scriptIndexes[l] + 1 ELSE scriptIndexes[l]
  BY <1>1 DEF TypeInv
<1> QED
  BY <1>2, <1>3, <1>4

(* A new number joins those that wait for their record.                    *)
LEMMA ResolveRecord ==
  ASSUME BookInv, RecordInv, Resolve
  PROVE  RecordInv'
<1> DEFINE i == Len(res) + 1
           t == nodes[i].type
           h == nodes[i].hash
           k == KindOf(i)
<1>1. TypeInv /\ FilterInv /\ MultiInv /\ TypeInv'
  BY ResolveStep DEF BookInv
<1>2. /\ t \in DOMAIN DedupType /\ h \in Hash /\ k \in Kind /\ nodes[i].io = "out"
      /\ UNCHANGED <<rolledBack, nodes, written, file>> /\ Len(res) < Len(nodes)
      /\ \/ k \notin Equived /\ NonDedup(k, h)
         \/ k \in Equived /\ AddressNum(t, h) = 0 /\ NotFound(t, h)
         \/ k \in Equived /\ AddressNum(t, h) # 0 /\ Found(t, h)
      /\ res' = Append(res, [scriptNum |-> answer'.num, isNew |-> answer'.isNew])
  BY ResolveCases
<1>3. k = DedupType[t]
  BY DEF KindOf
<1>4. CASE k \notin Equived /\ NonDedup(k, h)
  <2>1. /\ scriptIndexes' = [scriptIndexes EXCEPT ![k] = @ + 1] /\ UNCHANGED <<db, multi>>
        /\ answer' = [kind |-> k, hash |-> h, num |-> scriptIndexes[k], isNew |-> TRUE]
    BY <1>4 DEF NonDedup
  <2>3. i = Len(res) + 1 /\ k = KindOf(i)
    OBVIOUS
  <2> HIDE DEF i, k, t, h
  <2>2. /\ Len(res') = i /\ \A j \in 1..Len(res) : res'[j] = res[j]
        /\ res'[i].scriptNum = scriptIndexes[k] /\ res'[i].isNew
        /\ \A l \in Kind : scriptIndexes'[l] = IF l = k THEN scriptIndexes[l] + 1
                                            ELSE scriptIndexes[l]
    <3>1. k \in Kind /\ answer'.num = scriptIndexes[k] /\ answer'.isNew
      BY <1>2, <2>1
    <3> QED
      BY <2>1, <2>3, <3>1, Appended
  <2> QED
    BY <1>1, <1>2, <2>1, <2>2, <2>3, NewResolved
<1>5. CASE k \in Equived /\ AddressNum(t, h) = 0 /\ NotFound(t, h)
  <2>1. /\ scriptIndexes' = [scriptIndexes EXCEPT ![k] = @ + 1] /\ UNCHANGED multi
        /\ answer' = [kind |-> k, hash |-> h, num |-> scriptIndexes[k], isNew |-> TRUE]
    BY <1>3, <1>5 DEF NotFound
  <2>3. i = Len(res) + 1 /\ k = KindOf(i) /\ h = nodes[i].hash
    OBVIOUS
  <2> HIDE DEF i, k, t, h
  <2>2. /\ Len(res') = i /\ \A j \in 1..Len(res) : res'[j] = res[j]
        /\ res'[i].scriptNum = scriptIndexes[k] /\ res'[i].isNew
        /\ \A l \in Kind : scriptIndexes'[l] = IF l = k THEN scriptIndexes[l] + 1
                                            ELSE scriptIndexes[l]
    <3>1. k \in Kind /\ answer'.num = scriptIndexes[k] /\ answer'.isNew
      BY <1>2, <2>1
    <3> QED
      BY <2>1, <2>3, <3>1, Appended
  <2>4. \A c \in Columns : \A g \in DOMAIN db'[c] :
          \/ g \in DOMAIN db[c] /\ db'[c][g] = db[c][g]
          \/ g = h /\ c = ExampleType(t) /\ db'[c][g] = scriptIndexes[k]
    BY <1>1, <1>2, <1>3, <1>5, NotFoundStep
  <2>5. \A l \in Equived : Column(l) = ExampleType(t) => l = k
    BY <1>2, <1>3, <1>5, Kinds
  <2>6. "PUBKEY" = ExampleType(t) => k = "PUBKEY"
    BY <1>2, <1>3, <1>5, Kinds
  <2>7. \A l \in Equived : \A g \in DOMAIN db'[Column(l)] :
           \/ g \in DOMAIN db[Column(l)] /\ db'[Column(l)][g] = db[Column(l)][g]
           \/ g = nodes[i].hash /\ l = k /\ db'[Column(l)][g] = scriptIndexes[k]
    BY <2>3, <2>4, <2>5, Kinds
  <2>8. \A g \in DOMAIN db'["PUBKEY"] :
           \/ g \in DOMAIN db["PUBKEY"] /\ db'["PUBKEY"][g] = db["PUBKEY"][g]
           \/ g = nodes[i].hash /\ k = "PUBKEY" /\ db'["PUBKEY"][g] = scriptIndexes[k]
    BY <2>3, <2>4, <2>6, Kinds
  <2>9. /\ nodes[i].io = "out" /\ Len(res) < Len(nodes)
        /\ UNCHANGED <<multi, nodes, written, file, rolledBack>>
    BY <1>2, <2>1
  <2> QED
    BY <1>1, <2>1, <2>2, <2>3, <2>7, <2>8, <2>9, NewResolved
<1>6. CASE k \in Equived /\ AddressNum(t, h) # 0 /\ Found(t, h)
  <2> DEFINE a == AddressNum(t, h)
             r == [scriptNum |-> a, isNew |-> FALSE]
  <2>1. /\ UNCHANGED <<db, scriptIndexes>>
        /\ answer' = [kind |-> k, hash |-> h, num |-> a, isNew |-> FALSE]
    BY <1>3, <1>6 DEF Found
  <2>2. res' = Append(res, r)
    BY <1>2, <2>1
  <2>3. i = Len(res) + 1 /\ k = KindOf(i) /\ h = nodes[i].hash
    OBVIOUS
  <2> HIDE DEF i, k, t, h
  <2>4. /\ a \in Nat
        /\ \/ h \in DOMAIN multi[k] /\ a = multi[k][h]
           \/ h \in DOMAIN db[ExampleType(t)] /\ a = db[ExampleType(t)][h]
        /\ ExampleType(t) = Column(k) \/ (ExampleType(t) = "PUBKEY" /\ k = "PUBKEY")
    BY <1>1, <1>2, <1>3, <1>6, FindAddress, Kinds
  <2>5. \A l \in Equived : \A g \in DOMAIN multi'[l] :
          \/ g \in DOMAIN multi[l] /\ multi'[l][g] = multi[l][g]
          \/ g = h /\ l = k /\ multi'[l][g] = a
    BY <1>1, <1>2, <1>3, <1>6, FoundStep
  <2> HIDE DEF a
  <2>6. ~rolledBack => Named(k, a, h, Len(res))
    <3> SUFFICES ASSUME ~rolledBack PROVE Named(k, a, h, Len(res))
      OBVIOUS
    <3>1. NameInv
      BY DEF RecordInv
    <3> QED
      BY <1>6, <2>4, <3>1 DEF NameInv
  <2>7. r \in ResSet /\ ~r.isNew /\ r.scriptNum = a
    BY <2>4 DEF ResSet
  <2> HIDE DEF r
  <2>8. ~rolledBack /\ r.scriptNum # 0 => Named(KindOf(i), r.scriptNum, nodes[i].hash, Len(res))
    BY <2>3, <2>6, <2>7
  <2>9. ~rolledBack =>
           \A l \in Equived : \A g \in DOMAIN multi'[l] :
             \/ g \in DOMAIN multi[l] /\ multi'[l][g] = multi[l][g]
             \/ Named(l, multi'[l][g], g, Len(res))
    BY <2>5, <2>6
  <2> QED
    BY <1>1, <1>2, <2>1, <2>2, <2>3, <2>7, <2>8, <2>9, OldResolved
<1> QED
  BY <1>2, <1>4, <1>5, <1>6

(* The writer handles a node without appending a record.                   *)
LEMMA OldWritten ==
  ASSUME TypeInv, TypeInv', RecordInv, NEW w, w = written + 1, w \in 1..Len(res), written' = w,
         ~res[w].isNew, UNCHANGED <<rolledBack, db, multi, scriptIndexes, nodes, res>>,
         \A k \in Kind : /\ Len(file'[k]) = Len(file[k])
                         /\ \A n \in 1..Len(file[k]) : file'[k][n].hash = file[k][n].hash
  PROVE  RecordInv'
<1> SUFFICES ASSUME ~rolledBack PROVE PendingInv' /\ NewInv' /\ NameInv'
  BY DEF RecordInv
<1>1. PendingInv /\ NewInv /\ NameInv
  BY DEF RecordInv
<1>2. Len(res) \in Nat /\ written \in Nat
  BY NodeFacts
<1>3. /\ \A j \in (w + 1)..Len(res) : j \in w..Len(res)
      /\ \A j \in w..Len(res) : j \in (w + 1)..Len(res) \/ j = w
  BY <1>2
<1>4. \A k \in Kind : \A j : j \in Pending(k)' <=> j \in Pending(k)
  BY <1>3 DEF Pending, KindOf
<1>5. PendingInv'
  BY <1>1, <1>4, PendingKept
<1>6. NewInv'
  BY <1>1 DEF NewInv
<1>7. ASSUME NEW k \in Kind, NEW n, NEW h, NEW m, Named(k, n, h, m)
      PROVE  NamedNext(k, n, h, m)
  <2>1. CASE n \in 1..Len(file[k]) /\ file[k][n].hash = h
    BY <2>1 DEF NamedNext
  <2>2. CASE \E j \in Pending(k) : j <= m /\ res[j].scriptNum = n /\ nodes[j].hash = h
    BY <1>3, <2>2 DEF NamedNext, Pending, KindOf
  <2> QED
    BY <1>7, <2>1, <2>2 DEF Named
<1>8. NameInv'
  BY <1>1, <1>2, <1>7, NamesKept
<1> QED
  BY <1>5, <1>6, <1>8

(* The writer appends the record of a new script: the script is the first  *)
(* that is pending, and its number the one the record gets.                *)
LEMMA NewWritten ==
  ASSUME TypeInv, TypeInv', RecordInv, NEW w, w = written + 1, w \in 1..Len(res), written' = w,
         res[w].isNew, UNCHANGED <<rolledBack, db, multi, scriptIndexes, nodes, res>>,
         NEW k, k = KindOf(w), k \in Kind,
         \A l \in Kind : l # k => file'[l] = file[l],
         Len(file'[k]) = Len(file[k]) + 1,
         \A n \in 1..Len(file[k]) : file'[k][n] = file[k][n],
         file'[k][Len(file[k]) + 1].hash = nodes[w].hash
  PROVE  RecordInv'
<1> SUFFICES ASSUME ~rolledBack PROVE PendingInv' /\ NewInv' /\ NameInv'
  BY DEF RecordInv
<1>1. PendingInv /\ NewInv /\ NameInv
  BY DEF RecordInv
<1>2. /\ Len(res) \in Nat /\ written \in Nat /\ w \in Nat
      /\ \A l \in Kind : Len(file[l]) \in Nat /\ scriptIndexes[l] \in Nat
  <2>1. \A l \in Kind : Len(file[l]) \in Nat /\ scriptIndexes[l] \in Nat
    BY LenProperties DEF TypeInv
  <2> QED
    BY <2>1, NodeFacts
<1>3. /\ \A j \in (w + 1)..Len(res) : j \in w..Len(res) /\ j # w
      /\ \A j \in w..Len(res) : j \in (w + 1)..Len(res) \/ j = w
      /\ \A j \in w..Len(res) : j \in Nat /\ w <= j /\ j \in 1..Len(res)
      /\ w \in w..Len(res)
  BY <1>2
<1>4. \A l \in Kind : \A j : j \in Pending(l)' <=> j \in Pending(l) /\ j # w
  BY <1>3 DEF Pending, KindOf
<1>5. /\ w \in Pending(k) /\ \A l : w \in Pending(l) => l = k
      /\ \A l : \A j \in Pending(l) : j \in Nat /\ w <= j /\ res[j].scriptNum \in Nat
  BY <1>3, NodeFacts DEF Pending
<1>6. res[w].scriptNum = Len(file[k]) + 1
  <2>1. Len(file[k]) < res[w].scriptNum /\ res[w].scriptNum < scriptIndexes[k]
        /\ res[w].scriptNum \in Nat
    BY <1>1, <1>5 DEF PendingInv
  <2>2. ASSUME res[w].scriptNum # Len(file[k]) + 1
        PROVE  FALSE
    <3>1. Len(file[k]) + 1 < res[w].scriptNum /\ Len(file[k]) + 1 \in Nat
      BY <1>2, <2>1, <2>2
    <3>2. Len(file[k]) < Len(file[k]) + 1 /\ Len(file[k]) + 1 < scriptIndexes[k]
      BY <1>2, <2>1, <3>1
    <3>3. PICK j \in Pending(k) : res[j].scriptNum = Len(file[k]) + 1
      BY <1>1, <3>1, <3>2 DEF PendingInv
    <3>4. j # w /\ j \in Nat /\ w <= j
      BY <1>5, <2>2, <3>3
    <3>5. w < j
      BY <1>2, <3>4
    <3>6. res[w].scriptNum < res[j].scriptNum
      BY <1>1, <1>5, <3>5 DEF PendingInv
    <3> QED
      BY <1>2, <2>1, <3>1, <3>3, <3>6
  <2> QED
    BY <2>2
<1>7. PendingInv'
  <2> SUFFICES ASSUME NEW l \in Kind
               PROVE  /\ Len(file'[l]) < scriptIndexes'[l]
                      /\ \A j \in Pending(l)' : Len(file'[l]) < res'[j].scriptNum
                                               /\ res'[j].scriptNum < scriptIndexes'[l]
                      /\ \A j, q \in Pending(l)' :
                           j < q => res'[j].scriptNum < res'[q].scriptNum
                      /\ \A n \in Nat : Len(file'[l]) < n /\ n < scriptIndexes'[l] =>
                           \E j \in Pending(l)' : res'[j].scriptNum = n
    BY DEF PendingInv
  <2>1. /\ Len(file[l]) < scriptIndexes[l] /\ Len(file[l]) \in Nat /\ scriptIndexes[l] \in Nat
        /\ \A j \in Pending(l) :
             Len(file[l]) < res[j].scriptNum /\ res[j].scriptNum < scriptIndexes[l]
        /\ \A j, q \in Pending(l) : j < q => res[j].scriptNum < res[q].scriptNum
        /\ \A n \in Nat : Len(file[l]) < n /\ n < scriptIndexes[l] =>
             \E j \in Pending(l) : res[j].scriptNum = n
    BY <1>1, <1>2 DEF PendingInv
  <2>2. \A j : j \in Pending(l)' <=> j \in Pending(l) /\ j # w
    BY <1>4
  <2>3. \A j \in Pending(l) : j \in Nat /\ w <= j /\ res[j].scriptNum \in Nat
    BY <1>5
  <2>4. CASE l # k
    <3>1. file'[l] = file[l] /\ w \notin Pending(l)
      BY <1>5, <2>4
    <3>2. \A j : j \in Pending(l)' <=> j \in Pending(l)
      BY <2>2, <3>1
    <3>3. ASSUME NEW n \in Nat, Len(file'[l]) < n, n < scriptIndexes'[l]
          PROVE  \E j \in Pending(l)' : res'[j].scriptNum = n
      <4>1. PICK j \in Pending(l) : res[j].scriptNum = n
        BY <2>1, <3>1, <3>3
      <4> QED
        BY <3>2, <4>1
    <3> QED
      BY <2>1, <3>1, <3>2, <3>3
  <2>5. CASE l = k
    <3>1. Len(file'[l]) = Len(file[l]) + 1 /\ res[w].scriptNum = Len(file[l]) + 1 /\ w \in Pending(l)
      BY <1>5, <1>6, <2>5
    <3>2. Len(file'[l]) < scriptIndexes'[l]
      BY <2>1, <3>1
    <3>3. ASSUME NEW j \in Pending(l)'
          PROVE  Len(file'[l]) < res'[j].scriptNum /\ res'[j].scriptNum < scriptIndexes'[l]
      <4>1. j \in Pending(l) /\ j # w /\ j \in Nat /\ w <= j
        BY <2>2, <2>3
      <4>2. w < j
        BY <1>2, <4>1
      <4>3. res[w].scriptNum < res[j].scriptNum /\ res[j].scriptNum < scriptIndexes[l]
        BY <2>1, <3>1, <4>1, <4>2
      <4> QED
        BY <3>1, <4>3
    <3>4. \A j, q \in Pending(l)' : j < q => res'[j].scriptNum < res'[q].scriptNum
      BY <2>1, <2>2
    <3>5. ASSUME NEW n \in Nat, Len(file'[l]) < n, n < scriptIndexes'[l]
          PROVE  \E j \in Pending(l)' : res'[j].scriptNum = n
      <4>1. Len(file[l]) < n /\ n # res[w].scriptNum
        BY <2>1, <3>1, <3>5
      <4>2. PICK j \in Pending(l) : res[j].scriptNum = n
        BY <2>1, <3>5, <4>1
      <4> QED
        BY <2>2, <4>1, <4>2
    <3> QED
      BY <3>2, <3>3, <3>4, <3>5
  <2> QED
    BY <2>4, <2>5
<1>8. NewInv'
  BY <1>1 DEF NewInv
<1>9. ASSUME NEW l \in Kind, NEW n, NEW h, NEW m, Named(l, n, h, m)
      PROVE  NamedNext(l, n, h, m)
  <2>1. CASE n \in 1..Len(file[l]) /\ file[l][n].hash = h
    <3>1. CASE l # k
      BY <2>1, <3>1 DEF NamedNext
    <3>2. CASE l = k
      <4>1. n \in 1..Len(file'[l]) /\ file'[l][n] = file[l][n]
        BY <1>2, <2>1, <3>2
      <4> QED
        BY <2>1, <4>1 DEF NamedNext
    <3> QED
      BY <3>1, <3>2
  <2>2. CASE \E j \in Pending(l) : j <= m /\ res[j].scriptNum = n /\ nodes[j].hash = h
    <3>1. PICK j \in Pending(l) : j <= m /\ res[j].scriptNum = n /\ nodes[j].hash = h
      BY <2>2
    <3>2. CASE j # w
      BY <1>3, <3>1, <3>2 DEF NamedNext, Pending, KindOf
    <3>3. CASE j = w
      <4>1. l = k /\ n = Len(file[k]) + 1 /\ file'[k][n].hash = h /\ n \in 1..Len(file'[k])
        BY <1>2, <1>5, <1>6, <3>1, <3>3
      <4> QED
        BY <4>1 DEF NamedNext
    <3> QED
      BY <3>2, <3>3
  <2> QED
    BY <1>9, <2>1, <2>2 DEF Named
<1>10. NameInv'
  BY <1>1, <1>2, <1>9, NamesKept
<1> QED
  BY <1>7, <1>8, <1>10

(* The record that is appended is the one whose number is next.            *)
LEMMA SerializeRecord ==
  ASSUME BookInv, RecordInv, Serialize
  PROVE  RecordInv'
<1> DEFINE w == written + 1
           k == KindOf(w)
<1>1. TypeInv /\ TypeInv'
  BY SerializeStep DEF BookInv
<1>2. /\ w \in 1..Len(res) /\ w \in 1..Len(nodes) /\ k \in Kind /\ written' = w
      /\ UNCHANGED <<rolledBack, db, multi, scriptIndexes, nodes, res>>
      /\ \/ res[w].isNew /\ nodes[w].io = "out" /\ Appends(w)
         \/ /\ ~(res[w].isNew /\ nodes[w].io = "out")
            /\ file' = file \/ \E x, r : Changes(k, x, r)
  BY SerializeCases
<1>3. w = written + 1 /\ k = KindOf(w)
  OBVIOUS
<1> HIDE DEF w, k
<1>4. CASE rolledBack
  BY <1>2, <1>4 DEF RecordInv
<1>5. CASE res[w].isNew /\ Appends(w)
  <2>1. \A l \in Kind :
          /\ l # k => file'[l] = file[l]
          /\ l = k => /\ Len(file'[l]) = Len(file[l]) + 1
                      /\ \A n \in 1..Len(file[l]) : file'[l][n] = file[l][n]
                      /\ file'[l][Len(file[l]) + 1].hash = nodes[w].hash
    BY <1>1, <1>2, <1>3, <1>5, AppendEffect
  <2> QED
    BY <1>1, <1>2, <1>3, <1>5, <2>1, NewWritten
<1>6. CASE ~rolledBack /\ ~(res[w].isNew /\ nodes[w].io = "out")
           /\ (file' = file \/ \E x, r : Changes(k, x, r))
  <2>1. NewInv
    BY <1>6 DEF RecordInv
  <2>2. ~res[w].isNew
    BY <1>2, <1>6, <2>1 DEF NewInv
  <2>3. \A l \in Kind : /\ Len(file'[l]) = Len(file[l])
                        /\ \A n \in 1..Len(file[l]) : file'[l][n].hash = file[l][n].hash
    <3>1. CASE file' = file
      BY <3>1
    <3>2. CASE \E x, r : Changes(k, x, r)
      <4>1. PICK x, r : Changes(k, x, r)
        BY <3>2
      <4> QED
        BY <1>1, <1>2, <4>1, ChangeEffect
    <3> QED
      BY <1>6, <3>1, <3>2
  <2> QED
    BY <1>1, <1>2, <1>3, <2>2, <2>3, OldWritten
<1> QED
  BY <1>2, <1>4, <1>5, <1>6

(* Until a rollback, the numbers given out and not yet written are, in     *)
(* order, those that follow the records, and every number in res, the map  *)
(* or the database has a name.                                             *)
THEOREM RecordInvariance == Spec => []RecordInv
<1>1. BookInv /\ RecordInv /\ [Next]_vars => RecordInv'
  <2> SUFFICES ASSUME BookInv, RecordInv, [Next]_vars PROVE RecordInv'
    OBVIOUS
  <2>1. CASE Open \/ Close \/ UNCHANGED vars
    <3>1. /\ TypeInv /\ TypeInv'
          /\ UNCHANGED <<db, multi, scriptIndexes, nodes, res, written, file, rolledBack>>
      BY <2>1, OpenClose DEF BookInv
    <3> QED
      BY <3>1, RecordFrame
  <2>2. CASE AddTx
    <3>1. TypeInv /\ TypeInv' /\ \A i \in 1..Len(nodes) : nodes'[i] = nodes[i]
      BY <2>2, AddTxStep DEF BookInv
    <3>2. UNCHANGED <<db, multi, scriptIndexes, res, written, file, rolledBack>>
      BY <2>2 DEF AddTx, book
    <3> QED
      BY <3>1, <3>2, RecordFrame
  <2>3. CASE Rollback
    BY <2>3 DEF Rollback, RecordInv
  <2> QED
    BY <2>1, <2>2, <2>3, SkipRecord, ResolveRecord, SerializeRecord DEF Next
<1> QED
  BY RecordInit, BookInvariance, <1>1, PTL DEF Spec

(* A number leads to its record.                                           *)
LEMMA NumbersMatch == BookInv /\ RecordInv => RecordsMatchNumbers
<1> SUFFICES ASSUME BookInv, RecordInv, ~rolledBack, NEW i \in 1..written,
                    res[i].scriptNum # 0
             PROVE  /\ res[i].scriptNum \in DOMAIN file[KindOf(i)]
                    /\ file[KindOf(i)][res[i].scriptNum].hash = nodes[i].hash
  BY DEF RecordsMatchNumbers, KindOf
<1>1. TypeInv /\ NameInv
  BY DEF BookInv, RecordInv
<1>2. i \in 1..Len(res) /\ i \in Nat /\ written \in Nat /\ i <= written
  BY <1>1, NodeFacts
<1>3. Named(KindOf(i), res[i].scriptNum, nodes[i].hash, i) /\ KindOf(i) \in Kind
  BY <1>1, <1>2, NodeFacts DEF NameInv
<1>4. \A j \in Pending(KindOf(i)) : ~(j <= i)
  BY <1>1, <1>2, NodeFacts DEF Pending
<1>5. DOMAIN file[KindOf(i)] = 1..Len(file[KindOf(i)])
  BY <1>1, <1>3, LenProperties DEF TypeInv
<1> QED
  BY <1>3, <1>4, <1>5 DEF Named

(* A script number leads to the record of its script, in spite of the two  *)
(* threads, for scripts wrapped in others and keys of multisig scripts.    *)
THEOREM NumbersFindRecords == Spec => []RecordsMatchNumbers
BY BookInvariance, RecordInvariance, NumbersMatch, PTL

-----------------------------------------------------------------------------
(* The scripts of all transactions so far.                                 *)

(* Transactions follow one another.                                        *)
TxOrder == \A i, j \in 1..Len(nodes) : i <= j => nodes[i].tx <= nodes[j].tx

(* The output that has the script of an input.                             *)
Source(i) == IF nodes[i].up = 0 THEN nodes[i].spends ELSE nodes[i].up
InputsInv ==
  \A i \in 1..Len(nodes) : nodes[i].io = "in" =>
    /\ nodes[i].type # "MULTISIG_PUBKEY"
    /\ nodes[i].spends \in 1..(i - 1)
    /\ Source(i) \in 1..(i - 1)
    /\ nodes[Source(i)].io = "out" /\ nodes[Source(i)].type = nodes[i].type
    /\ nodes[Source(i)].hash = nodes[i].hash

(* The script in a script hash.                                            *)
WrapsInv ==
  /\ \A i \in 1..Len(nodes) : IsScriptHashInput(nodes[i]) =>
       /\ i + 1 \in 1..Len(nodes) /\ nodes[i + 1].tx = nodes[i].tx
       /\ nodes[i + 1].io = "out" /\ nodes[i + 1].type # "MULTISIG_PUBKEY"
       /\ \E s \in TxShapes : \E j \in DOMAIN s :
            /\ IsScriptHashInput(s[j]) /\ s[j].hash = nodes[i].hash
            /\ s[j + 1].hash = nodes[i + 1].hash

(* The keys of a multisig script.                                          *)
KeysInv ==
  \A i \in 1..Len(nodes) :
    /\ nodes[i].type = "MULTISIG_PUBKEY" =>
         /\ nodes[i].io = "out" /\ nodes[i].up \in 1..(i - 1)
         /\ nodes[nodes[i].up].io = "out" /\ nodes[nodes[i].up].type = "MULTISIG"
    /\ nodes[i].up # 0 => nodes[i].up \in 1..(i - 1) /\ nodes[nodes[i].up].tx = nodes[i].tx
    /\ nodes[i].io = "out" /\ nodes[i].type = "MULTISIG" =>
         \E c \in Nat : /\ KeysOf(nodes, i) = (i + 1)..(i + c)

(* The outputs that can be spent.                                          *)
UnspentInv ==
  \A p \in unspent : /\ p \in 1..Len(nodes) /\ nodes[p].io = "out"
                     /\ nodes[p].type # "MULTISIG_PUBKEY"

LayoutInv == TxOrder /\ InputsInv /\ WrapsInv /\ KeysInv /\ UnspentInv

(* The nodes of a shape, as AddTx appends them.                            *)
IsNode(n, s, p, tx, N) ==
  /\ n.io = s.io /\ n.type = s.type /\ n.hash = s.hash
  /\ n.up = (IF s.up = 0 THEN 0 ELSE N + s.up)
  /\ n.spends = p /\ n.tx = tx
NewNodes(shape, p, tx) ==
  /\ Len(nodes') = Len(nodes) + Len(shape)
  /\ \A i \in 1..Len(nodes) : nodes'[i] = nodes[i] /\ nodes[i].tx < tx
  /\ \A i \in 1..Len(shape) :
       /\ IsNode(nodes'[Len(nodes) + i], shape[i], p[i], tx, Len(nodes))
       /\ shape[i].io = "in" =>
            /\ p[i] \in unspent
            /\ shape[i].up = 0 => shape[i].type = nodes[p[i]].type /\ shape[i].hash = nodes[p[i]].hash
  /\ \A q \in unspent' :
       \/ q \in unspent
       \/ \E i \in 1..Len(shape) : q = Len(nodes) + i /\ shape[i].io = "out" /\ shape[i].up = 0

(* What AddTx does to them.                                                *)
LEMMA AddTxNodes ==
  ASSUME BookInv, TxOrder, AddTx
  PROVE  \E shape \in TxShapes : \E p, tx : tx \in Nat /\ NewNodes(shape, p, tx)
<1>1. TypeInv /\ nodes \in Seq(NodeSet)
  BY DEF BookInv, TypeInv
<1> DEFINE tx == IF nodes = << >> THEN 0 ELSE nodes[Len(nodes)].tx + 1
           N == Len(nodes)
<1>2. N \in Nat /\ \A i \in 1..N : nodes[i].tx \in Nat
  BY <1>1, NodeFacts
<1>3. tx \in Nat /\ \A i \in 1..N : nodes[i].tx < tx
  <2>1. CASE nodes = << >>
    <3>1. N = 0
      BY <2>1, EmptySeq
    <3> QED
      BY <2>1, <3>1
  <2>2. CASE nodes # << >>
    <3>1. N \in 1..N
      BY <1>1, <1>2, <2>2, EmptySeq
    <3>2. \A i \in 1..N : nodes[i].tx <= nodes[N].tx
      BY <1>2, <3>1 DEF TxOrder
    <3> QED
      BY <1>2, <2>2, <3>1, <3>2
  <2> QED
    BY <2>1, <2>2
<1> HIDE DEF tx
<1> DEFINE More(shape, p) ==
      [i \in DOMAIN shape |->
         [io |-> shape[i].io, type |-> shape[i].type, hash |-> shape[i].hash,
          up |-> IF shape[i].up = 0 THEN 0 ELSE Len(nodes) + shape[i].up,
          spends |-> p[i], tx |-> tx]]
<1>41. PICK shape \in TxShapes : \E spent \in [Inputs(shape) -> unspent] :
        /\ \A i \in Inputs(shape) :
             shape[i].type = nodes[spent[i]].type /\ shape[i].hash = nodes[spent[i]].hash
        /\ nodes' = nodes \o
             [i \in DOMAIN shape |->
                [io |-> shape[i].io, type |-> shape[i].type, hash |-> shape[i].hash,
                 up |-> IF shape[i].up = 0 THEN 0 ELSE Len(nodes) + shape[i].up,
                 spends |-> IF shape[i].io = "in" THEN spent[Around(shape, i)] ELSE 0,
                 tx |-> tx]]
        /\ unspent' = (unspent \ {spent[i] : i \in Inputs(shape)}) \cup
             {Len(nodes) + i : i \in {i \in DOMAIN shape :
                shape[i].io = "out" /\ shape[i].up = 0 /\ Spendable(shape[i].type)}}
  BY ZenonT(60) DEF AddTx, tx
<1>42. PICK spent \in [Inputs(shape) -> unspent] :
        /\ \A i \in Inputs(shape) :
             shape[i].type = nodes[spent[i]].type /\ shape[i].hash = nodes[spent[i]].hash
        /\ nodes' = nodes \o
             [i \in DOMAIN shape |->
                [io |-> shape[i].io, type |-> shape[i].type, hash |-> shape[i].hash,
                 up |-> IF shape[i].up = 0 THEN 0 ELSE Len(nodes) + shape[i].up,
                 spends |-> IF shape[i].io = "in" THEN spent[Around(shape, i)] ELSE 0,
                 tx |-> tx]]
        /\ unspent' = (unspent \ {spent[i] : i \in Inputs(shape)}) \cup
             {Len(nodes) + i : i \in {i \in DOMAIN shape :
                shape[i].io = "out" /\ shape[i].up = 0 /\ Spendable(shape[i].type)}}
  BY <1>41, Zenon
<1>4. /\ nodes' = nodes \o More(shape, SpentBy(shape, spent))
      /\ unspent' = (unspent \ {spent[i] : i \in Inputs(shape)}) \cup
           {Len(nodes) + i : i \in {i \in DOMAIN shape :
              shape[i].io = "out" /\ shape[i].up = 0 /\ Spendable(shape[i].type)}}
  <2>1. \A i \in DOMAIN shape : SpentBy(shape, spent)[i] =
          IF shape[i].io = "in" THEN spent[Around(shape, i)] ELSE 0
    BY DEF SpentBy
  <2> HIDE DEF SpentBy
  <2>2. nodes' = nodes \o More(shape, SpentBy(shape, spent))
    BY <1>42, <2>1, Zenon
  <2> QED
    BY <1>42, <2>2, Zenon
<1> DEFINE p == SpentBy(shape, spent)
<1> DEFINE Fields == [io : {"in", "out"}, type : DOMAIN DedupType, hash : Hash, up : Nat]
           M == Len(shape)
<1>5. shape \in Seq(Fields) /\ DOMAIN shape = 1..M /\ M \in Nat /\ \A i \in 1..M : shape[i] \in Fields
  BY ShapeAssumption, LenProperties, ElementOfSeq
<1>6. /\ \A i \in 1..M : p[i] \in Nat
      /\ \A i \in 1..M : shape[i].io = "in" =>
           /\ p[i] \in unspent
           /\ shape[i].up = 0 => shape[i].type = nodes[p[i]].type /\ shape[i].hash = nodes[p[i]].hash
  <2> SUFFICES ASSUME NEW i \in DOMAIN shape
               PROVE  /\ p[i] \in Nat
                      /\ shape[i].io = "in" =>
                           /\ p[i] \in unspent
                           /\ shape[i].up = 0 =>
                                shape[i].type = nodes[p[i]].type /\ shape[i].hash = nodes[p[i]].hash
    BY <1>5, Zenon
  <2>1. unspent \subseteq Nat
    BY <1>1 DEF TypeInv
  <2>2. CASE shape[i].io = "in"
    <3>1. p[i] \in unspent /\ (shape[i].up = 0 => p[i] = spent[i] /\ i \in Inputs(shape))
      BY <2>2, SpentByInput DEF Inputs
    <3> QED
      BY <1>42, <2>1, <3>1, Zenon
  <2>3. CASE shape[i].io # "in"
    BY <2>3 DEF SpentBy
  <2> QED
    BY <2>2, <2>3
<1> HIDE DEF p
<1>7. More(shape, p) \in Seq(NodeSet) /\ Len(More(shape, p)) = M
      /\ \A i \in 1..M : IsNode(More(shape, p)[i], shape[i], p[i], tx, N)
  <2>1. ASSUME NEW i \in 1..M
        PROVE  More(shape, p)[i] \in NodeSet /\ IsNode(More(shape, p)[i], shape[i], p[i], tx, N)
    <3>1. /\ shape[i].io \in {"in", "out"} /\ shape[i].type \in DOMAIN DedupType
          /\ shape[i].hash \in Hash /\ shape[i].up \in Nat
      BY <1>5
    <3>2. More(shape, p)[i] =
            [io |-> shape[i].io, type |-> shape[i].type, hash |-> shape[i].hash,
             up |-> IF shape[i].up = 0 THEN 0 ELSE N + shape[i].up,
             spends |-> p[i], tx |-> tx]
      BY <1>5
    <3> HIDE DEF More
    <3>3. IsNode(More(shape, p)[i], shape[i], p[i], tx, N)
      BY <3>2 DEF IsNode
    <3>4. More(shape, p)[i] \in NodeSet
      BY <1>2, <1>3, <1>6, <3>1, <3>2 DEF NodeSet
    <3> QED
      BY <3>3, <3>4
  <2>2. More(shape, p) = [i \in 1..M |-> More(shape, p)[i]]
    BY <1>5
  <2> HIDE DEF More
  <2>3. More(shape, p) \in [1..M -> NodeSet]
    BY <2>1, <2>2
  <2>4. More(shape, p) \in Seq(NodeSet)
    BY <1>5, <2>3, SeqDef
  <2>5. Len(More(shape, p)) = M
    <3>1. /\ Len(More(shape, p)) \in Nat /\ DOMAIN More(shape, p) = 1..Len(More(shape, p))
          /\ DOMAIN More(shape, p) = 1..M
      BY <2>3, <2>4, LenProperties
    <3> QED
      BY <1>5, <3>1, SameLength
  <2> QED
    BY <2>1, <2>4, <2>5
<1> HIDE DEF More, M, N
<1>8. /\ Len(nodes') = N + M
      /\ \A i \in 1..(N + M) : nodes'[i] = IF i <= N THEN nodes[i] ELSE More(shape, p)[i - N]
  BY <1>1, <1>4, <1>7, ConcatProperties DEF N, p
<1>9. \A i \in 1..N : nodes'[i] = nodes[i]
  BY <1>2, <1>5, <1>8
<1>10. \A i \in 1..M : IsNode(nodes'[N + i], shape[i], p[i], tx, N)
  <2> TAKE i \in 1..M
  <2>1. N + i \in 1..(N + M) /\ ~(N + i <= N) /\ (N + i) - N = i
    BY <1>2, <1>5
  <2>2. nodes'[N + i] = More(shape, p)[i]
    BY <1>8, <2>1
  <2> QED
    BY <1>7, <2>2
<1>12. \A q \in unspent' :
         \/ q \in unspent
         \/ \E i \in 1..M : q = N + i /\ shape[i].io = "out" /\ shape[i].up = 0
  BY <1>4, <1>5 DEF N
<1>13. NewNodes(shape, p, tx)
  BY <1>3, <1>6, <1>8, <1>9, <1>10, <1>12 DEF NewNodes, N, M
<1> QED
  BY <1>3, <1>13

(* What TreeAssumption says of the nodes that AddTx appends.               *)
LEMMA ShapeFacts ==
  ASSUME NEW shape \in TxShapes
  PROVE  /\ Len(shape) \in Nat /\ DOMAIN shape = 1..Len(shape)
         /\ \A i \in 1..Len(shape) :
              /\ shape[i].io \in {"in", "out"} /\ shape[i].type \in DOMAIN DedupType
              /\ shape[i].hash \in Hash /\ shape[i].up \in Nat /\ shape[i].up < i
              /\ shape[i].io = "in" =>
                   /\ shape[i].type # "MULTISIG_PUBKEY"
                   /\ shape[i].up # 0 =>
                        /\ shape[shape[i].up].io = "out"
                        /\ shape[shape[i].up].type = shape[i].type
                        /\ shape[shape[i].up].hash = shape[i].hash
              /\ IsScriptHashInput(shape[i]) =>
                   i < Len(shape) /\ shape[i + 1].io = "out" /\ shape[i + 1].up = i
              /\ shape[i].type = "MULTISIG_PUBKEY" =>
                   shape[i].up # 0 /\ shape[shape[i].up].io = "out"
                   /\ shape[shape[i].up].type = "MULTISIG"
              /\ shape[i].io = "out" /\ shape[i].type = "MULTISIG" =>
                   \E c \in Nat : i + c <= Len(shape) /\ KeysOf(shape, i) = (i + 1)..(i + c)
<1> DEFINE Fields == [io : {"in", "out"}, type : DOMAIN DedupType, hash : Hash, up : Nat]
           M == Len(shape)
<1>1. shape \in Seq(Fields) /\ DOMAIN shape = 1..M /\ M \in Nat /\ \A i \in 1..M : shape[i] \in Fields
  BY ShapeAssumption, LenProperties, ElementOfSeq
<1>2. ASSUME NEW i \in 1..M
      PROVE  /\ shape[i].io \in {"in", "out"} /\ shape[i].type \in DOMAIN DedupType
             /\ shape[i].hash \in Hash /\ shape[i].up \in Nat
  BY <1>1
<1> HIDE DEF M, Fields
<1>3. ASSUME NEW i \in 1..M
      PROVE  /\ shape[i].up < i
             /\ shape[i].io = "in" =>
                   /\ shape[i].type # "MULTISIG_PUBKEY"
                   /\ shape[i].up # 0 =>
                        /\ shape[shape[i].up].io = "out"
                        /\ shape[shape[i].up].type = shape[i].type
                        /\ shape[shape[i].up].hash = shape[i].hash
             /\ IsScriptHashInput(shape[i]) =>
                   i < M /\ shape[i + 1].io = "out" /\ shape[i + 1].up = i
             /\ shape[i].type = "MULTISIG_PUBKEY" =>
                   shape[i].up # 0 /\ shape[shape[i].up].io = "out"
                   /\ shape[shape[i].up].type = "MULTISIG"
             /\ shape[i].io = "out" /\ shape[i].type = "MULTISIG" =>
                  \E c \in 0..M : KeysOf(shape, i) = (i + 1)..(i + c)
  <2>1. IsTree(shape) /\ i \in DOMAIN shape
    BY <1>1, TreeAssumption
  <2> QED
    BY <2>1 DEF IsTree, M
<1>4. ASSUME NEW i \in 1..M, shape[i].io = "out", shape[i].type = "MULTISIG"
      PROVE  \E c \in Nat : i + c <= M /\ KeysOf(shape, i) = (i + 1)..(i + c)
  <2>1. PICK c \in 0..M : KeysOf(shape, i) = (i + 1)..(i + c)
    BY <1>3, <1>4
  <2>2. \A j : j \in KeysOf(shape, i) <=> j \in 1..M /\ shape[j].io = "out" /\ shape[j].up = i
    BY <1>1 DEF KeysOf
  <2>3. c \in Nat /\ i \in Nat
    BY <1>1
  <2>4. i + c <= M
    <3>1. CASE c = 0
      BY <2>3, <3>1, <1>1
    <3>2. CASE c # 0
      <4>1. i + c \in (i + 1)..(i + c)
        BY <2>3, <3>2
      <4>2. i + c \in 1..M
        BY <2>1, <2>2, <4>1
      <4> QED
        BY <1>1, <4>2
    <3> QED
      BY <3>1, <3>2
  <2> QED
    BY <2>1, <2>2, <2>3, <2>4
<1>5. M = Len(shape)
  BY DEF M
<1> SUFFICES ASSUME NEW i \in 1..M
             PROVE  /\ shape[i].io \in {"in", "out"} /\ shape[i].type \in DOMAIN DedupType
                    /\ shape[i].hash \in Hash /\ shape[i].up \in Nat /\ shape[i].up < i
                    /\ shape[i].io = "in" =>
                         /\ shape[i].type # "MULTISIG_PUBKEY"
                         /\ shape[i].up # 0 =>
                              /\ shape[shape[i].up].io = "out"
                              /\ shape[shape[i].up].type = shape[i].type
                              /\ shape[shape[i].up].hash = shape[i].hash
                    /\ IsScriptHashInput(shape[i]) =>
                         i < M /\ shape[i + 1].io = "out" /\ shape[i + 1].up = i
                    /\ shape[i].type = "MULTISIG_PUBKEY" =>
                         shape[i].up # 0 /\ shape[shape[i].up].io = "out"
                         /\ shape[shape[i].up].type = "MULTISIG"
                    /\ shape[i].io = "out" /\ shape[i].type = "MULTISIG" =>
                         \E c \in Nat : i + c <= M /\ KeysOf(shape, i) = (i + 1)..(i + c)
  BY <1>1, Zenon DEF M
<1> QED
  BY <1>2, <1>3, <1>4, Zenon

(* A transaction leaves the scripts in their places, and its own are laid  *)
(* out the same way.                                                       *)
LEMMA AddTxLayout ==
  ASSUME BookInv, LayoutInv, AddTx
  PROVE  LayoutInv' /\ \A j \in 1..Len(nodes) : KeysOf(nodes', j) = KeysOf(nodes, j)
<1>1. TypeInv /\ TypeInv' /\ TxOrder /\ InputsInv /\ WrapsInv /\ KeysInv /\ UnspentInv
  BY AddTxStep DEF BookInv, LayoutInv
<1>2. PICK shape \in TxShapes : \E p, tx : tx \in Nat /\ NewNodes(shape, p, tx)
  BY <1>1, AddTxNodes
<1>3. PICK p, tx : tx \in Nat /\ NewNodes(shape, p, tx)
  BY <1>2
<1> DEFINE N == Len(nodes)
           M == Len(shape)
<1>4. /\ N \in Nat /\ M \in Nat /\ Len(nodes') = N + M
      /\ \A i \in 1..N : nodes'[i] = nodes[i] /\ nodes[i].tx < tx /\ nodes[i].tx \in Nat
      /\ \A i \in 1..M : /\ nodes'[N + i].io = shape[i].io /\ nodes'[N + i].type = shape[i].type
                         /\ nodes'[N + i].hash = shape[i].hash
                         /\ nodes'[N + i].up = (IF shape[i].up = 0 THEN 0 ELSE N + shape[i].up)
                         /\ nodes'[N + i].spends = p[i]
                         /\ nodes'[N + i].tx = tx
  BY <1>1, <1>3, NodeFacts, ShapeFacts DEF NewNodes, IsNode
<1>5. /\ \A i \in 1..M : shape[i].io = "in" =>
           /\ p[i] \in unspent
           /\ shape[i].up = 0 => shape[i].type = nodes[p[i]].type /\ shape[i].hash = nodes[p[i]].hash
      /\ \A q \in unspent' :
           \/ q \in unspent
           \/ \E i \in 1..M : q = N + i /\ shape[i].io = "out" /\ shape[i].up = 0
  BY <1>3 DEF NewNodes
<1>6. DOMAIN nodes = 1..N /\ DOMAIN nodes' = 1..(N + M)
  BY <1>1, <1>4, LenProperties DEF TypeInv
<1> HIDE DEF N, M
<1>7. \A j \in 1..(N + M) : j \in 1..N \/ \E i \in 1..M : j = N + i
  <2> TAKE j \in 1..(N + M)
  <2>1. CASE j <= N
    BY <1>4, <2>1
  <2>2. CASE ~(j <= N)
    <3>1. j - N \in 1..M /\ j = N + (j - N)
      BY <1>4, <2>2
    <3> QED
      BY <3>1
  <2> QED
    BY <2>1, <2>2
<1>8. Len(nodes) = N /\ Len(nodes') = N + M /\ Len(shape) = M
  BY <1>4 DEF N, M
<1>9. TxOrder'
  <2> SUFFICES ASSUME NEW i \in 1..(N + M), NEW j \in 1..(N + M), i <= j
               PROVE  nodes'[i].tx <= nodes'[j].tx
    BY <1>8 DEF TxOrder
  <2>1. CASE i \in 1..N /\ j \in 1..N
    BY <1>1, <1>4, <1>8, <2>1 DEF TxOrder
  <2>2. CASE i \in 1..N /\ ~(j \in 1..N)
    <3>1. PICK m \in 1..M : j = N + m
      BY <1>7, <2>2
    <3>2. nodes'[j].tx = tx /\ nodes'[i].tx < tx /\ nodes'[i].tx \in Nat
      BY <1>4, <2>2, <3>1
    <3> QED
      BY <1>3, <3>2
  <2>3. CASE ~(i \in 1..N)
    <3>1. ~(j \in 1..N)
      BY <1>4, <2>3
    <3>2. PICK m \in 1..M : j = N + m
      BY <1>7, <3>1
    <3>3. PICK q \in 1..M : i = N + q
      BY <1>7, <2>3
    <3>4. nodes'[i].tx = tx /\ nodes'[j].tx = tx
      BY <1>4, <3>2, <3>3
    <3> QED
      BY <1>3, <3>4
  <2> QED
    BY <2>1, <2>2, <2>3
<1>10. InputsInv'
  <2> SUFFICES ASSUME NEW j \in 1..(N + M), nodes'[j].io = "in"
               PROVE  /\ nodes'[j].type # "MULTISIG_PUBKEY"
                      /\ nodes'[j].spends \in 1..(j - 1)
                      /\ Source(j)' \in 1..(j - 1)
                      /\ nodes'[Source(j)'].io = "out"
                      /\ nodes'[Source(j)'].type = nodes'[j].type
                      /\ nodes'[Source(j)'].hash = nodes'[j].hash
    BY <1>8 DEF InputsInv
  <2>1. CASE j \in 1..N
    <3>1. nodes'[j] = nodes[j] /\ Source(j)' = Source(j)
      BY <1>4, <2>1 DEF Source
    <3>2. /\ nodes[j].type # "MULTISIG_PUBKEY"
          /\ nodes[j].spends \in 1..(j - 1)
          /\ Source(j) \in 1..(j - 1)
          /\ nodes[Source(j)].io = "out" /\ nodes[Source(j)].type = nodes[j].type
          /\ nodes[Source(j)].hash = nodes[j].hash
      BY <1>1, <1>8, <2>1, <3>1 DEF InputsInv
    <3>3. Source(j) \in 1..N
      BY <1>4, <2>1, <3>2
    <3> QED
      BY <1>4, <3>1, <3>2, <3>3
  <2>2. CASE \E i \in 1..M : j = N + i
    <3>1. PICK i \in 1..M : j = N + i
      BY <2>2
    <3>2. shape[i].io = "in"
      BY <1>4, <3>1
    <3> DEFINE o == p[i]
    <3>3. o \in unspent /\ o \in 1..N /\ nodes[o].io = "out" /\ nodes'[o] = nodes[o]
      BY <1>1, <1>4, <1>5, <1>8, <3>2 DEF UnspentInv
    <3>4. nodes'[j].spends = o /\ o \in 1..(j - 1)
      <4>1. nodes'[N + i].spends = o /\ N \in Nat /\ M \in Nat
        BY <1>4
      <4> HIDE DEF o
      <4> QED
        BY <3>1, <3>3, <4>1
    <3>5. nodes'[j].type # "MULTISIG_PUBKEY"
      <4>1. shape[i].type # "MULTISIG_PUBKEY"
        BY <1>8, <3>2, ShapeFacts
      <4> QED
        BY <1>4, <3>1, <4>1
    <3>6. CASE shape[i].up = 0
      <4>1. Source(j)' = o
        BY <1>4, <3>1, <3>4, <3>6 DEF Source
      <4>2. nodes[o].type = shape[i].type /\ nodes[o].hash = shape[i].hash
        BY <1>5, <3>2, <3>6
      <4>3. nodes'[j].type = shape[i].type /\ nodes'[j].hash = shape[i].hash
        BY <1>4, <3>1
      <4> HIDE DEF o
      <4> QED
        BY <3>3, <3>4, <3>5, <4>1, <4>2, <4>3
    <3>7. CASE shape[i].up # 0
      <4>1. /\ shape[i].up \in Nat /\ shape[i].up < i /\ shape[shape[i].up].io = "out"
            /\ shape[shape[i].up].type = shape[i].type /\ shape[shape[i].up].hash = shape[i].hash
        BY <1>8, <3>2, <3>7, ShapeFacts
      <4>2. shape[i].up \in 1..M /\ N + shape[i].up \in 1..(j - 1) /\ N + shape[i].up # 0
        BY <1>4, <3>1, <3>7, <4>1
      <4>3. Source(j)' = N + shape[i].up
        BY <1>4, <3>1, <3>7, <4>2 DEF Source
      <4> QED
        BY <1>4, <3>1, <3>4, <3>5, <4>1, <4>2, <4>3
    <3> QED
      BY <3>6, <3>7
  <2> QED
    BY <1>7, <2>1, <2>2
<1>11. WrapsInv'
  <2> SUFFICES ASSUME NEW j \in 1..(N + M), IsScriptHashInput(nodes'[j])
               PROVE  /\ j + 1 \in 1..(N + M) /\ nodes'[j + 1].tx = nodes'[j].tx
                      /\ nodes'[j + 1].io = "out" /\ nodes'[j + 1].type # "MULTISIG_PUBKEY"
                      /\ \E s \in TxShapes : \E i \in DOMAIN s :
                           /\ IsScriptHashInput(s[i]) /\ s[i].hash = nodes'[j].hash
                           /\ s[i + 1].hash = nodes'[j + 1].hash
    BY <1>8 DEF WrapsInv, IsScriptHashInput
  <2>1. CASE j \in 1..N
    <3>1. nodes'[j] = nodes[j]
      BY <1>4, <2>1
    <3>2. /\ j + 1 \in 1..N /\ nodes[j + 1].tx = nodes[j].tx
          /\ nodes[j + 1].io = "out" /\ nodes[j + 1].type # "MULTISIG_PUBKEY"
          /\ \E s \in TxShapes : \E i \in DOMAIN s :
               /\ IsScriptHashInput(s[i]) /\ s[i].hash = nodes[j].hash
               /\ s[i + 1].hash = nodes[j + 1].hash
      BY <1>1, <1>8, <2>1, <3>1 DEF WrapsInv
    <3>3. nodes'[j + 1] = nodes[j + 1] /\ j + 1 \in 1..(N + M)
      BY <1>4, <3>2
    <3> QED
      BY <3>1, <3>2, <3>3
  <2>2. CASE \E i \in 1..M : j = N + i
    <3>1. PICK i \in 1..M : j = N + i
      BY <2>2
    <3>2. IsScriptHashInput(shape[i]) /\ shape[i].io = "in"
      BY <1>4, <3>1 DEF IsScriptHashInput
    <3>3. i < M /\ shape[i + 1].io = "out" /\ shape[i + 1].up = i
      BY <1>8, <3>2, ShapeFacts
    <3>4. i + 1 \in 1..M /\ N + (i + 1) = j + 1 /\ j + 1 \in 1..(N + M) /\ i \in DOMAIN shape
      BY <1>4, <1>8, <3>1, <3>3, ShapeFacts
    <3>5. shape[i + 1].type # "MULTISIG_PUBKEY"
      BY <1>8, <3>2, <3>3, <3>4, ShapeFacts
    <3>6. /\ nodes'[j + 1].io = shape[i + 1].io /\ nodes'[j + 1].type = shape[i + 1].type
          /\ nodes'[j + 1].hash = shape[i + 1].hash /\ nodes'[j + 1].tx = tx
      BY <1>4, <3>4
    <3> QED
      BY <1>4, <3>1, <3>2, <3>3, <3>4, <3>5, <3>6
  <2> QED
    BY <1>7, <2>1, <2>2
<1>14. ASSUME NEW j \in 1..N
       PROVE  KeysOf(nodes', j) = KeysOf(nodes, j)
  <2>1. ASSUME NEW i \in 1..M
        PROVE  nodes'[N + i].up # j
    <3>1. shape[i].up \in Nat
      BY <1>8, ShapeFacts
    <3>2. nodes'[N + i].up = (IF shape[i].up = 0 THEN 0 ELSE N + shape[i].up)
      BY <1>4
    <3> QED
      BY <1>4, <3>1, <3>2
  <2>2. \A i \in 1..(N + M) : nodes'[i].up = j => i \in 1..N
    BY <1>7, <2>1
  <2>3. \A i \in 1..N : i \in 1..(N + M) /\ nodes'[i] = nodes[i]
    BY <1>4
  <2>4. \A i : i \in KeysOf(nodes', j) <=> i \in 1..(N + M) /\ nodes'[i].io = "out" /\ nodes'[i].up = j
    BY <1>6 DEF KeysOf
  <2>5. \A i : i \in KeysOf(nodes, j) <=> i \in 1..N /\ nodes[i].io = "out" /\ nodes[i].up = j
    BY <1>6 DEF KeysOf
  <2>6. \A i : i \in KeysOf(nodes', j) <=> i \in KeysOf(nodes, j)
    BY <2>2, <2>3, <2>4, <2>5, Zenon
  <2> QED
    BY <2>6, Zenon
<1>12. KeysInv'
  <2> SUFFICES ASSUME NEW j \in 1..(N + M)
               PROVE  /\ nodes'[j].type = "MULTISIG_PUBKEY" =>
                           /\ nodes'[j].io = "out" /\ nodes'[j].up \in 1..(j - 1)
                           /\ nodes'[nodes'[j].up].io = "out"
                           /\ nodes'[nodes'[j].up].type = "MULTISIG"
                      /\ nodes'[j].up # 0 => nodes'[j].up \in 1..(j - 1) /\ nodes'[nodes'[j].up].tx = nodes'[j].tx
                      /\ nodes'[j].io = "out" /\ nodes'[j].type = "MULTISIG" =>
                           \E c \in Nat : KeysOf(nodes', j) = (j + 1)..(j + c)
    BY <1>8 DEF KeysInv, KeysOf
  <2>1. CASE j \in 1..N
    <3>1. nodes'[j] = nodes[j]
      BY <1>4, <2>1
    <3>2. /\ nodes[j].type = "MULTISIG_PUBKEY" =>
               /\ nodes[j].io = "out" /\ nodes[j].up \in 1..(j - 1)
               /\ nodes[nodes[j].up].io = "out"
               /\ nodes[nodes[j].up].type = "MULTISIG"
          /\ nodes[j].up # 0 => nodes[j].up \in 1..(j - 1) /\ nodes[nodes[j].up].tx = nodes[j].tx
          /\ nodes[j].io = "out" /\ nodes[j].type = "MULTISIG" =>
               \E c \in Nat : KeysOf(nodes, j) = (j + 1)..(j + c)
      BY <1>1, <1>8, <2>1 DEF KeysInv
    <3>3. nodes[j].up # 0 => nodes'[nodes[j].up] = nodes[nodes[j].up]
      BY <1>4, <2>1, <3>2
    <3>4. KeysOf(nodes', j) = KeysOf(nodes, j)
      BY <1>14, <2>1
    <3>5. 0 \notin 1..(j - 1)
      BY <1>4
    <3> QED
      BY <3>1, <3>2, <3>3, <3>4, <3>5
  <2>2. CASE \E i \in 1..M : j = N + i
    <3>1. PICK i \in 1..M : j = N + i
      BY <2>2
    <3>2. /\ nodes'[j].io = shape[i].io /\ nodes'[j].type = shape[i].type
          /\ nodes'[j].up = (IF shape[i].up = 0 THEN 0 ELSE N + shape[i].up)
          /\ nodes'[j].tx = tx
      BY <1>4, <3>1
    <3>3. shape[i].up \in Nat /\ shape[i].up < i /\ shape[i].io \in {"in", "out"}
      BY <1>8, ShapeFacts
    <3>4. shape[i].up # 0 => /\ shape[i].up \in 1..M /\ N + shape[i].up \in 1..(j - 1)
                             /\ nodes'[j].up = N + shape[i].up
      <4>1. N \in Nat /\ M \in Nat
        BY <1>4
      <4> QED
        BY <3>1, <3>2, <3>3, <4>1
    <3>5. nodes'[j].type = "MULTISIG_PUBKEY" =>
            /\ nodes'[j].io = "out" /\ nodes'[j].up \in 1..(j - 1)
            /\ nodes'[nodes'[j].up].io = "out"
            /\ nodes'[nodes'[j].up].type = "MULTISIG"
      <4> SUFFICES ASSUME shape[i].type = "MULTISIG_PUBKEY"
                   PROVE  /\ nodes'[j].io = "out" /\ nodes'[j].up \in 1..(j - 1)
                          /\ nodes'[nodes'[j].up].io = "out"
                          /\ nodes'[nodes'[j].up].type = "MULTISIG"
        BY <3>2
      <4>1. /\ shape[i].up # 0 /\ shape[shape[i].up].io = "out"
            /\ shape[shape[i].up].type = "MULTISIG" /\ shape[i].io # "in"
        BY <1>8, ShapeFacts
      <4> QED
        BY <1>4, <3>2, <3>3, <3>4, <4>1
    <3>6. nodes'[j].up # 0 => nodes'[j].up \in 1..(j - 1) /\ nodes'[nodes'[j].up].tx = nodes'[j].tx
      BY <1>4, <3>2, <3>4
    <3>7. ASSUME shape[i].io = "out", shape[i].type = "MULTISIG"
          PROVE  \E c \in Nat : KeysOf(nodes', j) = (j + 1)..(j + c)
      <4>1. PICK c \in Nat : i + c <= M /\ KeysOf(shape, i) = (i + 1)..(i + c)
        <5>1. i \in 1..Len(shape) /\ Len(shape) = M
          BY <1>8
        <5>2. \E c \in Nat : i + c <= Len(shape) /\ KeysOf(shape, i) = (i + 1)..(i + c)
          BY <3>7, <5>1, ShapeFacts, Zenon
        <5> QED
          BY <5>1, <5>2
      <4>2. \A m : m \in KeysOf(shape, i) <=> m \in 1..M /\ shape[m].io = "out" /\ shape[m].up = i
        BY <1>8, ShapeFacts DEF KeysOf
      <4>3. \A m : m \in KeysOf(nodes', j) <=> m \in 1..(N + M) /\ nodes'[m].io = "out" /\ nodes'[m].up = j
        BY <1>6 DEF KeysOf
      <4>4. ASSUME NEW m \in KeysOf(nodes', j)
            PROVE  m \in (j + 1)..(j + c)
        <5>1. m \in 1..(N + M) /\ nodes'[m].io = "out" /\ nodes'[m].up = j
          BY <4>3
        <5>2. CASE m \in 1..N
          <6>1. nodes[m].up = j
            BY <1>4, <5>1, <5>2
          <6>2. j # 0
            BY <1>4, <3>1
          <6>3. j \in 1..(m - 1)
            BY <1>1, <1>8, <5>2, <6>1, <6>2 DEF KeysInv
          <6> QED
            BY <1>4, <3>1, <5>2, <6>3
        <5>3. CASE \E q \in 1..M : m = N + q
          <6>1. PICK q \in 1..M : m = N + q
            BY <5>3
          <6>2. shape[q].up \in Nat
            BY <1>8, ShapeFacts
          <6>3. shape[q].io = "out" /\ shape[q].up = i
            <7>1. /\ nodes'[m].io = shape[q].io
                  /\ nodes'[m].up = (IF shape[q].up = 0 THEN 0 ELSE N + shape[q].up)
                  /\ N \in Nat /\ M \in Nat
              BY <1>4, <6>1
            <7>2. j = N + i /\ j # 0
              BY <3>1, <7>1
            <7>3. shape[q].up # 0 /\ N + shape[q].up = N + i
              BY <5>1, <7>1, <7>2
            <7> QED
              BY <5>1, <6>2, <7>1, <7>3
          <6>4. q \in (i + 1)..(i + c)
            BY <4>1, <4>2, <6>3
          <6> QED
            BY <1>4, <3>1, <6>1, <6>4
        <5> QED
          BY <1>7, <5>1, <5>2, <5>3
      <4>5. ASSUME NEW m \in (j + 1)..(j + c)
            PROVE  m \in KeysOf(nodes', j)
        <5>1. m - N \in (i + 1)..(i + c) /\ m = N + (m - N) /\ m \in 1..(N + M)
          BY <1>4, <3>1, <4>1
        <5>2. m - N \in 1..M /\ shape[m - N].io = "out" /\ shape[m - N].up = i
          BY <4>1, <4>2, <5>1
        <5>3. i # 0 /\ nodes'[m].io = "out" /\ nodes'[m].up = N + i
          <6> DEFINE l == m - N
          <6>1. l \in 1..M /\ m = N + l /\ shape[l].io = "out" /\ shape[l].up = i /\ i # 0
            BY <5>1, <5>2
          <6> HIDE DEF l
          <6> QED
            BY <1>4, <6>1
        <5> QED
          BY <3>1, <4>3, <5>1, <5>3
      <4>6. KeysOf(nodes', j) = (j + 1)..(j + c)
        BY <4>4, <4>5
      <4> QED
        BY <4>6
    <3> QED
      BY <3>2, <3>5, <3>6, <3>7
  <2> QED
    BY <1>7, <2>1, <2>2
<1>13. UnspentInv'
  <2> SUFFICES ASSUME NEW q \in unspent'
               PROVE  /\ q \in 1..(N + M) /\ nodes'[q].io = "out"
                      /\ nodes'[q].type # "MULTISIG_PUBKEY"
    BY <1>8 DEF UnspentInv
  <2>1. CASE q \in unspent
    <3>1. q \in 1..N /\ nodes[q].io = "out" /\ nodes[q].type # "MULTISIG_PUBKEY"
      BY <1>1, <1>8, <2>1 DEF UnspentInv
    <3> QED
      BY <1>4, <3>1
  <2>2. CASE \E i \in 1..M : q = N + i /\ shape[i].io = "out" /\ shape[i].up = 0
    <3>1. PICK i \in 1..M : q = N + i /\ shape[i].io = "out" /\ shape[i].up = 0
      BY <2>2
    <3>2. shape[i].type # "MULTISIG_PUBKEY"
      BY <1>8, <3>1, ShapeFacts
    <3> QED
      BY <1>4, <3>1, <3>2
  <2> QED
    BY <1>5, <2>1, <2>2
<1> QED
  BY <1>8, <1>9, <1>10, <1>11, <1>12, <1>13, <1>14 DEF LayoutInv

-----------------------------------------------------------------------------
(* What the records say of the scripts.                                    *)

(* Only what the resolver passes over has no number.                       *)
NumberedInv == \A i \in 1..Len(res) : Skipped(nodes[i]) <=> res[i].scriptNum = 0

(* A record was seen with some script, and spent by some input.            *)
RecordsInv ==
  \A k \in Kind : \A n \in 1..Len(file[k]) :
    /\ {"hash", "seen", "spent", "data"} \subseteq DOMAIN file[k][n]
    /\ file[k][n].seen \in Nat
    /\ \E j \in 1..written : file[k][n].seen <= nodes[j].tx
    /\ file[k][n].spent # Never =>
         \E i \in 1..written : nodes[i].io = "in" /\ KindOf(i) = k /\ InputNum(i) = n

(* The record r of script output i ...                                     *)
OutMatches(i, r) ==
  /\ r.seen <= nodes[i].tx
  /\ nodes[i].type = "PUBKEY" => r.data = <<"key">>
  /\ nodes[i].type = "MULTISIG" /\ res[i].isNew =>
       \A j \in KeysOf(nodes, i) :
         j \in 1..Len(res) /\ \E m \in DOMAIN r.data : r.data[m] = res[j].scriptNum
OutInv ==
  \A i \in 1..written : nodes[i].io = "out" /\ res[i].scriptNum # 0 =>
    OutMatches(i, file[KindOf(i)][res[i].scriptNum])

(* ... and of input i: what a script hash wraps is what its first input    *)
(* wrapped.                                                                *)
Wrapped(j) == <<nodes[j + 1].type, res[j + 1].scriptNum>>
InMatches(i, r) ==
  /\ r.spent \in Nat /\ r.spent <= nodes[i].tx
  /\ r.seen <= nodes[nodes[i].spends].tx
  /\ KindOf(i) = "PUBKEY" => r.data = <<"key">>
  /\ KindOf(i) = "SCRIPTHASH" =>
       \E j \in 1..i : /\ IsScriptHashInput(nodes[j]) /\ nodes[j].hash = nodes[i].hash
                       /\ j + 1 \in 1..Len(res) /\ r.data = Wrapped(j)
InInv ==
  \A i \in 1..written : nodes[i].io = "in" => InMatches(i, file[KindOf(i)][InputNum(i)])

HistoryInv ==
  ~rolledBack => LayoutInv /\ NumberedInv /\ RecordsInv /\ OutInv /\ InInv

-----------------------------------------------------------------------------
(* Other steps than the writer's.                                          *)

(* There are no scripts at first.                                          *)
LEMMA HistoryInit == Init => HistoryInv
<1> SUFFICES ASSUME Init PROVE HistoryInv
  OBVIOUS
<1>1. nodes = << >> /\ res = << >> /\ written = 0 /\ unspent = {} /\ \A k \in Kind : file[k] = << >>
  BY DEF Init
<1>2. Len(<< >>) = 0 /\ \A i \in 1..0 : FALSE
  BY EmptySeq
<1>3. Len(nodes) = 0 /\ Len(res) = 0 /\ \A k \in Kind : Len(file[k]) = 0
  BY <1>1, <1>2, Zenon
<1>4. LayoutInv
  BY <1>1, <1>2, <1>3 DEF LayoutInv, TxOrder, InputsInv, WrapsInv, KeysInv, UnspentInv
<1>5. NumberedInv /\ RecordsInv /\ OutInv /\ InInv
  BY <1>1, <1>2, <1>3 DEF NumberedInv, RecordsInv, OutInv, InInv
<1> QED
  BY <1>4, <1>5 DEF HistoryInv

(* Where the scripts are that a written script refers to.                  *)
LEMMA Referred ==
  ASSUME TypeInv, LayoutInv, NEW i \in 1..Len(res)
  PROVE  /\ i \in 1..Len(nodes) /\ i \in Nat
         /\ nodes[i].io = "in" =>
              /\ Source(i) \in 1..Len(res) /\ Source(i) \in 1..Len(nodes) /\ Source(i) < i
              /\ nodes[i].spends \in 1..Len(nodes)
              /\ InputNum(i) = res[Source(i)].scriptNum /\ KindOf(Source(i)) = KindOf(i)
         /\ nodes[i].type = "MULTISIG_PUBKEY" =>
              nodes[i].up \in 1..Len(res) /\ nodes[i].up \in 1..Len(nodes)
<1>1. /\ Len(nodes) \in Nat /\ Len(res) \in Nat /\ Len(res) <= Len(nodes)
      /\ i \in 1..Len(nodes) /\ i \in Nat
  BY NodeFacts DEF TypeInv
<1>2. ASSUME nodes[i].io = "in"
      PROVE  /\ Source(i) \in 1..Len(res) /\ Source(i) \in 1..Len(nodes) /\ Source(i) < i
             /\ nodes[i].spends \in 1..Len(nodes)
             /\ InputNum(i) = res[Source(i)].scriptNum /\ KindOf(Source(i)) = KindOf(i)
  <2>1. /\ nodes[i].spends \in 1..(i - 1) /\ Source(i) \in 1..(i - 1)
        /\ nodes[Source(i)].type = nodes[i].type
    BY <1>1, <1>2 DEF LayoutInv, InputsInv
  <2>2. InputNum(i) = res[Source(i)].scriptNum
    BY DEF InputNum, Source
  <2> QED
    BY <1>1, <2>1, <2>2 DEF KindOf
<1>3. ASSUME nodes[i].type = "MULTISIG_PUBKEY"
      PROVE  nodes[i].up \in 1..Len(res) /\ nodes[i].up \in 1..Len(nodes)
  <2>1. nodes[i].up \in 1..(i - 1)
    BY <1>1, <1>3 DEF LayoutInv, KeysInv
  <2> QED
    BY <1>1, <2>1
<1> QED
  BY <1>1, <1>2, <1>3

(* More scripts, and more that are resolved, change nothing for those that *)
(* are written.                                                            *)
LEMMA HistoryFrame ==
  ASSUME TypeInv, TypeInv', LayoutInv, NumberedInv, RecordsInv, OutInv, InInv,
         UNCHANGED <<written, file>>,
         Len(nodes) <= Len(nodes'), Len(res) <= Len(res'),
         \A i \in 1..Len(nodes) : nodes'[i] = nodes[i] /\ KeysOf(nodes', i) = KeysOf(nodes, i),
         \A i \in 1..Len(res) : res'[i] = res[i]
  PROVE  /\ RecordsInv' /\ OutInv' /\ InInv'
         /\ \A i \in 1..Len(res) : Skipped(nodes[i])' <=> res[i].scriptNum = 0
<1>1. /\ Len(nodes) \in Nat /\ Len(res) \in Nat /\ Len(nodes') \in Nat /\ Len(res') \in Nat
      /\ written \in Nat /\ written <= Len(res) /\ Len(res) <= Len(nodes)
  BY NodeFacts, LenProperties DEF TypeInv
<1>2. ASSUME NEW i \in 1..Len(res)
      PROVE  /\ nodes'[i] = nodes[i] /\ res'[i] = res[i] /\ KindOf(i)' = KindOf(i)
             /\ KeysOf(nodes', i) = KeysOf(nodes, i)
             /\ nodes[i].io = "in" =>
                  /\ Source(i)' = Source(i) /\ InputNum(i)' = InputNum(i)
                  /\ nodes'[nodes[i].spends] = nodes[nodes[i].spends]
  <2>1. /\ nodes'[i] = nodes[i] /\ res'[i] = res[i] /\ KindOf(i)' = KindOf(i)
        /\ KeysOf(nodes', i) = KeysOf(nodes, i)
    BY <1>1 DEF KindOf
  <2>2. ASSUME nodes[i].io = "in"
        PROVE  /\ Source(i)' = Source(i) /\ InputNum(i)' = InputNum(i)
               /\ nodes'[nodes[i].spends] = nodes[nodes[i].spends]
    <3>1. Source(i) \in 1..Len(res) /\ nodes[i].spends \in 1..Len(nodes)
      BY <2>2, Referred
    <3>2. Source(i)' = Source(i)
      BY <2>1 DEF Source
    <3>3. InputNum(i) = res[Source(i)].scriptNum /\ InputNum(i)' = res'[Source(i)'].scriptNum
      BY DEF InputNum, Source
    <3> QED
      BY <3>1, <3>2, <3>3
  <2> QED
    BY <2>1, <2>2
<1>3. \A i \in 1..written : i \in 1..Len(res)
  BY <1>1
<1>4. RecordsInv'
  <2> SUFFICES ASSUME NEW k \in Kind, NEW n \in 1..Len(file[k])
               PROVE  /\ {"hash", "seen", "spent", "data"} \subseteq DOMAIN file[k][n]
                      /\ file[k][n].seen \in Nat
                      /\ \E j \in 1..written : file[k][n].seen <= nodes'[j].tx
                      /\ file[k][n].spent # Never =>
                           \E i \in 1..written : nodes'[i].io = "in" /\ KindOf(i)' = k
                                                 /\ InputNum(i)' = n
    BY DEF RecordsInv
  <2>1. /\ {"hash", "seen", "spent", "data"} \subseteq DOMAIN file[k][n]
        /\ file[k][n].seen \in Nat
        /\ \E j \in 1..written : file[k][n].seen <= nodes[j].tx
        /\ file[k][n].spent # Never =>
             \E i \in 1..written : nodes[i].io = "in" /\ KindOf(i) = k /\ InputNum(i) = n
    BY DEF RecordsInv
  <2> QED
    BY <1>2, <1>3, <2>1
<1>5. OutInv'
  <2> SUFFICES ASSUME NEW i \in 1..written, nodes'[i].io = "out", res'[i].scriptNum # 0
               PROVE  OutMatches(i, file[KindOf(i)][res[i].scriptNum])'
    BY DEF OutInv
  <2> DEFINE r == file[KindOf(i)][res[i].scriptNum]
  <2>1. i \in 1..Len(res) /\ nodes'[i] = nodes[i] /\ res'[i] = res[i] /\ r' = r
        /\ KeysOf(nodes', i) = KeysOf(nodes, i)
    BY <1>2, <1>3
  <2>2. OutMatches(i, r)
    BY <2>1 DEF OutInv
  <2> HIDE DEF r
  <2>3. \A j \in 1..Len(res) : j \in 1..Len(res')
    BY <1>1
  <2>4. OutMatches(i, r)'
    BY <2>1, <2>2, <2>3 DEF OutMatches
  <2> QED
    BY <2>4 DEF r
<1>6. InInv'
  <2> SUFFICES ASSUME NEW i \in 1..written, nodes'[i].io = "in"
               PROVE  InMatches(i, file[KindOf(i)][InputNum(i)])'
    BY DEF InInv
  <2> DEFINE r == file[KindOf(i)][InputNum(i)]
  <2>1. i \in 1..Len(res) /\ nodes'[i] = nodes[i] /\ KindOf(i)' = KindOf(i) /\ r' = r
        /\ nodes'[nodes[i].spends] = nodes[nodes[i].spends]
    BY <1>2, <1>3
  <2>2. InMatches(i, r)
    BY <2>1 DEF InInv
  <2> HIDE DEF r
  <2>3. \A j \in 1..Len(res) : j \in 1..Len(res') /\ nodes'[j] = nodes[j] /\ res'[j] = res[j]
    BY <1>1, <1>2
  <2>4. \A j \in 1..i : j \in 1..Len(res)
    BY <1>1
  <2>5. \A j \in 1..i : j + 1 \in 1..Len(res) => Wrapped(j)' = Wrapped(j)
    BY <2>3 DEF Wrapped
  <2>6. InMatches(i, r)'
    BY <2>1, <2>2, <2>3, <2>4, <2>5 DEF InMatches
  <2> QED
    BY <2>6 DEF r
<1>7. ASSUME NEW i \in 1..Len(res)
      PROVE  Skipped(nodes[i])' <=> res[i].scriptNum = 0
  <2>1. nodes'[i] = nodes[i]
    BY <1>2
  <2>2. nodes[i].type = "MULTISIG_PUBKEY" => res'[nodes[i].up] = res[nodes[i].up]
    BY Referred
  <2>3. Skipped(nodes[i])' <=> Skipped(nodes[i])
    BY <2>1, <2>2 DEF Skipped
  <2> QED
    BY <2>3 DEF NumberedInv
<1> QED
  BY <1>4, <1>5, <1>6, <1>7

(* The scripts are laid out as before when there are no new ones.          *)
LEMMA LayoutKept ==
  ASSUME LayoutInv, UNCHANGED <<nodes, unspent>>
  PROVE  LayoutInv'
BY DEF LayoutInv, TxOrder, InputsInv, Source, WrapsInv, KeysInv, UnspentInv

(* Opening and closing leave the records alone ...                         *)
LEMMA OpenCloseHistory ==
  ASSUME BookInv, HistoryInv, Open \/ Close \/ UNCHANGED vars
  PROVE  HistoryInv'
<1>1. UNCHANGED <<nodes, unspent, res, written, file, rolledBack>>
  BY DEF Open, Close, vars, book, scripts
<1>2. LayoutInv => LayoutInv'
  BY <1>1, LayoutKept
<1>3. NumberedInv => NumberedInv'
  BY <1>1 DEF NumberedInv, Skipped
<1>4. RecordsInv => RecordsInv'
  BY <1>1 DEF RecordsInv, KindOf, InputNum
<1>5. OutInv => OutInv'
  BY <1>1 DEF OutInv, OutMatches, KindOf
<1>6. InInv => InInv'
  BY <1>1 DEF InInv, InMatches, Wrapped, KindOf, InputNum
<1> QED
  BY <1>1, <1>2, <1>3, <1>4, <1>5, <1>6 DEF HistoryInv

(* ... and so does a transaction that is yet to be resolved.               *)
LEMMA AddTxHistory ==
  ASSUME BookInv, HistoryInv, AddTx
  PROVE  HistoryInv'
<1> SUFFICES ASSUME ~rolledBack
             PROVE  LayoutInv' /\ NumberedInv' /\ RecordsInv' /\ OutInv' /\ InInv'
  BY DEF HistoryInv, AddTx
<1>1. TypeInv /\ TypeInv' /\ LayoutInv /\ NumberedInv /\ RecordsInv /\ OutInv /\ InInv
  BY AddTxStep DEF HistoryInv, BookInv
<1>2. /\ UNCHANGED <<res, written, file>>
      /\ \A i \in 1..Len(nodes) : nodes'[i] = nodes[i] /\ KeysOf(nodes', i) = KeysOf(nodes, i)
      /\ LayoutInv'
  BY <1>1, AddTxStep, AddTxLayout DEF AddTx
<1>3. Len(nodes) <= Len(nodes') /\ Len(res) <= Len(res')
  <2>1. PICK shape \in TxShapes : \E p, tx : tx \in Nat /\ NewNodes(shape, p, tx)
    BY <1>1, AddTxNodes DEF LayoutInv
  <2>2. Len(nodes') = Len(nodes) + Len(shape) /\ Len(shape) \in Nat /\ Len(nodes) \in Nat
        /\ Len(res) \in Nat
    BY <1>1, <2>1, ShapeFacts, NodeFacts DEF NewNodes
  <2> QED
    BY <1>2, <2>2
<1>4. /\ RecordsInv' /\ OutInv' /\ InInv'
      /\ \A i \in 1..Len(res) : Skipped(nodes[i])' <=> res[i].scriptNum = 0
  BY <1>1, <1>2, <1>3, HistoryFrame
<1> QED
  BY <1>2, <1>4 DEF NumberedInv

(* The resolver gives a number to all but what it passes over.             *)
LEMMA ResolvedHistory ==
  ASSUME TypeInv, TypeInv', HistoryInv, UNCHANGED <<rolledBack, nodes, unspent, written, file>>,
         Len(res) < Len(nodes), NEW r \in ResSet, res' = Append(res, r),
         NEW i, i = Len(res) + 1, ~rolledBack => (Skipped(nodes[i]) <=> r.scriptNum = 0)
  PROVE  HistoryInv'
<1> SUFFICES ASSUME ~rolledBack
             PROVE  LayoutInv' /\ NumberedInv' /\ RecordsInv' /\ OutInv' /\ InInv'
  BY DEF HistoryInv
<1>1. LayoutInv /\ NumberedInv /\ RecordsInv /\ OutInv /\ InInv /\ LayoutInv'
  BY LayoutKept DEF HistoryInv
<1>2. /\ Len(res) \in Nat /\ Len(res') = i /\ res'[i] = r
      /\ \A j \in 1..Len(res) : res'[j] = res[j]
  BY ResGrows, NodeFacts
<1>3. Len(res) <= Len(res') /\ Len(nodes) <= Len(nodes') /\ i \in 1..Len(nodes) /\ i \in Nat
  BY <1>2, NodeFacts
<1>4. /\ RecordsInv' /\ OutInv' /\ InInv'
      /\ \A j \in 1..Len(res) : Skipped(nodes[j])' <=> res[j].scriptNum = 0
  BY <1>1, <1>2, <1>3, HistoryFrame
<1>5. Skipped(nodes[i])' <=> Skipped(nodes[i])
  <2>1. nodes[i].type = "MULTISIG_PUBKEY" => nodes[i].up \in 1..Len(res)
    <3>1. nodes[i].type = "MULTISIG_PUBKEY" => nodes[i].up \in 1..(i - 1)
      BY <1>1, <1>3 DEF LayoutInv, KeysInv
    <3> QED
      BY <1>2, <3>1
  <2> QED
    BY <1>2, <2>1 DEF Skipped
<1>6. \A j \in 1..i : j \in 1..Len(res) \/ j = i
  BY <1>2
<1>7. i = Len(res) + 1 /\ Len(res') = i
  BY <1>2
<1>8. NumberedInv'
  <2> SUFFICES ASSUME NEW j \in 1..i
               PROVE  Skipped(nodes[j])' <=> res'[j].scriptNum = 0
    BY <1>7 DEF NumberedInv
  <2>1. CASE j \in 1..Len(res)
    BY <1>2, <1>4, <2>1
  <2>2. CASE j = i
    BY <1>2, <1>5, <1>7, <2>2
  <2> QED
    BY <1>6, <2>1, <2>2
<1> QED
  BY <1>1, <1>4, <1>8

(* Passing over.                                                           *)
LEMMA SkipHistory ==
  ASSUME BookInv, HistoryInv, Skip
  PROVE  HistoryInv'
<1> DEFINE r == [scriptNum |-> 0, isNew |-> FALSE]
<1>1. TypeInv /\ TypeInv'
  BY SkipStep DEF BookInv
<1>2. /\ UNCHANGED <<rolledBack, nodes, unspent, written, file>> /\ Len(res) < Len(nodes)
      /\ res' = Append(res, r) /\ Skipped(nodes[Len(res) + 1])
  BY DEF Skip, scripts
<1>3. r \in ResSet /\ r.scriptNum = 0
  BY DEF ResSet
<1> HIDE DEF r
<1> QED
  BY <1>1, <1>2, <1>3, ResolvedHistory

(* Resolving: 0 is never a number, until a rollback.                       *)
LEMMA ResolveHistory ==
  ASSUME BookInv, RecordInv, HistoryInv, Resolve
  PROVE  HistoryInv'
<1> DEFINE i == Len(res) + 1
           t == nodes[i].type
           h == nodes[i].hash
           k == KindOf(i)
           r == [scriptNum |-> answer'.num, isNew |-> answer'.isNew]
<1>1. TypeInv /\ TypeInv' /\ r \in ResSet
  BY ResolveStep, ResolveCases DEF BookInv
<1>2. /\ t \in DOMAIN DedupType /\ h \in Hash /\ k \in Kind
      /\ UNCHANGED <<rolledBack, nodes, unspent, written, file>> /\ Len(res) < Len(nodes)
      /\ \/ k \notin Equived /\ NonDedup(k, h)
         \/ k \in Equived /\ AddressNum(t, h) = 0 /\ NotFound(t, h)
         \/ k \in Equived /\ AddressNum(t, h) # 0 /\ Found(t, h)
      /\ res' = Append(res, r)
  BY ResolveCases
<1>3. ~Skipped(nodes[i])
  BY DEF Resolve
<1>4. answer'.num = scriptIndexes[k] \/ (answer'.num = AddressNum(t, h) /\ AddressNum(t, h) # 0)
  BY <1>2 DEF NonDedup, NotFound, Found, KindOf
<1>5. ~rolledBack => scriptIndexes[k] # 0
  <2> SUFFICES ASSUME ~rolledBack PROVE scriptIndexes[k] # 0
    OBVIOUS
  <2>1. Len(file[k]) < scriptIndexes[k]
    BY <1>2 DEF RecordInv, PendingInv
  <2>2. Len(file[k]) \in Nat /\ scriptIndexes[k] \in Nat
    BY <1>1, <1>2, LenProperties DEF TypeInv
  <2> QED
    BY <2>1, <2>2
<1>6. ~rolledBack => r.scriptNum # 0
  BY <1>4, <1>5
<1> HIDE DEF r
<1> QED
  BY <1>1, <1>2, <1>3, <1>6, ResolvedHistory

-----------------------------------------------------------------------------
(* The writer.                                                             *)

(* How a record of kind k may change.                                      *)
Evolves(k, r, q) ==
  /\ {"hash", "seen", "spent", "data"} \subseteq DOMAIN q
  /\ q.seen \in Nat /\ q.seen <= r.seen
  /\ r.spent # Never => q.spent = r.spent
  /\ k = "PUBKEY" /\ r.data = <<"key">> => q.data = <<"key">>
  /\ k = "SCRIPTHASH" /\ r.spent # Never => q.data = r.data
  /\ k = "MULTISIG" => q.data = r.data

(* The kinds by type.                                                      *)
LEMMA KindTypes ==
  /\ DedupType["PUBKEY"] = "PUBKEY" /\ DedupType["PUBKEYHASH"] = "PUBKEY"
  /\ DedupType["WITNESS_PUBKEYHASH"] = "PUBKEY"
  /\ DedupType["SCRIPTHASH"] = "SCRIPTHASH" /\ DedupType["WITNESS_SCRIPTHASH"] = "SCRIPTHASH"
  /\ DedupType["MULTISIG"] = "MULTISIG" /\ DedupType["NONSTANDARD"] = "NONSTANDARD"
  /\ \A t \in DOMAIN DedupType :
       /\ DedupType[t] = "PUBKEY" =>
            t \in {"PUBKEY", "PUBKEYHASH", "WITNESS_PUBKEYHASH", "MULTISIG_PUBKEY"}
       /\ DedupType[t] = "SCRIPTHASH" => t \in {"SCRIPTHASH", "WITNESS_SCRIPTHASH"}
BY DEF DedupType

(* A field that is overwritten, and the others.                            *)
LEMMA Overwritten ==
  ASSUME NEW r, NEW f, NEW v
  PROVE  /\ DOMAIN [r EXCEPT ![f] = v] = DOMAIN r
         /\ f \in DOMAIN r => [r EXCEPT ![f] = v][f] = v
         /\ \A g \in DOMAIN r : g # f => [r EXCEPT ![f] = v][g] = r[g]
OBVIOUS

(* An output that is known adds its key to the record.                     *)
LEMMA KnownEvolves ==
  ASSUME NEW n, NEW r, {"hash", "seen", "spent", "data"} \subseteq DOMAIN r, r.seen \in Nat
  PROVE  /\ Evolves(DedupType[n.type], r, Known(n, r))
         /\ Known(n, r).seen = r.seen /\ Known(n, r).spent = r.spent
         /\ n.type = "PUBKEY" => Known(n, r).data = <<"key">>
<1>1. CASE n.type = "PUBKEY"
  <2> DEFINE q == [r EXCEPT !["data"] = <<"key">>]
  <2>1. Known(n, r) = q
    BY <1>1 DEF Known
  <2>2. DOMAIN q = DOMAIN r /\ q.data = <<"key">> /\ q.seen = r.seen /\ q.spent = r.spent
    BY Overwritten
  <2> HIDE DEF q
  <2> QED
    BY <1>1, <2>1, <2>2, KindTypes DEF Evolves
<1>2. CASE n.type = "WITNESS_SCRIPTHASH"
  <2> DEFINE q == [r EXCEPT !["segwit"] = TRUE]
  <2>1. Known(n, r) = q
    BY <1>2 DEF Known
  <2>2. DOMAIN q = DOMAIN r /\ q.data = r.data /\ q.seen = r.seen /\ q.spent = r.spent
    BY <1>2, Overwritten
  <2> HIDE DEF q
  <2> QED
    BY <1>2, <2>1, <2>2 DEF Evolves
<1>3. CASE n.type # "PUBKEY" /\ n.type # "WITNESS_SCRIPTHASH"
  <2>1. Known(n, r) = r
    BY <1>3 DEF Known
  <2> QED
    BY <1>3, <2>1 DEF Evolves
<1> QED
  BY <1>1, <1>2, <1>3

(* What an input reveals.                                                  *)
LEMMA RevealsData ==
  ASSUME NEW i, NEW r, "data" \in DOMAIN r
  PROVE  /\ DOMAIN Reveals(i, r) = DOMAIN r
         /\ \A g \in DOMAIN r : g # "data" => Reveals(i, r)[g] = r[g]
         /\ nodes[i].type \in {"PUBKEYHASH", "WITNESS_PUBKEYHASH"} =>
              Reveals(i, r).data = <<"key">>
         /\ nodes[i].type \in {"SCRIPTHASH", "WITNESS_SCRIPTHASH"} =>
              Reveals(i, r).data = Wrapped(i)
         /\ nodes[i].type \notin {"PUBKEYHASH", "WITNESS_PUBKEYHASH", "SCRIPTHASH",
                                  "WITNESS_SCRIPTHASH", "NONSTANDARD"} => Reveals(i, r).data = r.data
<1> DEFINE T == nodes[i].type
           Q(v) == [r EXCEPT !["data"] = v]
<1>1. \A v : /\ DOMAIN Q(v) = DOMAIN r /\ Q(v)["data"] = v
             /\ \A g \in DOMAIN r : g # "data" => Q(v)[g] = r[g]
  BY Overwritten
<1>2. CASE T \in {"PUBKEYHASH", "WITNESS_PUBKEYHASH"}
  <2>1. Reveals(i, r) = Q(<<"key">>)
    BY <1>2 DEF Reveals
  <2> HIDE DEF Q
  <2> QED
    BY <1>1, <1>2, <2>1
<1>3. CASE T \in {"SCRIPTHASH", "WITNESS_SCRIPTHASH"}
  <2>1. Reveals(i, r) = Q(Wrapped(i))
    BY <1>3 DEF Reveals, Wrapped
  <2> HIDE DEF Q
  <2> QED
    BY <1>1, <1>3, <2>1
<1>4. CASE T = "NONSTANDARD"
  <2>1. Reveals(i, r) = Q(<<"script">>)
    BY <1>4 DEF Reveals
  <2> HIDE DEF Q
  <2> QED
    BY <1>1, <1>4, <2>1
<1>5. CASE T \notin {"PUBKEYHASH", "WITNESS_PUBKEYHASH", "SCRIPTHASH", "WITNESS_SCRIPTHASH",
                     "NONSTANDARD"}
  <2>1. Reveals(i, r) = r
    BY <1>5 DEF Reveals
  <2> QED
    BY <1>5, <2>1
<1> QED
  BY <1>2, <1>3, <1>4, <1>5

(* An input moves the first sight of a script back to the output it        *)
(* spends, and the first one reveals what there is to reveal.              *)
LEMMA SpendEvolves ==
  ASSUME NEW i, NEW r, {"hash", "seen", "spent", "data"} \subseteq DOMAIN r, r.seen \in Nat,
         nodes[i].type \in DOMAIN DedupType, nodes[nodes[i].spends].tx \in Nat, nodes[i].tx \in Nat
  PROVE  /\ Evolves(KindOf(i), r, Spend(i, r))
         /\ Spend(i, r).seen <= nodes[nodes[i].spends].tx
         /\ r.spent = Never =>
              /\ Spend(i, r).spent = nodes[i].tx
              /\ nodes[i].type \in {"PUBKEYHASH", "WITNESS_PUBKEYHASH"} =>
                   Spend(i, r).data = <<"key">>
              /\ KindOf(i) = "SCRIPTHASH" => Spend(i, r).data = Wrapped(i)
         /\ r.spent # Never => Spend(i, r).spent = r.spent /\ Spend(i, r).data = r.data
<1> DEFINE out == nodes[nodes[i].spends].tx
           s == [r EXCEPT !["seen"] = IF out < r["seen"] THEN out ELSE r["seen"]]
           u == [s EXCEPT !["spent"] = nodes[i].tx]
           T == nodes[i].type
<1>1. /\ DOMAIN s = DOMAIN r /\ s.seen = IF out < r.seen THEN out ELSE r.seen
      /\ s.spent = r.spent /\ s.data = r.data
  BY Overwritten
<1>2. Spend(i, r) = IF r.spent = Never THEN Reveals(i, u) ELSE s
  BY DEF Spend
<1> HIDE DEF s
<1>3. DOMAIN u = DOMAIN r /\ u.spent = nodes[i].tx /\ u.seen = s.seen /\ u.data = r.data
  BY <1>1, Overwritten
<1> HIDE DEF u
<1>4. s.seen \in Nat /\ s.seen <= r.seen /\ s.seen <= out
  BY <1>1
<1>5. CASE r.spent = Never
  <2> DEFINE q == Reveals(i, u)
  <2>1. Spend(i, r) = q
    BY <1>2, <1>5
  <2>2. /\ DOMAIN q = DOMAIN r /\ q.seen = s.seen /\ q.spent = nodes[i].tx
        /\ T \in {"PUBKEYHASH", "WITNESS_PUBKEYHASH"} => q.data = <<"key">>
        /\ T \in {"SCRIPTHASH", "WITNESS_SCRIPTHASH"} => q.data = Wrapped(i)
        /\ T \notin {"PUBKEYHASH", "WITNESS_PUBKEYHASH", "SCRIPTHASH", "WITNESS_SCRIPTHASH",
                     "NONSTANDARD"} => q.data = r.data
    BY <1>3, RevealsData
  <2> HIDE DEF q
  <2>3. KindOf(i) = "SCRIPTHASH" => T \in {"SCRIPTHASH", "WITNESS_SCRIPTHASH"}
    BY KindTypes DEF KindOf
  <2>4. KindOf(i) = "PUBKEY" =>
          T \in {"PUBKEYHASH", "WITNESS_PUBKEYHASH"} \/ T \in {"PUBKEY", "MULTISIG_PUBKEY"}
    BY KindTypes DEF KindOf
  <2>5. KindOf(i) = "MULTISIG" =>
          T \notin {"PUBKEYHASH", "WITNESS_PUBKEYHASH", "SCRIPTHASH", "WITNESS_SCRIPTHASH",
                    "NONSTANDARD"}
    BY KindTypes DEF KindOf
  <2>6. Evolves(KindOf(i), r, q)
    BY <1>4, <1>5, <2>2, <2>4, <2>5 DEF Evolves
  <2> QED
    BY <1>4, <1>5, <2>1, <2>2, <2>3, <2>6
<1>6. CASE r.spent # Never
  BY <1>1, <1>2, <1>4, <1>6 DEF Evolves
<1> QED
  BY <1>5, <1>6

(* What a record says of an output or an input, it says from then on.      *)
LEMMA StillMatches ==
  ASSUME NEW i, NEW r, NEW q, Evolves(KindOf(i), r, q), r.seen \in Nat
  PROVE  /\ OutMatches(i, r) /\ nodes[i].tx \in Nat => OutMatches(i, q)
         /\ InMatches(i, r) /\ nodes[nodes[i].spends].tx \in Nat => InMatches(i, q)
<1>1. ASSUME OutMatches(i, r), nodes[i].tx \in Nat
      PROVE  OutMatches(i, q)
  <2>1. q.seen <= nodes[i].tx
    BY <1>1 DEF OutMatches, Evolves
  <2>2. nodes[i].type = "PUBKEY" => q.data = <<"key">>
    BY <1>1, KindTypes DEF OutMatches, Evolves, KindOf
  <2>3. nodes[i].type = "MULTISIG" => q.data = r.data
    BY KindTypes DEF Evolves, KindOf
  <2> QED
    BY <1>1, <2>1, <2>2, <2>3 DEF OutMatches
<1>2. ASSUME InMatches(i, r), nodes[nodes[i].spends].tx \in Nat
      PROVE  InMatches(i, q)
  <2>1. r.spent # Never
    BY <1>2, BoundAssumption DEF InMatches
  <2>2. q.seen <= nodes[nodes[i].spends].tx
    BY <1>2 DEF InMatches, Evolves
  <2> QED
    BY <1>2, <2>1, <2>2 DEF InMatches, Evolves
<1> QED
  BY <1>1, <1>2

(* A script that is written has its record, and an input that of the       *)
(* output that has its script.                                             *)
LEMMA RecordOf ==
  ASSUME TypeInv, ~rolledBack, RecordsMatchNumbers, LayoutInv, NumberedInv
  PROVE  /\ \A i \in 1..written : res[i].scriptNum # 0 =>
              /\ res[i].scriptNum \in 1..Len(file[KindOf(i)])
              /\ file[KindOf(i)][res[i].scriptNum].hash = nodes[i].hash
         /\ \A i \in 1..Len(res) : nodes[i].io = "in" /\ Source(i) \in 1..written =>
              /\ res[Source(i)].scriptNum # 0 /\ InputNum(i) = res[Source(i)].scriptNum
              /\ InputNum(i) \in 1..Len(file[KindOf(i)])
              /\ file[KindOf(i)][InputNum(i)].hash = nodes[i].hash
<1>1. /\ Len(res) \in Nat /\ written \in Nat /\ written <= Len(res)
      /\ \A i \in 1..written : i \in 1..Len(res)
      /\ \A i \in 1..written : i \in 1..Len(nodes) /\ KindOf(i) \in Kind
  BY NodeFacts
<1>2. \A k \in Kind : DOMAIN file[k] = 1..Len(file[k])
  BY LenProperties DEF TypeInv
<1>3. ASSUME NEW i \in 1..written, res[i].scriptNum # 0
      PROVE  /\ res[i].scriptNum \in 1..Len(file[KindOf(i)])
             /\ file[KindOf(i)][res[i].scriptNum].hash = nodes[i].hash
  BY <1>1, <1>2, <1>3 DEF RecordsMatchNumbers, KindOf
<1>4. ASSUME NEW i \in 1..Len(res), nodes[i].io = "in", Source(i) \in 1..written
      PROVE  /\ res[Source(i)].scriptNum # 0 /\ InputNum(i) = res[Source(i)].scriptNum
             /\ InputNum(i) \in 1..Len(file[KindOf(i)])
             /\ file[KindOf(i)][InputNum(i)].hash = nodes[i].hash
  <2>1. /\ i \in 1..Len(nodes) /\ InputNum(i) = res[Source(i)].scriptNum
        /\ KindOf(Source(i)) = KindOf(i) /\ Source(i) \in 1..Len(res)
    BY <1>4, Referred
  <2>2. /\ nodes[Source(i)].io = "out" /\ nodes[Source(i)].type # "MULTISIG_PUBKEY"
        /\ nodes[Source(i)].hash = nodes[i].hash
    BY <1>4, <2>1 DEF LayoutInv, InputsInv
  <2>3. ~Skipped(nodes[Source(i)])
    BY <2>2 DEF Skipped
  <2>4. res[Source(i)].scriptNum # 0
    BY <2>1, <2>3 DEF NumberedInv
  <2> QED
    BY <1>3, <1>4, <2>1, <2>2, <2>4
<1> QED
  BY <1>3, <1>4

(* The writer handles node w: records evolve, a new one is that of w, and  *)
(* that of w says what it should.                                          *)
LEMMA WrittenHistory ==
  ASSUME TypeInv, TypeInv', ~rolledBack, RecordsMatchNumbers, LayoutInv, NumberedInv,
         RecordsInv, OutInv, InInv, UNCHANGED <<nodes, res>>,
         NEW w, w = written + 1, w \in 1..Len(res), written' = w,
         \A k \in Kind : \A n \in 1..Len(file[k]) :
           /\ n \in 1..Len(file'[k]) /\ Evolves(k, file[k][n], file'[k][n])
           /\ file[k][n].spent = Never =>
                \/ file'[k][n].spent = Never
                \/ nodes[w].io = "in" /\ KindOf(w) = k /\ InputNum(w) = n,
         \A k \in Kind : \A n \in 1..Len(file'[k]) :
           \/ n \in 1..Len(file[k])
           \/ /\ {"hash", "seen", "spent", "data"} \subseteq DOMAIN file'[k][n]
              /\ file'[k][n].seen = nodes[w].tx /\ file'[k][n].spent = Never,
         nodes[w].io = "out" /\ res[w].scriptNum # 0 =>
           OutMatches(w, file'[KindOf(w)][res[w].scriptNum]),
         nodes[w].io = "in" => InMatches(w, file'[KindOf(w)][InputNum(w)])
  PROVE  RecordsInv' /\ OutInv' /\ InInv'
<1>1. /\ Len(res) \in Nat /\ written \in Nat /\ w \in Nat
      /\ \A i \in 1..written : i \in 1..Len(res) /\ i \in 1..Len(nodes) /\ i \in 1..w
      /\ w \in 1..w /\ w \in 1..Len(nodes)
      /\ \A i \in 1..w : i \in 1..written \/ i = w
      /\ \A i \in 1..Len(nodes) : KindOf(i) \in Kind /\ nodes[i].tx \in Nat
  <2>1. Len(res) \in Nat /\ written \in Nat /\ w \in Nat /\ w \in 1..w /\ w \in 1..Len(nodes)
    BY NodeFacts
  <2>2. \A i \in 1..Len(nodes) : KindOf(i) \in Kind /\ nodes[i].tx \in Nat
    BY NodeFacts
  <2>3. \A i \in 1..written : i \in 1..Len(res) /\ i \in 1..w
    BY <2>1
  <2>4. \A i \in 1..Len(res) : i \in 1..Len(nodes)
    BY NodeFacts
  <2> QED
    BY <2>1, <2>2, <2>3, <2>4
<1>2. RecordsInv'
  <2> SUFFICES ASSUME NEW k \in Kind, NEW n \in 1..Len(file'[k])
               PROVE  /\ {"hash", "seen", "spent", "data"} \subseteq DOMAIN file'[k][n]
                      /\ file'[k][n].seen \in Nat
                      /\ \E j \in 1..w : file'[k][n].seen <= nodes[j].tx
                      /\ file'[k][n].spent # Never =>
                           \E i \in 1..w : nodes[i].io = "in" /\ KindOf(i) = k /\ InputNum(i) = n
    <3>1. \A i : KindOf(i)' = KindOf(i) /\ InputNum(i)' = InputNum(i)
      BY DEF KindOf, InputNum
    <3> QED
      BY <3>1 DEF RecordsInv
  <2>1. CASE n \in 1..Len(file[k])
    <3> DEFINE r == file[k][n]
               q == file'[k][n]
    <3>1. /\ r.seen \in Nat /\ \E j \in 1..written : r.seen <= nodes[j].tx
          /\ r.spent # Never =>
               \E i \in 1..written : nodes[i].io = "in" /\ KindOf(i) = k /\ InputNum(i) = n
      BY <2>1 DEF RecordsInv
    <3>2. /\ Evolves(k, r, q)
          /\ r.spent = Never => q.spent = Never \/ (nodes[w].io = "in" /\ KindOf(w) = k /\ InputNum(w) = n)
      BY <2>1
    <3> HIDE DEF r, q
    <3>3. /\ {"hash", "seen", "spent", "data"} \subseteq DOMAIN q /\ q.seen \in Nat
          /\ q.seen <= r.seen
      BY <3>2 DEF Evolves
    <3>4. \E j \in 1..w : q.seen <= nodes[j].tx
      <4>1. PICK j \in 1..written : r.seen <= nodes[j].tx
        BY <3>1
      <4>2. nodes[j].tx \in Nat /\ j \in 1..w
        BY <1>1
      <4>3. q.seen <= nodes[j].tx
        BY <3>1, <3>3, <4>1, <4>2
      <4> QED
        BY <4>2, <4>3
    <3>5. ASSUME q.spent # Never
          PROVE  \E i \in 1..w : nodes[i].io = "in" /\ KindOf(i) = k /\ InputNum(i) = n
      BY <1>1, <3>1, <3>2, <3>5
    <3> QED
      BY <3>3, <3>4, <3>5 DEF q
  <2>2. CASE /\ {"hash", "seen", "spent", "data"} \subseteq DOMAIN file'[k][n]
             /\ file'[k][n].seen = nodes[w].tx /\ file'[k][n].spent = Never
    <3>1. nodes[w].tx \in Nat /\ nodes[w].tx <= nodes[w].tx
      BY <1>1
    <3> QED
      BY <1>1, <2>2, <3>1
  <2> QED
    BY <2>1, <2>2
<1>3. OutInv'
  <2> SUFFICES ASSUME NEW i \in 1..w, nodes[i].io = "out", res[i].scriptNum # 0
               PROVE  OutMatches(i, file'[KindOf(i)][res[i].scriptNum])
    <3>1. \A i : KindOf(i)' = KindOf(i) /\ res'[i] = res[i] /\ nodes'[i] = nodes[i]
      BY DEF KindOf
    <3>2. ASSUME NEW i, OutMatches(i, file'[KindOf(i)][res[i].scriptNum])
          PROVE  OutMatches(i, file[KindOf(i)][res[i].scriptNum])'
      <4> DEFINE q == file'[KindOf(i)][res[i].scriptNum]
      <4>1. file'[KindOf(i)'][res'[i].scriptNum] = q /\ KeysOf(nodes', i) = KeysOf(nodes, i)
            /\ Len(res') = Len(res) /\ \A j : res'[j] = res[j]
        BY <3>1
      <4> HIDE DEF q
      <4>2. OutMatches(i, q)
        BY <3>2 DEF q
      <4> QED
        BY <3>1, <4>1, <4>2 DEF OutMatches
    <3> QED
      BY <3>1, <3>2 DEF OutInv
  <2>1. CASE i \in 1..written
    <3> DEFINE k == KindOf(i)
               n == res[i].scriptNum
    <3>1. k \in Kind /\ n \in 1..Len(file[k]) /\ OutMatches(i, file[k][n]) /\ nodes[i].tx \in Nat
      BY <1>1, <2>1, RecordOf DEF OutInv
    <3>2. Evolves(k, file[k][n], file'[k][n]) /\ file[k][n].seen \in Nat
      BY <3>1 DEF RecordsInv
    <3> QED
      BY <3>1, <3>2, StillMatches
  <2> QED
    BY <1>1, <2>1
<1>4. InInv'
  <2> SUFFICES ASSUME NEW i \in 1..w, nodes[i].io = "in"
               PROVE  InMatches(i, file'[KindOf(i)][InputNum(i)])
    <3>1. /\ \A i : KindOf(i)' = KindOf(i) /\ InputNum(i)' = InputNum(i) /\ Wrapped(i)' = Wrapped(i)
          /\ nodes' = nodes /\ res' = res /\ written' = w
      BY DEF KindOf, InputNum, Wrapped
    <3>2. ASSUME NEW i, InMatches(i, file'[KindOf(i)][InputNum(i)])
          PROVE  InMatches(i, file[KindOf(i)][InputNum(i)])'
      <4> DEFINE q == file'[KindOf(i)][InputNum(i)]
      <4>1. file'[KindOf(i)'][InputNum(i)'] = q
        BY <3>1
      <4>2. InMatches(i, q)
        BY <3>2
      <4> HIDE DEF q
      <4> QED
        BY <3>1, <4>1, <4>2 DEF InMatches
    <3> QED
      BY <3>1, <3>2 DEF InInv
  <2>1. CASE i \in 1..written
    <3> DEFINE k == KindOf(i)
               n == InputNum(i)
    <3>1. Source(i) \in 1..written
      <4>1. i \in 1..Len(res) /\ i \in Nat
        BY <1>1, <2>1
      <4>2. Source(i) \in 1..Len(res) /\ Source(i) < i
        BY <4>1, Referred
      <4> QED
        BY <1>1, <2>1, <4>1, <4>2
    <3>2. k \in Kind /\ n \in 1..Len(file[k]) /\ InMatches(i, file[k][n])
      BY <1>1, <2>1, <3>1, RecordOf DEF InInv
    <3>3. nodes[nodes[i].spends].tx \in Nat
      BY <1>1, <2>1, Referred
    <3>4. Evolves(k, file[k][n], file'[k][n]) /\ file[k][n].seen \in Nat
      BY <3>2 DEF RecordsInv
    <3> QED
      BY <3>2, <3>3, <3>4, StillMatches
  <2> QED
    BY <1>1, <2>1
<1> QED
  BY <1>2, <1>3, <1>4

(* A record changed in place, and the others.                              *)
Puts(l, x, r) == file' = [file EXCEPT ![l][x] = r]
LEMMA PutEffect ==
  ASSUME TypeInv, NEW l \in Kind, NEW x, NEW r, Puts(l, x, r), TypeInv', NEW k \in Kind
  PROVE  /\ Len(file'[k]) = Len(file[k])
         /\ \A n \in 1..Len(file[k]) : file'[k][n] = IF k = l /\ n = x THEN r ELSE file[k][n]
<1>1. /\ DOMAIN file = Kind /\ Len(file[k]) \in Nat /\ DOMAIN file[k] = 1..Len(file[k])
      /\ Len(file'[k]) \in Nat /\ DOMAIN file'[k] = 1..Len(file'[k])
  BY LenProperties DEF TypeInv
<1>2. file' = [file EXCEPT ![l] = [file[l] EXCEPT ![x] = r]]
  BY DEF Puts
<1>3. file'[k] = IF k = l THEN [file[k] EXCEPT ![x] = r] ELSE file[k]
  BY <1>1, <1>2
<1>4. CASE k # l
  BY <1>3, <1>4
<1>5. CASE k = l
  <2>1. file'[k] = [file[k] EXCEPT ![x] = r]
    BY <1>3, <1>5
  <2>2. DOMAIN file'[k] = DOMAIN file[k] /\ \A n \in DOMAIN file[k] : file'[k][n] = IF n = x THEN r ELSE file[k][n]
    BY <2>1
  <2>3. Len(file'[k]) = Len(file[k])
    BY <1>1, <2>2, SameLength
  <2> QED
    BY <1>1, <1>5, <2>2, <2>3
<1> QED
  BY <1>4, <1>5

(* The writer waits for the whole transaction: what belongs to the script  *)
(* at w is resolved.                                                       *)
LEMMA WholeTx ==
  ASSUME TypeInv, LayoutInv, Serialize, NEW w, w = written + 1, w \in 1..Len(res)
  PROVE  /\ \A j \in KeysOf(nodes, w) : j \in 1..Len(res)
         /\ IsScriptHashInput(nodes[w]) => w + 1 \in 1..Len(res)
<1>1. /\ Len(nodes) \in Nat /\ Len(res) \in Nat /\ w \in 1..Len(nodes) /\ w # 0 /\ w \in Nat
      /\ \A j \in 1..Len(nodes) : nodes[j].tx \in Nat
  BY NodeFacts
<1>2. \A j \in (Len(res) + 1)..Len(nodes) : nodes[j].tx > nodes[w].tx
  BY DEF Serialize
<1>3. ASSUME NEW j \in 1..Len(nodes), nodes[j].tx = nodes[w].tx
      PROVE  j \in 1..Len(res)
  <2>1. ~(j \in (Len(res) + 1)..Len(nodes))
    BY <1>1, <1>2, <1>3
  <2> QED
    BY <1>1, <2>1
<1>4. ASSUME NEW j \in KeysOf(nodes, w)
      PROVE  j \in 1..Len(res)
  <2>1. j \in 1..Len(nodes) /\ nodes[j].up = w
    BY LenProperties DEF KeysOf, TypeInv
  <2>2. nodes[w].tx = nodes[j].tx
    BY <1>1, <2>1 DEF LayoutInv, KeysInv
  <2> QED
    BY <1>3, <2>1, <2>2
<1>5. ASSUME IsScriptHashInput(nodes[w])
      PROVE  w + 1 \in 1..Len(res)
  BY <1>1, <1>3, <1>5 DEF LayoutInv, WrapsInv
<1> QED
  BY <1>4, <1>5

(* The record of a new script.                                             *)
LEMMA NewMatches ==
  ASSUME TypeInv, LayoutInv, Serialize, NEW w, w = written + 1, w \in 1..Len(res),
         nodes[w].io = "out"
  PROVE  /\ {"hash", "seen", "spent", "data"} \subseteq DOMAIN NewRecord(w)
         /\ NewRecord(w).seen = nodes[w].tx /\ NewRecord(w).spent = Never
         /\ OutMatches(w, NewRecord(w))
<1>1. /\ {"hash", "seen", "spent", "data"} \subseteq DOMAIN NewRecord(w)
      /\ NewRecord(w).seen = nodes[w].tx /\ NewRecord(w).spent = Never
      /\ NewRecord(w).data = NewData(w)
  BY DEF NewRecord
<1>2. w \in 1..Len(nodes) /\ w \in Nat /\ nodes[w].tx \in Nat
  BY NodeFacts
<1>3. nodes[w].type = "PUBKEY" => NewData(w) = <<"key">>
  BY DEF NewData
<1>4. ASSUME nodes[w].type = "MULTISIG", NEW j \in KeysOf(nodes, w)
      PROVE  j \in 1..Len(res) /\ \E m \in DOMAIN NewData(w) : NewData(w)[m] = res[j].scriptNum
  <2>1. PICK c \in Nat : KeysOf(nodes, w) = (w + 1)..(w + c)
    BY <1>2, <1>4 DEF LayoutInv, KeysInv
  <2>2. Cardinality(KeysOf(nodes, w)) = c
    <3>1. w + 1 \in Int /\ w + c \in Int
      BY <1>2
    <3>2. Cardinality((w + 1)..(w + c)) = IF w + 1 > w + c THEN 0 ELSE (w + c) - (w + 1) + 1
      BY <3>1, FS_Interval
    <3>3. (IF w + 1 > w + c THEN 0 ELSE (w + c) - (w + 1) + 1) = c
      BY <1>2
    <3> QED
      BY <2>1, <3>2, <3>3
  <2>3. NewData(w) = [m \in 1..Cardinality(KeysOf(nodes, w)) |-> res[w + m].scriptNum]
    BY <1>4 DEF NewData
  <2>4. NewData(w) = [m \in 1..c |-> res[w + m].scriptNum]
    BY <2>2, <2>3
  <2>5. j \in (w + 1)..(w + c) /\ j \in 1..Len(res)
    BY <2>1, WholeTx
  <2>6. j - w \in 1..c /\ w + (j - w) = j
    BY <1>2, <2>5
  <2> QED
    BY <2>4, <2>5, <2>6
<1>5. nodes[w].tx <= nodes[w].tx
  BY <1>2
<1> QED
  BY <1>1, <1>3, <1>4, <1>5 DEF OutMatches

(* A record that is left as it was.                                        *)
LEMMA SameEvolves ==
  ASSUME RecordsInv, NEW k \in Kind, NEW n \in 1..Len(file[k])
  PROVE  Evolves(k, file[k][n], file[k][n]) /\ file[k][n].seen \in Nat
<1>1. {"hash", "seen", "spent", "data"} \subseteq DOMAIN file[k][n] /\ file[k][n].seen \in Nat
  BY DEF RecordsInv
<1>2. file[k][n].seen <= file[k][n].seen
  BY <1>1
<1> QED
  BY <1>1, <1>2 DEF Evolves

(* Nothing is later than what the writer is at.                            *)
LEMMA SeenBefore ==
  ASSUME TypeInv, LayoutInv, RecordsInv, NEW w, w = written + 1, w \in 1..Len(res),
         NEW k \in Kind, NEW n \in 1..Len(file[k])
  PROVE  file[k][n].seen <= nodes[w].tx
<1>1. PICK j \in 1..written : file[k][n].seen <= nodes[j].tx
  BY DEF RecordsInv
<1>2. file[k][n].seen \in Nat
  BY DEF RecordsInv
<1>3. j \in 1..Len(nodes) /\ w \in 1..Len(nodes) /\ j <= w /\ nodes[j].tx \in Nat /\ nodes[w].tx \in Nat
  BY NodeFacts
<1>4. nodes[j].tx <= nodes[w].tx
  BY <1>3 DEF LayoutInv, TxOrder
<1> QED
  BY <1>1, <1>2, <1>3, <1>4

(* The record of a script that is spent.                                   *)
LEMMA SpentMatches ==
  ASSUME TypeInv, LayoutInv, NumberedInv, RecordsInv, OutInv, InInv, RecordsMatchNumbers,
         ~rolledBack, Serialize, NEW w, w = written + 1, w \in 1..Len(res), nodes[w].io = "in"
  PROVE  /\ InputNum(w) \in 1..Len(file[KindOf(w)])
         /\ Evolves(KindOf(w), file[KindOf(w)][InputNum(w)],
                    Spend(w, file[KindOf(w)][InputNum(w)]))
         /\ InMatches(w, Spend(w, file[KindOf(w)][InputNum(w)]))
<1> DEFINE k == KindOf(w)
           n == InputNum(w)
           r == file[k][n]
           q == Spend(w, r)
           s == Source(w)
<1>1. /\ w \in 1..Len(nodes) /\ w \in Nat /\ written \in Nat /\ k \in Kind
      /\ nodes[w].type \in DOMAIN DedupType /\ nodes[w].tx \in Nat
      /\ \A j \in 1..Len(nodes) : nodes[j].tx \in Nat /\ KindOf(j) \in Kind
  BY NodeFacts
<1>2. /\ s \in 1..written /\ nodes[w].spends \in 1..Len(nodes) /\ KindOf(s) = k
      /\ nodes[nodes[w].spends].tx \in Nat
  <2>1. /\ s \in 1..Len(res) /\ s < w /\ nodes[w].spends \in 1..Len(nodes) /\ KindOf(s) = k
    BY Referred
  <2>2. s \in 1..written
    BY <1>1, <2>1
  <2> QED
    BY <1>1, <2>1, <2>2
<1>3. /\ res[s].scriptNum # 0 /\ n = res[s].scriptNum /\ n \in 1..Len(file[k])
      /\ r.hash = nodes[w].hash
  BY <1>2, RecordOf
<1>4. nodes[s].io = "out" /\ nodes[s].type = nodes[w].type /\ nodes[w].type # "MULTISIG_PUBKEY"
  BY <1>1 DEF LayoutInv, InputsInv
<1>5. {"hash", "seen", "spent", "data"} \subseteq DOMAIN r /\ r.seen \in Nat
  BY <1>1, <1>3 DEF RecordsInv
<1>6. OutMatches(s, r)
  BY <1>2, <1>3, <1>4 DEF OutInv
<1>7. r.spent # Never =>
        \E i \in 1..written : nodes[i].io = "in" /\ KindOf(i) = k /\ InputNum(i) = n
  BY <1>1, <1>3 DEF RecordsInv
<1> HIDE DEF r
<1>8. /\ Evolves(k, r, q) /\ q.seen <= nodes[nodes[w].spends].tx
      /\ r.spent = Never =>
           /\ q.spent = nodes[w].tx
           /\ nodes[w].type \in {"PUBKEYHASH", "WITNESS_PUBKEYHASH"} => q.data = <<"key">>
           /\ k = "SCRIPTHASH" => q.data = Wrapped(w)
      /\ r.spent # Never => q.spent = r.spent /\ q.data = r.data
  BY <1>1, <1>2, <1>5, SpendEvolves
<1> HIDE DEF q
<1>9. CASE r.spent = Never
  <2>1. q.spent \in Nat /\ q.spent <= nodes[w].tx
    BY <1>1, <1>8, <1>9
  <2>2. k = "PUBKEY" => q.data = <<"key">>
    <3> SUFFICES ASSUME k = "PUBKEY" PROVE q.data = <<"key">>
      OBVIOUS
    <3>1. nodes[w].type \in {"PUBKEY", "PUBKEYHASH", "WITNESS_PUBKEYHASH"}
      BY <1>1, <1>4, KindTypes DEF KindOf
    <3>2. CASE nodes[w].type = "PUBKEY"
      <4>1. r.data = <<"key">>
        BY <1>4, <1>6, <3>2 DEF OutMatches
      <4> QED
        BY <1>8, <4>1 DEF Evolves
    <3>3. CASE nodes[w].type \in {"PUBKEYHASH", "WITNESS_PUBKEYHASH"}
      BY <1>8, <1>9, <3>3
    <3> QED
      BY <3>1, <3>2, <3>3
  <2>3. ASSUME k = "SCRIPTHASH"
        PROVE  \E j \in 1..w : /\ IsScriptHashInput(nodes[j]) /\ nodes[j].hash = nodes[w].hash
                               /\ j + 1 \in 1..Len(res) /\ q.data = Wrapped(j)
    <3>1. IsScriptHashInput(nodes[w])
      BY <2>3 DEF IsScriptHashInput, KindOf
    <3>2. w + 1 \in 1..Len(res) /\ w \in 1..w
      BY <1>1, <3>1, WholeTx
    <3> QED
      BY <1>8, <1>9, <2>3, <3>1, <3>2
  <2>4. InMatches(w, q)
    BY <1>8, <2>1, <2>2, <2>3 DEF InMatches
  <2> QED
    BY <1>3, <1>8, <2>4 DEF q, r
<1>10. CASE r.spent # Never
  <2>1. PICK i \in 1..written : nodes[i].io = "in" /\ KindOf(i) = k /\ InputNum(i) = n
    BY <1>7, <1>10
  <2>2. InMatches(i, r)
    BY <2>1 DEF InInv, r
  <2>3. /\ i \in 1..Len(res) /\ i \in 1..Len(nodes) /\ i \in Nat /\ i <= w
        /\ nodes[i].tx \in Nat
    BY <1>1, NodeFacts
  <2>4. nodes[i].hash = nodes[w].hash
    <3>1. Source(i) \in 1..written
      <4>1. Source(i) \in 1..Len(res) /\ Source(i) < i
        BY <2>1, <2>3, Referred
      <4> QED
        BY <1>1, <2>3, <4>1
    <3>2. file[k][n].hash = nodes[i].hash
      BY <2>1, <2>3, <3>1, RecordOf
    <3> QED
      BY <1>3, <3>2 DEF r
  <2>5. q.spent = r.spent /\ q.data = r.data
    BY <1>8, <1>10
  <2>6. nodes[i].tx <= nodes[w].tx
    BY <1>1, <2>3 DEF LayoutInv, TxOrder
  <2>7. q.spent \in Nat /\ q.spent <= nodes[w].tx
    BY <1>1, <2>2, <2>3, <2>5, <2>6 DEF InMatches
  <2>8. k = "PUBKEY" => q.data = <<"key">>
    BY <2>1, <2>2, <2>5 DEF InMatches
  <2>9. ASSUME k = "SCRIPTHASH"
        PROVE  \E j \in 1..w : /\ IsScriptHashInput(nodes[j]) /\ nodes[j].hash = nodes[w].hash
                               /\ j + 1 \in 1..Len(res) /\ q.data = Wrapped(j)
    <3>1. PICK j \in 1..i : /\ IsScriptHashInput(nodes[j]) /\ nodes[j].hash = nodes[i].hash
                            /\ j + 1 \in 1..Len(res) /\ r.data = Wrapped(j)
      BY <2>1, <2>2, <2>9 DEF InMatches
    <3>2. j \in 1..w
      BY <1>1, <2>3
    <3> QED
      BY <2>4, <2>5, <3>1, <3>2
  <2>10. InMatches(w, q)
    BY <1>8, <2>7, <2>8, <2>9 DEF InMatches
  <2> QED
    BY <1>3, <1>8, <2>10 DEF q, r
<1> QED
  BY <1>9, <1>10

(* The writer appends the record of a new script ...                       *)
LEMMA AppendHistory ==
  ASSUME TypeInv, TypeInv', ~rolledBack, RecordInv, RecordsMatchNumbers, RecordsMatchNumbers',
         HistoryInv, Serialize, NEW w, w = written + 1, w \in 1..Len(res), written' = w,
         UNCHANGED <<rolledBack, nodes, res>>,
         res[w].isNew, nodes[w].io = "out", Appends(w)
  PROVE  RecordsInv' /\ OutInv' /\ InInv'
<1> DEFINE k == KindOf(w)
           N == Len(file[k])
<1>1. LayoutInv /\ NumberedInv /\ RecordsInv /\ OutInv /\ InInv /\ PendingInv
  BY DEF HistoryInv, RecordInv
<1>2. w \in 1..Len(nodes) /\ k \in Kind /\ w \in Nat /\ Len(res) \in Nat /\ res[w].scriptNum \in Nat
  BY NodeFacts
<1>3. /\ \A l \in Kind : /\ file[l] \in Seq(Elements(file[l])) /\ Len(file[l]) \in Nat
                         /\ l # k => file'[l] = file[l]
      /\ file'[k] = Append(file[k], NewRecord(w)) /\ DOMAIN file'[k] = 1..Len(file'[k])
  BY <1>2, LenProperties DEF Appends, TypeInv
<1>4. /\ Len(file'[k]) = N + 1 /\ N \in Nat /\ file'[k][N + 1] = NewRecord(w)
      /\ \A n \in 1..N : file'[k][n] = file[k][n]
  BY <1>2, <1>3, ElementsAppend
<1>5. /\ {"hash", "seen", "spent", "data"} \subseteq DOMAIN NewRecord(w)
      /\ NewRecord(w).seen = nodes[w].tx /\ NewRecord(w).spent = Never
      /\ OutMatches(w, NewRecord(w))
  BY <1>1, NewMatches
<1>6. res[w].scriptNum = N + 1
  <2>1. w \in Pending(k)
    BY <1>2 DEF Pending
  <2>2. N < res[w].scriptNum
    BY <1>1, <1>2, <2>1 DEF PendingInv
  <2>3. w \in 1..written' /\ res'[w].scriptNum # 0
    BY <1>2, <1>4, <2>2
  <2>4. res[w].scriptNum \in DOMAIN file'[k]
    BY <2>3 DEF RecordsMatchNumbers, KindOf
  <2> QED
    BY <1>2, <1>3, <1>4, <2>2, <2>4
<1> HIDE DEF N, k
<1>7. \A l \in Kind : \A n \in 1..Len(file[l]) :
        n \in 1..Len(file'[l]) /\ file'[l][n] = file[l][n]
  <2> TAKE l \in Kind
  <2>1. CASE l = k
    <3>1. 1..N \subseteq 1..(N + 1)
      BY <1>4
    <3> QED
      BY <1>4, <2>1, <3>1 DEF N
  <2>2. CASE l # k
    BY <1>3, <2>2
  <2> QED
    BY <2>1, <2>2
<1>8. \A l \in Kind : \A n \in 1..Len(file[l]) :
        /\ n \in 1..Len(file'[l]) /\ Evolves(l, file[l][n], file'[l][n])
        /\ file[l][n].spent = Never => file'[l][n].spent = Never
  BY <1>1, <1>7, SameEvolves
<1>9. \A l \in Kind : \A n \in 1..Len(file'[l]) :
        n \in 1..Len(file[l]) \/ file'[l][n] = NewRecord(w)
  <2> SUFFICES ASSUME NEW l \in Kind, NEW n \in 1..Len(file'[l]), ~(n \in 1..Len(file[l]))
               PROVE  file'[l][n] = NewRecord(w)
    OBVIOUS
  <2>1. l = k
    BY <1>3
  <2>2. n = N + 1
    BY <1>4, <2>1 DEF N
  <2> QED
    BY <1>4, <2>1, <2>2
<1>10. OutMatches(w, file'[KindOf(w)][res[w].scriptNum])
  BY <1>4, <1>5, <1>6 DEF k
<1>11. \A l \in Kind : \A n \in 1..Len(file'[l]) :
         \/ n \in 1..Len(file[l])
         \/ /\ {"hash", "seen", "spent", "data"} \subseteq DOMAIN file'[l][n]
            /\ file'[l][n].seen = nodes[w].tx /\ file'[l][n].spent = Never
  BY <1>5, <1>9
<1>12. nodes[w].io # "in"
  OBVIOUS
<1> QED
  BY <1>1, <1>8, <1>10, <1>11, <1>12, WrittenHistory

(* ... or changes the one record of a script that has one ...              *)
LEMMA ChangeHistory ==
  ASSUME TypeInv, TypeInv', ~rolledBack, RecordsMatchNumbers, HistoryInv,
         NEW w, w = written + 1, w \in 1..Len(res), written' = w, UNCHANGED <<nodes, res>>,
         NEW k, k = KindOf(w), k \in Kind, NEW x \in 1..Len(file[k]), NEW q,
         Puts(k, x, q), Evolves(k, file[k][x], q),
         file[k][x].spent = Never =>
           q.spent = Never \/ (nodes[w].io = "in" /\ InputNum(w) = x),
         nodes[w].io = "out" => x = res[w].scriptNum /\ OutMatches(w, q),
         nodes[w].io = "in" => x = InputNum(w) /\ InMatches(w, q)
  PROVE  RecordsInv' /\ OutInv' /\ InInv'
<1>1. LayoutInv /\ NumberedInv /\ RecordsInv /\ OutInv /\ InInv
  BY DEF HistoryInv
<1>2. \A l \in Kind :
        /\ Len(file'[l]) = Len(file[l])
        /\ \A n \in 1..Len(file[l]) : file'[l][n] = IF l = k /\ n = x THEN q ELSE file[l][n]
  <2> SUFFICES ASSUME NEW l \in Kind
               PROVE  /\ Len(file'[l]) = Len(file[l])
                      /\ \A n \in 1..Len(file[l]) :
                           file'[l][n] = IF l = k /\ n = x THEN q ELSE file[l][n]
    OBVIOUS
  <2> QED
    BY PutEffect
<1>3. file'[k][x] = q
  BY <1>2
<1>4. \A l \in Kind : \A n \in 1..Len(file[l]) :
        /\ n \in 1..Len(file'[l]) /\ Evolves(l, file[l][n], file'[l][n])
        /\ file[l][n].spent = Never =>
             \/ file'[l][n].spent = Never
             \/ nodes[w].io = "in" /\ KindOf(w) = l /\ InputNum(w) = n
  BY <1>1, <1>2, SameEvolves
<1>5. \A l \in Kind : \A n \in 1..Len(file'[l]) : n \in 1..Len(file[l])
  BY <1>2
<1>6. /\ nodes[w].io = "out" => OutMatches(w, file'[KindOf(w)][res[w].scriptNum])
      /\ nodes[w].io = "in" => InMatches(w, file'[KindOf(w)][InputNum(w)])
  BY <1>3
<1> QED
  BY <1>1, <1>4, <1>5, <1>6, WrittenHistory

(* ... or passes over a key that was not resolved.                         *)
LEMMA SerializeHistory ==
  ASSUME BookInv, RecordInv, HistoryInv, Serialize
  PROVE  HistoryInv'
<1> SUFFICES ASSUME ~rolledBack
             PROVE  LayoutInv' /\ NumberedInv' /\ RecordsInv' /\ OutInv' /\ InInv'
  BY DEF HistoryInv, Serialize
<1> DEFINE w == written + 1
           k == KindOf(w)
<1>1. /\ TypeInv /\ TypeInv' /\ RecordsMatchNumbers /\ RecordsMatchNumbers'
      /\ LayoutInv /\ NumberedInv /\ RecordsInv /\ OutInv /\ InInv /\ NewInv
  <2>1. BookInv' /\ RecordInv'
    BY SerializeStep, SerializeRecord
  <2>2. RecordsMatchNumbers /\ RecordsMatchNumbers'
    BY <2>1, NumbersMatch, PTL
  <2> QED
    BY <2>1, <2>2 DEF BookInv, HistoryInv, RecordInv
<1>2. /\ w \in 1..Len(res) /\ w \in 1..Len(nodes) /\ k \in Kind /\ written' = w
      /\ UNCHANGED <<rolledBack, nodes, unspent, res>>
  BY SerializeCases
<1>3. IF nodes[w].io = "out" THEN WriteOutput(w) ELSE WriteInput(w)
  BY DEF Serialize
<1>4. w = written + 1 /\ k = KindOf(w) /\ nodes[w].io \in {"in", "out"}
  BY <1>1, <1>2, NodeFacts
<1>5. k = DedupType[nodes[w].type]
  BY DEF KindOf
<1> HIDE DEF w, k
<1>6. LayoutInv'
  BY <1>1, <1>2, LayoutKept
<1>7. NumberedInv'
  BY <1>1, <1>2 DEF NumberedInv, Skipped
<1>8. CASE nodes[w].io = "out" /\ res[w].isNew
  <2>1. Appends(w)
    BY <1>3, <1>8 DEF WriteOutput, Appends, KindOf
  <2> QED
    BY <1>1, <1>2, <1>4, <1>6, <1>7, <1>8, <2>1, AppendHistory
<1>9. CASE nodes[w].io = "out" /\ ~res[w].isNew /\ Skipped(nodes[w])
  <2>1. file' = file /\ res[w].scriptNum = 0
    BY <1>1, <1>2, <1>3, <1>9 DEF WriteOutput, NumberedInv
  <2>2. \A l \in Kind : \A n \in 1..Len(file[l]) :
          /\ n \in 1..Len(file'[l]) /\ Evolves(l, file[l][n], file'[l][n])
          /\ file[l][n].spent = Never => file'[l][n].spent = Never
    BY <1>1, <2>1, SameEvolves
  <2>3. \A l \in Kind : \A n \in 1..Len(file'[l]) : n \in 1..Len(file[l])
    BY <2>1
  <2>4. nodes[w].io # "in"
    BY <1>9
  <2> QED
    BY <1>1, <1>2, <1>4, <1>6, <1>7, <2>1, <2>2, <2>3, <2>4, WrittenHistory
<1>10. CASE nodes[w].io = "out" /\ ~res[w].isNew /\ ~Skipped(nodes[w])
  <2> DEFINE x == res[w].scriptNum
             r == file[k][x]
             q == Known(nodes[w], r)
  <2>1. Puts(k, x, q)
    BY <1>3, <1>5, <1>10 DEF WriteOutput, Puts
  <2>2. x # 0
    BY <1>1, <1>2, <1>10 DEF NumberedInv
  <2>3. x \in 1..Len(file[k])
    <3>1. w \in 1..written' /\ res'[w].scriptNum = x
      BY <1>1, <1>2, NodeFacts
    <3>2. x \in DOMAIN file'[k]
      BY <1>1, <1>2, <1>5, <2>2, <3>1 DEF RecordsMatchNumbers
    <3>3. DOMAIN file'[k] = 1..Len(file'[k]) /\ Len(file'[k]) = Len(file[k])
      <4> HIDE DEF q
      <4>1. Len(file'[k]) = Len(file[k])
        BY <1>1, <1>2, <2>1, PutEffect
      <4>2. file'[k] \in Seq(Elements(file'[k]))
        BY <1>1, <1>2 DEF TypeInv
      <4> QED
        BY <4>1, <4>2, LenProperties
    <3> QED
      BY <3>2, <3>3
  <2>4. {"hash", "seen", "spent", "data"} \subseteq DOMAIN r /\ r.seen \in Nat
    BY <1>1, <1>2, <2>3 DEF RecordsInv
  <2>5. r.seen <= nodes[w].tx
    BY <1>1, <1>2, <1>4, <2>3, SeenBefore
  <2>6. /\ Evolves(k, r, q) /\ q.seen = r.seen /\ q.spent = r.spent
        /\ nodes[w].type = "PUBKEY" => q.data = <<"key">>
    <3>1. /\ Evolves(DedupType[nodes[w].type], r, q) /\ q.seen = r.seen /\ q.spent = r.spent
          /\ nodes[w].type = "PUBKEY" => q.data = <<"key">>
      <4> HIDE DEF r
      <4> QED
        BY <2>4, KnownEvolves, Zenon
    <3> QED
      BY <1>5, <3>1, Zenon
  <2>7. OutMatches(w, q)
    BY <1>10, <2>5, <2>6 DEF OutMatches
  <2>8. nodes[w].io # "in"
    BY <1>10
  <2>9. RecordsInv' /\ OutInv' /\ InInv'
    BY <1>1, <1>2, <1>4, <2>1, <2>3, <2>6, <2>7, <2>8, ChangeHistory
  <2> QED
    BY <1>6, <1>7, <2>9
<1>11. CASE nodes[w].io = "in"
  <2> DEFINE x == InputNum(w)
             r == file[k][x]
             q == Spend(w, r)
  <2>1. Puts(k, x, q)
    BY <1>3, <1>5, <1>11 DEF WriteInput, Puts
  <2>2. x \in 1..Len(file[k]) /\ Evolves(k, r, q) /\ InMatches(w, q)
    BY <1>1, <1>2, <1>4, <1>11, SpentMatches
  <2>3. nodes[w].io # "out"
    BY <1>11
  <2>4. RecordsInv' /\ OutInv' /\ InInv'
    BY <1>1, <1>2, <1>4, <1>11, <2>1, <2>2, <2>3, ChangeHistory
  <2> QED
    BY <1>6, <1>7, <2>4
<1> QED
  BY <1>4, <1>8, <1>9, <1>10, <1>11

(* Until a rollback, the records tell the history of the scripts that were *)
(* written: each was seen no later than any of its outputs and spent no    *)
(* later than any of its inputs, and keeps what the first one revealed.    *)
THEOREM HistoryInvariance == Spec => []HistoryInv
<1>1. BookInv /\ RecordInv /\ HistoryInv /\ [Next]_vars => HistoryInv'
  <2> SUFFICES ASSUME BookInv, RecordInv, HistoryInv, [Next]_vars PROVE HistoryInv'
    OBVIOUS
  <2>1. CASE Rollback
    BY <2>1 DEF Rollback, HistoryInv
  <2> QED
    BY <2>1, OpenCloseHistory, AddTxHistory, SkipHistory, ResolveHistory, SerializeHistory DEF Next
<1> QED
  BY HistoryInit, BookInvariance, RecordInvariance, <1>1, PTL DEF Spec

(* An input finds the key or the script that its output stands for, in the *)
(* record of the output, and the keys of a multisig script are found.      *)
LEMMA Revealed ==
  ASSUME BookInv, RecordInv, HistoryInv
  PROVE  SpentScriptsAreRevealed
<1> SUFFICES ASSUME ~rolledBack, NEW i \in 1..written
             PROVE  LET n == nodes[i]
                        r == file[DedupType[n.type]][InputNum(i)]
                    IN  IF n.io = "in" /\ DedupType[n.type] = "SCRIPTHASH"
                          THEN (i < written) =>
                                 /\ Len(r.data) = 2
                                 /\ file[DedupType[r.data[1]]][r.data[2]].hash = nodes[i + 1].hash
                        ELSE IF n.io = "in" /\ DedupType[n.type] = "PUBKEY" THEN r.data = <<"key">>
                        ELSE n.type = "MULTISIG" /\ res[i].isNew /\ written = Len(nodes) =>
                               \A j \in DOMAIN nodes :
                                 nodes[j].type = "MULTISIG_PUBKEY" /\ nodes[j].up = i =>
                                   \E m \in DOMAIN file["MULTISIG"][res[i].scriptNum].data :
                                     file["PUBKEY"][file["MULTISIG"][res[i].scriptNum].data[m]].hash
                                       = nodes[j].hash
  BY DEF SpentScriptsAreRevealed
<1> DEFINE r == file[KindOf(i)][InputNum(i)]
<1>1. /\ TypeInv /\ RecordsMatchNumbers /\ LayoutInv /\ NumberedInv /\ RecordsInv /\ OutInv /\ InInv
      /\ NewInv
  BY NumbersMatch DEF BookInv, RecordInv, HistoryInv
<1>2. /\ i \in 1..Len(res) /\ i \in 1..Len(nodes) /\ i \in Nat /\ written \in Nat
      /\ written <= Len(res) /\ KindOf(i) \in Kind
  BY <1>1, NodeFacts
<1>3. ASSUME nodes[i].io = "in", KindOf(i) = "SCRIPTHASH", i < written
      PROVE  /\ Len(r.data) = 2
             /\ file[DedupType[r.data[1]]][r.data[2]].hash = nodes[i + 1].hash
  <2>1. InMatches(i, r)
    BY <1>1, <1>3 DEF InInv
  <2> HIDE DEF r
  <2>2. PICK j \in 1..i : /\ IsScriptHashInput(nodes[j]) /\ nodes[j].hash = nodes[i].hash
                          /\ j + 1 \in 1..Len(res) /\ r.data = Wrapped(j)
    BY <1>3, <2>1 DEF InMatches
  <2>3. j \in 1..Len(nodes) /\ j + 1 \in 1..written /\ IsScriptHashInput(nodes[i])
    BY <1>2, <1>3, NodeFacts, <1>1 DEF IsScriptHashInput, KindOf
  <2>4. /\ nodes[j + 1].io = "out" /\ nodes[j + 1].type # "MULTISIG_PUBKEY"
        /\ nodes[j + 1].hash = nodes[i + 1].hash
    <3>1. /\ nodes[j + 1].io = "out" /\ nodes[j + 1].type # "MULTISIG_PUBKEY"
          /\ \E s \in TxShapes : \E m \in DOMAIN s :
               /\ IsScriptHashInput(s[m]) /\ s[m].hash = nodes[j].hash
               /\ s[m + 1].hash = nodes[j + 1].hash
          /\ \E s \in TxShapes : \E m \in DOMAIN s :
               /\ IsScriptHashInput(s[m]) /\ s[m].hash = nodes[i].hash
               /\ s[m + 1].hash = nodes[i + 1].hash
      BY <1>1, <1>2, <2>2, <2>3 DEF LayoutInv, WrapsInv
    <3> QED
      BY <2>2, <3>1, TreeAssumption
  <2>5. res[j + 1].scriptNum # 0
    BY <1>1, <2>2, <2>4 DEF NumberedInv, Skipped
  <2>6. file[KindOf(j + 1)][res[j + 1].scriptNum].hash = nodes[j + 1].hash
    BY <1>1, <2>3, <2>5, RecordOf
  <2>7. Len(r.data) = 2 /\ r.data[1] = nodes[j + 1].type /\ r.data[2] = res[j + 1].scriptNum
    BY <2>2 DEF Wrapped
  <2> QED
    BY <2>4, <2>6, <2>7 DEF KindOf
<1>4. ASSUME nodes[i].io = "in", KindOf(i) = "PUBKEY"
      PROVE  r.data = <<"key">>
  BY <1>1, <1>4 DEF InInv, InMatches
<1>5. ASSUME nodes[i].type = "MULTISIG", res[i].isNew, written = Len(nodes),
             NEW j \in DOMAIN nodes, nodes[j].type = "MULTISIG_PUBKEY", nodes[j].up = i
      PROVE  \E m \in DOMAIN file["MULTISIG"][res[i].scriptNum].data :
               file["PUBKEY"][file["MULTISIG"][res[i].scriptNum].data[m]].hash = nodes[j].hash
  <2> DEFINE q == file["MULTISIG"][res[i].scriptNum]
  <2>1. nodes[i].io = "out" /\ KindOf(i) = "MULTISIG"
    BY <1>1, <1>2, <1>5, KindTypes DEF NewInv, KindOf
  <2>2. res[i].scriptNum # 0
    BY <1>1, <1>2, <1>5, <2>1 DEF NumberedInv, Skipped
  <2>3. OutMatches(i, q)
    BY <1>1, <2>1, <2>2 DEF OutInv
  <2> HIDE DEF q
  <2>4. j \in 1..Len(nodes) /\ j \in 1..written /\ j \in 1..Len(res)
    <3>1. j \in 1..Len(nodes)
      BY <1>1, LenProperties DEF TypeInv
    <3> QED
      BY <1>2, <1>5, <3>1
  <2>5. nodes[j].io = "out" /\ j \in KeysOf(nodes, i)
    BY <1>1, <1>5, <2>4 DEF LayoutInv, KeysInv, KeysOf
  <2>6. PICK m \in DOMAIN q.data : q.data[m] = res[j].scriptNum
    BY <1>5, <2>3, <2>5 DEF OutMatches
  <2>7. res[j].scriptNum # 0
    BY <1>1, <1>5, <2>4, <2>5 DEF NumberedInv, Skipped
  <2>8. KindOf(j) = "PUBKEY"
    BY <1>5 DEF KindOf, DedupType
  <2>9. file["PUBKEY"][res[j].scriptNum].hash = nodes[j].hash
    BY <1>1, <2>4, <2>7, <2>8, RecordOf
  <2> QED
    BY <2>6, <2>9 DEF q
<1> QED
  BY <1>3, <1>4, <1>5 DEF KindOf

(* A record says when its script was first seen, and first spent.          *)
LEMMA Earliest ==
  ASSUME BookInv, RecordInv, HistoryInv
  PROVE  FirstSeenIsEarliest
<1> SUFFICES ASSUME ~rolledBack, written = Len(nodes), NEW i \in DOMAIN nodes
             PROVE  /\ nodes[i].io = "out" /\ nodes[i].up = 0 =>
                         file[KindOf(i)][res[i].scriptNum].seen <= nodes[i].tx
                    /\ nodes[i].io = "in" =>
                         /\ file[KindOf(i)][InputNum(i)].seen <= nodes[nodes[i].spends].tx
                         /\ file[KindOf(i)][InputNum(i)].spent <= nodes[i].tx
  BY DEF FirstSeenIsEarliest, KindOf
<1>1. TypeInv /\ LayoutInv /\ NumberedInv /\ OutInv /\ InInv
  BY DEF BookInv, HistoryInv
<1>2. i \in 1..Len(nodes) /\ i \in 1..written /\ i \in 1..Len(res)
  <2>1. i \in 1..Len(nodes) /\ Len(nodes) \in Nat /\ Len(res) \in Nat /\ Len(nodes) <= Len(res)
    BY <1>1, LenProperties, NodeFacts DEF TypeInv
  <2> QED
    BY <2>1
<1>3. ASSUME nodes[i].io = "out", nodes[i].up = 0
      PROVE  file[KindOf(i)][res[i].scriptNum].seen <= nodes[i].tx
  <2>1. nodes[i].type # "MULTISIG_PUBKEY"
    <3>1. 0 \notin 1..(i - 1)
      BY <1>2
    <3> QED
      BY <1>1, <1>2, <1>3, <3>1 DEF LayoutInv, KeysInv
  <2>2. res[i].scriptNum # 0
    BY <1>1, <1>2, <1>3, <2>1 DEF NumberedInv, Skipped
  <2> QED
    BY <1>1, <1>2, <1>3, <2>2 DEF OutInv, OutMatches
<1>4. ASSUME nodes[i].io = "in"
      PROVE  /\ file[KindOf(i)][InputNum(i)].seen <= nodes[nodes[i].spends].tx
             /\ file[KindOf(i)][InputNum(i)].spent <= nodes[i].tx
  BY <1>1, <1>2, <1>4 DEF InInv, InMatches
<1> QED
  BY <1>3, <1>4

(* The records tell the history of their scripts, in what they reveal and  *)
(* in when, although AddressWriter updates them in place in any order of   *)
(* outputs, inputs and wrapped scripts.                                    *)
THEOREM RecordsTellHistory == Spec => []RecordsMatchHistory
<1>1. BookInv /\ RecordInv /\ HistoryInv => RecordsMatchHistory
  BY Revealed, Earliest DEF RecordsMatchHistory
<1> QED
  BY BookInvariance, RecordInvariance, HistoryInvariance, <1>1, PTL
=============================================================================
