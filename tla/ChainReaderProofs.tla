------------------------- MODULE ChainReaderProofs -------------------------
(***************************************************************************)
(* A reader of the chain files does not read another chain unnoticed,      *)
(* whatever a parser does to the files between its accesses, and reads     *)
(* everything if the parser rested when they were mapped.  The argument    *)
(* has three parts.  In a block tree, what ends in a block determines      *)
(* everything below it (Prefixes) and where each transaction lies          *)
(* (Located).  At every moment, in the middle of a rollback as well, there *)
(* is one chain of which every file holds a first part (OneChainInv); so   *)
(* that finding the last loaded block in its place, which is all that      *)
(* reorgCheck does, puts every entry below it in its place, too.  And an   *)
(* update that takes this block away does not bring it back (CallInv): a   *)
(* later check that finds it was preceded by nothing else.                 *)
(***************************************************************************)
EXTENDS ChainReader, TLAPS, SequenceTheorems, WellFoundedInduction

-----------------------------------------------------------------------------
Less == {ss \in Nat \X Nat : ss[1] < ss[2]}

(* A set of natural numbers has a least one.                               *)
LEMMA LeastNumber ==
  ASSUME NEW T, T \subseteq Nat, T # {}
  PROVE  \E x \in T : \A y \in T : x <= y
<1>1. IsWellFoundedOn(Less, Nat)
  BY NatLessThanWellFounded, Zenon DEF OpToRel, Less
<1>2. PICK x \in T : \A y \in T : ~(<<y, x>> \in Less)
  BY <1>1, WFMin
<1>3. \A y \in T : x <= y
  <2> TAKE y \in T
  <2>1. x \in Nat /\ y \in Nat /\ ~(<<y, x>> \in Less)
    BY <1>2
  <2>2. ~(y < x)
    BY <2>1 DEF Less
  <2> QED
    BY <2>1, <2>2
<1> QED
  BY <1>3

-----------------------------------------------------------------------------
Node == Block \cup {Root}
Height(b) == Len(Chain[b])
Count(b)  == Len(Txes[b])

(* Chains and transactions are sequences.                                  *)
LEMMA Sequences ==
  ASSUME NEW b \in Node
  PROVE  /\ Chain[b] \in Seq(Block) /\ Txes[b] \in Seq(Block \X Nat)
         /\ Height(b) \in Nat /\ Count(b) \in Nat
         /\ DOMAIN Chain[b] = 1..Height(b) /\ DOMAIN Txes[b] = 1..Count(b)
<1>1. CASE b = Root
  <2>1. Chain[b] = <<>> /\ Txes[b] = <<>>
    BY <1>1, ChainAssumption, Zenon
  <2> QED
    BY <2>1 DEF Height, Count
<1>2. CASE b \in Block
  <2>1. Chain[b] \in Seq(Block) /\ Txes[b] \in Seq(Block \X Nat)
    BY <1>2, ChainAssumption, Zenon
  <2> QED
    BY <2>1, LenProperties DEF Height, Count
<1> QED
  BY <1>1, <1>2 DEF Node

(* A block's chain is that of its parent, and the block.                   *)
LEMMA ChainUnfolded ==
  ASSUME NEW b \in Block
  PROVE  /\ Parent[b] \in Node
         /\ Height(b) = Height(Parent[b]) + 1 /\ Chain[b][Height(b)] = b
         /\ \A i \in 1..Height(Parent[b]) : Chain[b][i] = Chain[Parent[b]][i]
<1>1. Parent[b] \in Node
  BY TreeAssumption DEF Node
<1>2. Chain[Parent[b]] \in Seq(Block) /\ Chain[b] = Append(Chain[Parent[b]], b)
  BY <1>1, Sequences, ChainAssumption
<1>3. \A i \in 1..Len(Chain[Parent[b]]) : Chain[b][i] = Chain[Parent[b]][i]
  BY <1>2, AppendProperties
<1>4. /\ Len(Chain[b]) = Len(Chain[Parent[b]]) + 1
      /\ Chain[b][Len(Chain[Parent[b]]) + 1] = b
  BY <1>2, AppendProperties
<1> QED
  BY <1>1, <1>3, <1>4 DEF Height

(* The elements of two sequences put together.                             *)
LEMMA Joined ==
  ASSUME NEW S, NEW s \in Seq(S), NEW t \in Seq(S), NEW r, r = s \o t
  PROVE  /\ Len(s) \in Nat /\ Len(r) = Len(s) + Len(t)
         /\ \A i \in 1..Len(s) : r[i] = s[i]
         /\ \A i \in (Len(s) + 1)..Len(r) : r[i] = t[i - Len(s)] /\ i - Len(s) \in 1..Len(t)
<1>1. /\ Len(r) = Len(s) + Len(t)
      /\ \A i \in 1..(Len(s) + Len(t)) : r[i] = IF i <= Len(s) THEN s[i] ELSE t[i - Len(s)]
  BY ConcatProperties
<1>2. Len(s) \in Nat /\ Len(t) \in Nat
  BY LenProperties
<1> QED
  BY <1>1, <1>2

(* Its transactions are those of its parent, and its own.                  *)
LEMMA TxesUnfolded ==
  ASSUME NEW b \in Block
  PROVE  /\ NumTxes[b] \in Nat \ {0} /\ Count(b) = Count(Parent[b]) + NumTxes[b]
         /\ \A i \in 1..Count(Parent[b]) : Txes[b][i] = Txes[Parent[b]][i]
         /\ \A i \in (Count(Parent[b]) + 1)..Count(b) : Txes[b][i] = <<b, i - Count(Parent[b])>>
<1> DEFINE own == [k \in 1..NumTxes[b] |-> <<b, k>>]
<1>1. Parent[b] \in Node /\ NumTxes[b] \in Nat \ {0}
  BY TreeAssumption DEF Node
<1>2. Txes[Parent[b]] \in Seq(Block \X Nat) /\ Txes[b] = Txes[Parent[b]] \o own
  BY <1>1, Sequences, ChainAssumption
<1>3. own \in Seq(Block \X Nat) /\ Len(own) = NumTxes[b] /\ \A k \in 1..NumTxes[b] : own[k] = <<b, k>>
  <2>1. \A k \in 1..NumTxes[b] : <<b, k>> \in Block \X Nat
    OBVIOUS
  <2>2. own \in [1..NumTxes[b] -> Block \X Nat]
    BY <2>1
  <2> QED
    BY <1>1, <2>2
<1> HIDE DEF own
<1> DEFINE s == Txes[Parent[b]]
           r == Txes[b]
<1>4. s \in Seq(Block \X Nat) /\ r = s \o own
  BY <1>2
<1> HIDE DEF s, r
<1>5. /\ Len(s) \in Nat /\ Len(r) = Len(s) + Len(own)
      /\ \A i \in 1..Len(s) : r[i] = s[i]
      /\ \A i \in (Len(s) + 1)..Len(r) : r[i] = own[i - Len(s)] /\ i - Len(s) \in 1..Len(own)
  <2> DEFINE S == Block \X Nat
  <2>1. s \in Seq(S) /\ own \in Seq(S)
    BY <1>3, <1>4
  <2> HIDE DEF S
  <2> QED
    BY <1>4, <2>1, Joined
<1>6. \A i \in (Len(s) + 1)..Len(r) : r[i] = <<b, i - Len(s)>>
  BY <1>3, <1>5
<1>7. Count(b) = Count(Parent[b]) + NumTxes[b]
  BY <1>3, <1>5 DEF Count, s, r
<1>8. \A i \in 1..Count(Parent[b]) : Txes[b][i] = Txes[Parent[b]][i]
  BY <1>5, Zenon DEF Count, s, r
<1>9. \A i \in (Count(Parent[b]) + 1)..Count(b) : Txes[b][i] = <<b, i - Count(Parent[b])>>
  BY <1>6, Zenon DEF Count, s, r
<1> QED
  BY <1>1, <1>7, <1>8, <1>9

(* Only the root's chain is empty.                                         *)
LEMMA RootIsLow ==
  /\ Height(Root) = 0 /\ Count(Root) = 0
  /\ \A b \in Node : Height(b) = 0 => b = Root
<1>1. Height(Root) = 0 /\ Count(Root) = 0
  BY ChainAssumption DEF Height, Count
<1>2. ASSUME NEW b \in Block
      PROVE  Height(b) # 0
  <2>1. Height(b) = Height(Parent[b]) + 1 /\ Parent[b] \in Node
    BY ChainUnfolded
  <2>2. Height(Parent[b]) \in Nat
    BY <2>1, Sequences
  <2> QED
    BY <2>1, <2>2
<1> QED
  BY <1>1, <1>2 DEF Node

-----------------------------------------------------------------------------
(* The blocks of a chain end chains that are its first parts, and so are   *)
(* their transactions.                                                     *)
PrefixAt(b, k) ==
  LET c == Chain[b][k]
  IN  /\ c \in Block /\ Height(c) = k /\ Count(c) <= Count(b)
      /\ \A i \in 1..k : Chain[c][i] = Chain[b][i]
      /\ \A i \in 1..Count(c) : Txes[c][i] = Txes[b][i]

PrefixHolds(b) == \A k \in 1..Height(b) : PrefixAt(b, k)

(* A transaction lies in the range of its block.                           *)
LiesIn(c, i) == Count(Parent[c]) < i /\ i <= Count(c)

LocatedAt(b, i) ==
  \E k \in 1..Height(b) : Txes[b][i][1] = Chain[b][k] /\ LiesIn(Chain[b][k], i)

LocatedHolds(b) == \A i \in 1..Count(b) : LocatedAt(b, i)

LEMMA PrefixStep ==
  ASSUME NEW b \in Block, Parent[b] \in Block => PrefixHolds(Parent[b])
  PROVE  PrefixHolds(b)
<1> DEFINE p == Parent[b]
<1>1. /\ p \in Node /\ Height(b) = Height(p) + 1 /\ Chain[b][Height(b)] = b
      /\ \A i \in 1..Height(p) : Chain[b][i] = Chain[p][i]
  BY ChainUnfolded
<1>2. Height(p) \in Nat /\ Count(p) \in Nat /\ Height(b) \in Nat /\ Count(b) \in Nat
  BY <1>1, Sequences DEF Node
<1>3. /\ NumTxes[b] \in Nat \ {0} /\ Count(b) = Count(p) + NumTxes[b]
      /\ \A i \in 1..Count(p) : Txes[b][i] = Txes[p][i]
  BY TxesUnfolded
<1> SUFFICES ASSUME NEW k \in 1..Height(b)
             PROVE  PrefixAt(b, k)
  BY DEF PrefixHolds
<1>4. CASE k = Height(b)
  BY <1>1, <1>2, <1>4 DEF PrefixAt
<1>5. CASE k # Height(b)
  <2>1. k \in 1..Height(p)
    BY <1>1, <1>2, <1>5
  <2>2. p \in Block
    BY <1>1, <1>2, <2>1, RootIsLow DEF Node
  <2> DEFINE c == Chain[p][k]
  <2>3. PrefixAt(p, k)
    BY <2>1, <2>2 DEF PrefixHolds
  <2>4. /\ c \in Block /\ Height(c) = k /\ Count(c) <= Count(p)
        /\ \A i \in 1..k : Chain[c][i] = Chain[p][i]
        /\ \A i \in 1..Count(c) : Txes[c][i] = Txes[p][i]
    BY <2>3 DEF PrefixAt
  <2>5. Chain[b][k] = c
    BY <1>1, <2>1
  <2>6. \A i \in 1..k : Chain[c][i] = Chain[b][i]
    BY <1>1, <1>2, <2>1, <2>4
  <2>7. Count(c) \in Nat
    BY <2>4, Sequences DEF Node
  <2>8. Count(c) <= Count(b) /\ \A i \in 1..Count(c) : Txes[c][i] = Txes[b][i]
    BY <1>2, <1>3, <2>4, <2>7
  <2> QED
    BY <2>4, <2>5, <2>6, <2>8 DEF PrefixAt
<1> QED
  BY <1>4, <1>5

LEMMA LocatedStep ==
  ASSUME NEW b \in Block, Parent[b] \in Block => LocatedHolds(Parent[b])
  PROVE  LocatedHolds(b)
<1> DEFINE p == Parent[b]
<1>1. /\ p \in Node /\ Height(b) = Height(p) + 1 /\ Chain[b][Height(b)] = b
      /\ \A i \in 1..Height(p) : Chain[b][i] = Chain[p][i]
  BY ChainUnfolded
<1>2. Height(p) \in Nat /\ Count(p) \in Nat /\ Height(b) \in Nat /\ Count(b) \in Nat
  BY <1>1, Sequences DEF Node
<1>3. /\ NumTxes[b] \in Nat \ {0} /\ Count(b) = Count(p) + NumTxes[b]
      /\ \A i \in 1..Count(p) : Txes[b][i] = Txes[p][i]
      /\ \A i \in (Count(p) + 1)..Count(b) : Txes[b][i] = <<b, i - Count(p)>>
  BY TxesUnfolded
<1> SUFFICES ASSUME NEW i \in 1..Count(b)
             PROVE  LocatedAt(b, i)
  BY DEF LocatedHolds
<1>4. CASE i \in 1..Count(p)
  <2>1. p \in Block
    BY <1>1, <1>2, <1>4, RootIsLow DEF Node
  <2>2. LocatedAt(p, i)
    BY <1>4, <2>1 DEF LocatedHolds
  <2>3. PICK k \in 1..Height(p) : Txes[p][i][1] = Chain[p][k] /\ LiesIn(Chain[p][k], i)
    BY <2>2 DEF LocatedAt
  <2>4. Chain[b][k] = Chain[p][k] /\ Txes[b][i] = Txes[p][i] /\ k \in 1..Height(b)
    BY <1>1, <1>2, <1>3, <1>4
  <2>5. Txes[b][i][1] = Chain[b][k] /\ LiesIn(Chain[b][k], i)
    BY <2>3, <2>4
  <2> QED
    BY <2>4, <2>5 DEF LocatedAt
<1>5. CASE i \in (Count(p) + 1)..Count(b)
  <2>1. Txes[b][i] = <<b, i - Count(p)>>
    BY <1>3, <1>5
  <2>2. LiesIn(b, i)
    BY <1>2, <1>5 DEF LiesIn
  <2>3. Txes[b][i][1] = Chain[b][Height(b)] /\ LiesIn(Chain[b][Height(b)], i)
    BY <1>1, <2>1, <2>2
  <2>4. Height(b) \in 1..Height(b)
    BY <1>1, <1>2
  <2> QED
    BY <2>3, <2>4 DEF LocatedAt
<1> QED
  BY <1>2, <1>3, <1>4, <1>5

(* Every block has both: one of least height that has not would have a     *)
(* parent that has.                                                        *)
LEMMA TreeInduction ==
  ASSUME NEW b \in Block
  PROVE  PrefixHolds(b) /\ LocatedHolds(b)
<1> DEFINE Bad == {x \in Block : ~(PrefixHolds(x) /\ LocatedHolds(x))}
           Depths == {Height(x) : x \in Bad}
<1> SUFFICES ASSUME Bad # {}
             PROVE  FALSE
  OBVIOUS
<1>1. Depths \subseteq Nat /\ Depths # {}
  BY Sequences DEF Node
<1>2. PICK d \in Depths : \A e \in Depths : d <= e
  <2> HIDE DEF Depths
  <2> QED
    BY <1>1, LeastNumber
<1>3. PICK x \in Bad : d = Height(x)
  OBVIOUS
<1>4. x \in Block /\ ~(PrefixHolds(x) /\ LocatedHolds(x))
  OBVIOUS
<1> DEFINE p == Parent[x]
<1>5. p \in Node /\ Height(x) = Height(p) + 1
  BY <1>4, ChainUnfolded
<1>6. Height(p) \in Nat
  BY <1>5, Sequences
<1>7. p \notin Bad
  <2>1. p \in Bad => Height(p) \in Depths
    OBVIOUS
  <2>2. ~(Height(x) <= Height(p))
    BY <1>5, <1>6
  <2> QED
    BY <1>2, <1>3, <2>1, <2>2
<1>8. p \in Block => PrefixHolds(p) /\ LocatedHolds(p)
  BY <1>7
<1> QED
  BY <1>4, <1>8, PrefixStep, LocatedStep

-----------------------------------------------------------------------------
Element == Block \cup (Block \X Nat)

FirstPart(s, t) == Len(s) <= Len(t) /\ \A i \in 1..Len(s) : s[i] = t[i]

(* Two sequences have the same first n elements.                           *)
Share(s, t, n) == n <= Len(s) /\ n <= Len(t) /\ \A i \in 1..n : s[i] = t[i]

(* The cuts still to come keep what the new chain shares with the old one; *)
(* a file that was cut holds no more than that.                            *)
CutsInv ==
  /\ cuts \in Seq(Files \X Nat) /\ cuts # <<>>
  /\ \A j, k \in 1..Len(cuts) : cuts[j][1] = cuts[k][1] => j = k
  /\ \A j \in 1..Len(cuts) : Share(disk[cuts[j][1]], Content(cuts[j][1], target), cuts[j][2])
  /\ \A f \in Files :
       FirstPart(disk[f], Content(f, target)) \/ \E j \in 1..Len(cuts) : cuts[j][1] = f

ParserInv ==
  /\ target \in Node /\ disk \in [Files -> Seq(Element)]
  /\ parser \in {"idle", "cutting", "adding"}
  /\ parser = "idle" => \A f \in Files : disk[f] = Content(f, target)
  /\ parser = "adding" => \A f \in Files : FirstPart(disk[f], Content(f, target))
  /\ parser = "cutting" => CutsInv

(* Every file holds the first part of one and the same chain.              *)
OneChainInv ==
  \E b \in Node : \A f \in Files : FirstPart(disk[f], Content(f, b))

ReaderInv ==
  /\ maxHeight \in Int /\ todo \in Seq(Files) /\ mapped \in [Files -> Nat]
  /\ phase = "ready" => todo = <<>>
  /\ Loaded => lastBlockHash \in Block /\ maxLoadedTx = Count(lastBlockHash)

(* The files that the last load was to map.                                *)
Wanted == {"block", "tx", "hash"} \cup (IF reloaded THEN {} ELSE {"sequence"})

(* While the parser rests, a mapped file is mapped to its end.             *)
QuietInv ==
  quiet =>
    /\ parser = "idle"
    /\ phase \in {"mapping", "ready"} =>
         \A f \in Wanted : mapped[f] = Len(disk[f]) \/ \E i \in 1..Len(todo) : todo[i] = f
    /\ Loaded => /\ maxHeight <= Len(disk["block"])
                 /\ disk["block"][maxHeight] = lastBlockHash

ViewInv == ParserInv /\ OneChainInv /\ ReaderInv /\ QuietInv

-----------------------------------------------------------------------------
LEMMA SeqMonotone ==
  ASSUME NEW S, NEW T, S \subseteq T, NEW s \in Seq(S)
  PROVE  s \in Seq(T)
<1>1. Len(s) \in Nat /\ s \in [1..Len(s) -> S]
  BY LenProperties
<1>2. s \in [1..Len(s) -> T]
  BY <1>1
<1> QED
  BY <1>1, <1>2, SeqDef

(* What a file holds for a chain.                                          *)
LEMMA Contents ==
  ASSUME NEW b \in Node, NEW f \in Files
  PROVE  /\ Content(f, b) \in Seq(Element) /\ Len(Content(f, b)) \in Nat
         /\ Content("block", b) = Chain[b]
         /\ f # "block" => Content(f, b) = Txes[b]
<1>1. Chain[b] \in Seq(Block) /\ Txes[b] \in Seq(Block \X Nat)
  BY Sequences
<1>2. Chain[b] \in Seq(Element)
  BY <1>1, SeqMonotone DEF Element
<1>3. Txes[b] \in Seq(Element)
  <2> DEFINE S == Block \X Nat
  <2>1. S \subseteq Element /\ Txes[b] \in Seq(S)
    BY <1>1 DEF Element
  <2> HIDE DEF S
  <2> QED
    BY <2>1, SeqMonotone
<1>4. Content(f, b) \in Seq(Element)
  BY <1>2, <1>3 DEF Content
<1>5. Len(Content(f, b)) \in Nat
  BY <1>4, LenProperties
<1> QED
  BY <1>4, <1>5 DEF Content

-----------------------------------------------------------------------------
(* The block that ends the first n blocks of a chain.                      *)
LastOf(b, n) == IF n = 0 THEN Root ELSE Chain[b][n]

(* Two chains with the same first n blocks have the same transactions in   *)
(* them.                                                                   *)
LEMMA SharedTxes ==
  ASSUME NEW t \in Node, NEW b \in Node, NEW n \in Nat,
         n <= Height(t), n <= Height(b), \A i \in 1..n : Chain[t][i] = Chain[b][i]
  PROVE  /\ LastOf(t, n) \in Node
         /\ Count(LastOf(t, n)) <= Count(t) /\ Count(LastOf(t, n)) <= Count(b)
         /\ \A i \in 1..Count(LastOf(t, n)) : Txes[t][i] = Txes[b][i]
<1> DEFINE p == LastOf(t, n)
<1>1. Count(t) \in Nat /\ Count(b) \in Nat /\ Height(t) \in Nat /\ Height(b) \in Nat
  BY Sequences
<1>2. CASE n = 0
  <2>1. p = Root /\ p \in Node /\ Count(p) = 0
    BY <1>2, RootIsLow DEF LastOf, Node
  <2> QED
    BY <1>1, <2>1
<1>3. CASE n # 0
  <2>1. t # Root /\ b # Root
    BY <1>1, <1>3, RootIsLow
  <2>2. t \in Block /\ b \in Block /\ n \in 1..Height(t) /\ n \in 1..Height(b) /\ n \in 1..n
    BY <1>1, <1>3, <2>1 DEF Node
  <2>3. PrefixAt(t, n) /\ PrefixAt(b, n)
    BY <2>2, TreeInduction DEF PrefixHolds
  <2>4. p = Chain[t][n] /\ p = Chain[b][n]
    BY <1>3, <2>2 DEF LastOf
  <2>5. p \in Block /\ Count(p) <= Count(t) /\ \A i \in 1..Count(p) : Txes[p][i] = Txes[t][i]
    BY <2>3, <2>4, Zenon DEF PrefixAt
  <2>6. Count(p) <= Count(b) /\ \A i \in 1..Count(p) : Txes[p][i] = Txes[b][i]
    BY <2>3, <2>4, Zenon DEF PrefixAt
  <2> HIDE DEF p
  <2>7. \A i \in 1..Count(p) : Txes[t][i] = Txes[b][i]
    BY <2>5, <2>6
  <2> QED
    BY <2>5, <2>6, <2>7 DEF Node, p
<1> QED
  BY <1>2, <1>3

(* A chain's block has the one below it as its parent.                     *)
LEMMA ParentBelow ==
  ASSUME NEW t \in Node, NEW n \in Nat, n < Height(t)
  PROVE  Chain[t][n + 1] \in Block /\ Parent[Chain[t][n + 1]] = LastOf(t, n)
<1> DEFINE d == Chain[t][n + 1]
           p == Parent[d]
<1>1. Height(t) \in Nat
  BY Sequences
<1>2. t \in Block /\ n + 1 \in 1..Height(t)
  BY <1>1, RootIsLow DEF Node
<1>3. PrefixAt(t, n + 1)
  BY <1>2, TreeInduction DEF PrefixHolds
<1>4. d \in Block /\ Height(d) = n + 1 /\ \A i \in 1..(n + 1) : Chain[d][i] = Chain[t][i]
  BY <1>3 DEF PrefixAt
<1> HIDE DEF d
<1>5. /\ p \in Node /\ Height(d) = Height(p) + 1
      /\ \A i \in 1..Height(p) : Chain[d][i] = Chain[p][i]
  BY <1>4, ChainUnfolded
<1>6. Height(p) = n
  <2>1. Height(p) \in Nat
    BY <1>5, Sequences
  <2> QED
    BY <1>4, <1>5, <2>1
<1>7. CASE n = 0
  <2>1. p = Root
    BY <1>5, <1>6, <1>7, RootIsLow
  <2> QED
    BY <1>4, <1>7, <2>1 DEF LastOf, d
<1>8. CASE n # 0
  <2>1. p \in Block
    BY <1>5, <1>6, <1>8, RootIsLow DEF Node
  <2>2. Chain[p][n] = p
    BY <1>6, <2>1, ChainUnfolded
  <2>3. n \in 1..n /\ n \in 1..(n + 1)
    BY <1>8
  <2>4. Chain[d][n] = p /\ Chain[d][n] = Chain[t][n]
    BY <1>4, <1>5, <1>6, <2>2, <2>3
  <2>5. p = LastOf(t, n)
    BY <1>8, <2>4 DEF LastOf
  <2> QED
    BY <1>4, <2>5 DEF d
<1> QED
  BY <1>7, <1>8

(* The blocks below the split point are those of both chains.              *)
LEMMA SplitShared ==
  ASSUME ShallowForks, NEW t \in Node, NEW b \in Block
  PROVE  /\ SplitPoint(t, b) \in Nat
         /\ SplitPoint(t, b) <= Height(t) /\ SplitPoint(t, b) <= Height(b)
         /\ \A i \in 1..SplitPoint(t, b) : Chain[t][i] = Chain[b][i]
<1> DEFINE maxSize == IF Height(t) < Height(b) THEN Height(t) ELSE Height(b)
           different == {i \in 1..maxSize : Chain[t][i] # Chain[b][i]}
           top == CHOOSE i \in different : \A j \in different : j <= i
<1>1. Height(t) \in Nat /\ Height(b) \in Nat /\ b \in Node
  BY Sequences DEF Node
<1>2. DOMAIN Chain[t] = 1..Height(t) /\ DOMAIN Chain[b] = 1..Height(b)
  BY <1>1, Sequences
<1>3. maxSize \in Nat /\ maxSize <= Height(t) /\ maxSize <= Height(b)
  BY <1>1
<1>4. SplitPoint(t, b) = IF different = {} THEN maxSize ELSE top - 1
  BY Zenon DEF SplitPoint, Height
<1>5. \A i \in different : i = maxSize
  <2> SUFFICES ASSUME NEW i \in different, i # maxSize
               PROVE  FALSE
    OBVIOUS
  <2>1. i \in Nat /\ 1 <= i /\ i + 1 <= maxSize /\ Chain[t][i] # Chain[b][i]
    BY <1>3
  <2> HIDE DEF maxSize, different
  <2>2. Height(t) # 0
    BY <1>1, <1>3, <2>1
  <2>3. t \in Block
    BY <2>2, RootIsLow DEF Node
  <2>4. i \in 1..Height(t) /\ i \in 1..Height(b) /\ i + 1 \in 1..Height(t) /\ i + 1 \in 1..Height(b)
    BY <1>1, <1>3, <2>1
  <2> QED
    BY <1>2, <2>1, <2>3, <2>4 DEF ShallowForks
<1>6. CASE different = {}
  <2>1. SplitPoint(t, b) = maxSize
    BY <1>4, <1>6
  <2>2. \A i \in 1..maxSize : Chain[t][i] = Chain[b][i]
    BY <1>6
  <2> HIDE DEF maxSize, different
  <2> QED
    BY <1>3, <2>1, <2>2
<1>7. CASE different # {}
  <2>1. PICK i \in different : TRUE
    BY <1>7
  <2>2. \A j \in different : j <= i
    BY <1>3, <1>5, <2>1
  <2>3. top \in different
    BY <2>1, <2>2
  <2> HIDE DEF top
  <2>4. top = maxSize /\ 1 <= top /\ top \in Nat
    BY <1>3, <1>5, <2>3
  <2>5. SplitPoint(t, b) = maxSize - 1
    BY <1>4, <1>7, <2>4
  <2>6. \A j \in 1..(maxSize - 1) : Chain[t][j] = Chain[b][j]
    <3> SUFFICES ASSUME NEW j \in 1..(maxSize - 1), Chain[t][j] # Chain[b][j]
                 PROVE  FALSE
      OBVIOUS
    <3>1. j \in 1..maxSize /\ j # maxSize
      BY <1>3, <2>4
    <3>2. j \in different
      BY <3>1
    <3> QED
      BY <1>5, <3>1, <3>2
  <2> HIDE DEF maxSize, different
  <2> QED
    BY <1>1, <1>3, <2>4, <2>5, <2>6
<1> QED
  BY <1>6, <1>7

-----------------------------------------------------------------------------
(* The parser.                                                             *)
ParserState == ParserInv /\ OneChainInv

LEMMA ParserInit ==
  ASSUME Init
  PROVE  ParserState
<1>1. \A f \in Files : disk[f] = <<>> /\ disk[f] \in Seq(Element)
  BY DEF Init
<1>2. \A f \in Files : Content(f, Root) = <<>>
  BY ChainAssumption DEF Content
<1>3. Root \in Node
  BY DEF Node
<1>4. disk \in [Files -> Seq(Element)] /\ target \in Node /\ parser = "idle"
  BY <1>1, <1>3 DEF Init
<1>5. \A f \in Files : disk[f] = Content(f, target)
  BY <1>1, <1>2 DEF Init
<1>6. \A f \in Files : FirstPart(disk[f], Content(f, Root))
  BY <1>1, <1>2 DEF FirstPart
<1> QED
  BY <1>3, <1>4, <1>5, <1>6 DEF ParserState, ParserInv, OneChainInv

(* A sequence is a first part of itself.                                   *)
LEMMA WholePart ==
  ASSUME NEW S, NEW s \in Seq(S)
  PROVE  FirstPart(s, s)
<1>1. Len(s) \in Nat
  BY LenProperties
<1> QED
  BY <1>1 DEF FirstPart

(* An update finds the files of a chain.  What it does not cut is shared   *)
(* with the new one.                                                       *)
LEMMA StartStep ==
  ASSUME ShallowForks, ParserState, NEW b \in Block, StartUpdate(b)
  PROVE  ParserState'
<1> DEFINE keep == SplitPoint(target, b)
<1>1. /\ target \in Node /\ disk \in [Files -> Seq(Element)] /\ parser = "idle"
      /\ \A f \in Files : disk[f] = Content(f, target)
      /\ target' = b /\ disk' = disk /\ b \in Node
  BY DEF ParserState, ParserInv, StartUpdate, Node
<1>2. /\ keep \in Nat /\ keep <= Height(target) /\ keep <= Height(b)
      /\ \A i \in 1..keep : Chain[target][i] = Chain[b][i]
  BY <1>1, SplitShared
<1>3. OneChainInv'
  BY <1>1 DEF ParserState, OneChainInv, Content, FirstPart
<1>4. /\ Len(disk["block"]) > keep => parser' = "cutting" /\ cuts' = Rollback(keep)
      /\ ~(Len(disk["block"]) > keep) => parser' = "adding"
  BY DEF StartUpdate
<1>5. disk["block"] = Chain[target]
  BY <1>1, Contents DEF Files
<1> HIDE DEF keep
<1> DEFINE p == LastOf(target, keep)
<1>6. /\ p \in Node /\ Count(p) <= Count(target) /\ Count(p) <= Count(b)
      /\ \A i \in 1..Count(p) : Txes[target][i] = Txes[b][i]
  BY <1>1, <1>2, SharedTxes
<1>7. /\ Height(target) \in Nat /\ Height(b) \in Nat
      /\ Count(target) \in Nat /\ Count(b) \in Nat /\ Count(p) \in Nat
  BY <1>1, <1>6, Sequences
<1> HIDE DEF p
<1>8. CASE Len(disk["block"]) > keep
  <2> DEFINE d == Chain[target][keep + 1]
  <2>1. Parent[d] = p /\ keep < Height(target)
    BY <1>1, <1>2, <1>5, <1>7, <1>8, ParentBelow DEF Height, p
  <2>2. FirstTxIndex(disk["block"][keep + 1]) = Count(p)
    BY <1>5, <2>1, Zenon DEF FirstTxIndex, Count
  <2>3. cuts' = << <<"tx", Count(p)>>, <<"hash", Count(p)>>, <<"sequence", Count(p)>>, <<"block", keep>> >>
    BY <1>4, <1>8, <2>2, Zenon DEF Rollback
  <2> DEFINE n == Count(p)
  <2>4. n \in Nat
    BY <1>7
  <2>5. \A f \in Files \ {"block"} : Share(disk[f], Content(f, b), n)
    <3> SUFFICES ASSUME NEW f \in Files \ {"block"}
                 PROVE  Share(disk[f], Content(f, b), n)
      OBVIOUS
    <3>1. disk[f] = Txes[target] /\ Content(f, b) = Txes[b]
      BY <1>1, Contents
    <3> QED
      BY <1>6, <3>1 DEF Count, Share
  <2>6. Share(disk["block"], Content("block", b), keep)
    <3>1. Content("block", b) = Chain[b]
      BY DEF Content
    <3> QED
      BY <1>2, <1>5, <3>1 DEF Height, Share
  <2> HIDE DEF n
  <2>7. cuts' = << <<"tx", n>>, <<"hash", n>>, <<"sequence", n>>, <<"block", keep>> >>
    BY <2>3 DEF n
  <2>8. /\ cuts' \in Seq(Files \X Nat) /\ cuts' # <<>> /\ Len(cuts') = 4
        /\ cuts'[1] = <<"tx", n>> /\ cuts'[2] = <<"hash", n>>
        /\ cuts'[3] = <<"sequence", n>> /\ cuts'[4] = <<"block", keep>>
    BY <1>2, <2>4, <2>7 DEF Files
  <2>9. 1..Len(cuts') = {1, 2, 3, 4}
    BY <2>8
  <2>10. \A j, k \in {1, 2, 3, 4} : cuts'[j][1] = cuts'[k][1] => j = k
    BY <2>8
  <2>11. \A j \in {1, 2, 3, 4} : Share(disk[cuts'[j][1]], Content(cuts'[j][1], b), cuts'[j][2])
    <3>1. /\ Share(disk["tx"], Content("tx", b), n) /\ Share(disk["hash"], Content("hash", b), n)
          /\ Share(disk["sequence"], Content("sequence", b), n)
      BY <2>5 DEF Files
    <3> QED
      BY <2>6, <2>8, <3>1
  <2>12. \A f \in Files : \E j \in {1, 2, 3, 4} : cuts'[j][1] = f
    BY <2>8 DEF Files
  <2>13. CutsInv'
    <3>1. \A j \in {1, 2, 3, 4} : Share(disk'[cuts'[j][1]], Content(cuts'[j][1], target'), cuts'[j][2])
      BY <1>1, <2>11
    <3> QED
      BY <2>8, <2>9, <2>10, <2>12, <3>1 DEF CutsInv, Content
  <2> QED
    BY <1>1, <1>3, <1>4, <1>8, <2>13 DEF ParserState, ParserInv
<1>9. CASE ~(Len(disk["block"]) > keep)
  <2>1. keep = Height(target)
    BY <1>2, <1>5, <1>7, <1>9 DEF Height
  <2>2. p = target
    <3>1. CASE target = Root
      BY <2>1, <3>1, RootIsLow DEF p, LastOf
    <3>2. CASE target \in Block
      <4>1. Height(target) # 0
        BY <1>1, <3>2, RootIsLow, TreeAssumption
      <4> QED
        BY <2>1, <3>2, <4>1, ChainUnfolded DEF p, LastOf
    <3> QED
      BY <1>1, <3>1, <3>2 DEF Node
  <2>3. \A f \in Files : FirstPart(disk[f], Content(f, b))
    <3> SUFFICES ASSUME NEW f \in Files
                 PROVE  FirstPart(disk[f], Content(f, b))
      OBVIOUS
    <3>1. CASE f = "block"
      BY <1>2, <1>5, <2>1, <3>1 DEF FirstPart, Content, Height
    <3>2. CASE f # "block"
      <4>1. disk[f] = Txes[target] /\ Content(f, b) = Txes[b]
        BY <1>1, <3>2, Contents
      <4> QED
        BY <1>6, <2>2, <4>1 DEF FirstPart, Count
    <3> QED
      BY <3>1, <3>2
  <2>4. (\A f \in Files : FirstPart(disk[f], Content(f, target)))'
    BY <1>1, <2>3 DEF Content
  <2> QED
    BY <1>1, <1>3, <1>4, <1>9, <2>4 DEF ParserState, ParserInv
<1> QED
  BY <1>8, <1>9

(* What is left of a sequence.                                             *)
LEMMA Cut ==
  ASSUME NEW S, NEW s \in Seq(S), NEW n \in Nat, n <= Len(s)
  PROVE  /\ SubSeq(s, 1, n) \in Seq(S) /\ Len(SubSeq(s, 1, n)) = n
         /\ \A i \in 1..n : SubSeq(s, 1, n)[i] = s[i]
<1>1. Len(s) \in Nat /\ s \in [1..Len(s) -> S]
  BY LenProperties
<1>2. \A i \in 1..n : s[i] \in S
  BY <1>1
<1>3. /\ SubSeq(s, 1, n) \in Seq(S)
      /\ Len(SubSeq(s, 1, n)) = IF 1 <= n THEN n - 1 + 1 ELSE 0
      /\ \A i \in 1..(n - 1 + 1) : SubSeq(s, 1, n)[i] = s[1 + i - 1]
  BY <1>2, SubSeqProperties
<1>4. Len(SubSeq(s, 1, n)) = n
  BY <1>3
<1>5. \A i \in 1..n : i \in 1..(n - 1 + 1) /\ 1 + i - 1 = i
  OBVIOUS
<1> QED
  BY <1>3, <1>4, <1>5

(* What is left of a list after its first entry.                           *)
LEMMA Rest ==
  ASSUME NEW S, NEW s \in Seq(S), s # <<>>
  PROVE  /\ Head(s) = s[1] /\ s[1] \in S /\ Len(s) \in Nat /\ 1 <= Len(s)
         /\ Tail(s) \in Seq(S) /\ Len(Tail(s)) = Len(s) - 1
         /\ \A i \in 1..Len(Tail(s)) : Tail(s)[i] = s[i + 1]
<1>1. Len(s) \in Nat /\ Len(s) # 0
  OBVIOUS
<1> QED
  BY <1>1

(* A list without entries is the empty one.                                *)
LEMMA EmptyIsShort ==
  ASSUME NEW S, NEW s \in Seq(S)
  PROVE  s = <<>> <=> Len(s) = 0
BY EmptySeq

(* A first part of a first part.                                           *)
LEMMA PartOfPart ==
  ASSUME NEW S, NEW r \in Seq(S), NEW s \in Seq(S), NEW t \in Seq(S), FirstPart(r, s), FirstPart(s, t)
  PROVE  FirstPart(r, t)
<1>1. Len(r) \in Nat /\ Len(s) \in Nat /\ Len(t) \in Nat
  BY LenProperties
<1> QED
  BY <1>1 DEF FirstPart

(* A rollback cuts the next file.                                          *)
LEMMA CutStep ==
  ASSUME ParserState, CutFile
  PROVE  ParserState'
<1>1. /\ target \in Node /\ disk \in [Files -> Seq(Element)] /\ parser = "cutting"
      /\ cuts \in Seq(Files \X Nat) /\ cuts # <<>> /\ target' = target
      /\ CutsInv
  BY DEF ParserState, ParserInv, CutFile, CutsInv
<1>2. /\ Head(cuts) = cuts[1] /\ cuts[1] \in Files \X Nat /\ Len(cuts) \in Nat /\ 1 <= Len(cuts)
      /\ Tail(cuts) \in Seq(Files \X Nat) /\ Len(Tail(cuts)) = Len(cuts) - 1
      /\ \A i \in 1..Len(Tail(cuts)) : Tail(cuts)[i] = cuts[i + 1]
  <2> DEFINE S == Files \X Nat
  <2>1. cuts \in Seq(S) /\ cuts # <<>>
    BY <1>1
  <2> HIDE DEF S
  <2>2. /\ Head(cuts) = cuts[1] /\ cuts[1] \in S /\ Len(cuts) \in Nat /\ 1 <= Len(cuts)
        /\ Tail(cuts) \in Seq(S) /\ Len(Tail(cuts)) = Len(cuts) - 1
        /\ \A i \in 1..Len(Tail(cuts)) : Tail(cuts)[i] = cuts[i + 1]
    BY <2>1, Rest
  <2> QED
    BY <2>2 DEF S
<1>3. PICK f \in Files, n \in Nat : cuts[1] = <<f, n>>
  BY <1>2
<1>4. disk' = [disk EXCEPT ![f] = SubSeq(disk[f], 1, n)] /\ cuts' = Tail(cuts)
  <2>1. Head(cuts)[1] = f /\ Head(cuts)[2] = n
    BY <1>2, <1>3
  <2>2. disk' = [disk EXCEPT ![Head(cuts)[1]] = SubSeq(disk[Head(cuts)[1]], 1, Head(cuts)[2])]
    BY DEF CutFile
  <2> QED
    BY <2>1, <2>2, Zenon DEF CutFile
<1>5. Share(disk[f], Content(f, target), n)
  <2>1. 1 \in 1..Len(cuts)
    BY <1>2
  <2>2. Share(disk[cuts[1][1]], Content(cuts[1][1], target), cuts[1][2])
    BY <1>1, <2>1 DEF CutsInv
  <2>3. cuts[1][1] = f /\ cuts[1][2] = n
    BY <1>3
  <2> QED
    BY <2>2, <2>3, Zenon
<1>6. disk[f] \in Seq(Element) /\ Len(disk[f]) \in Nat
  BY <1>1, LenProperties
<1>7. /\ SubSeq(disk[f], 1, n) \in Seq(Element) /\ Len(SubSeq(disk[f], 1, n)) = n
      /\ \A i \in 1..n : SubSeq(disk[f], 1, n)[i] = disk[f][i]
  BY <1>5, <1>6, Cut DEF Share
<1>8. /\ disk' \in [Files -> Seq(Element)] /\ disk'[f] = SubSeq(disk[f], 1, n)
      /\ \A g \in Files \ {f} : disk'[g] = disk[g]
  BY <1>1, <1>4, <1>7
<1>9. FirstPart(disk'[f], disk[f]) /\ FirstPart(disk'[f], Content(f, target))
  BY <1>5, <1>7, <1>8 DEF Share, FirstPart
<1>10. OneChainInv'
  <2>1. PICK b \in Node : \A g \in Files : FirstPart(disk[g], Content(g, b))
    BY DEF ParserState, OneChainInv
  <2>2. disk'[f] \in Seq(Element) /\ disk[f] \in Seq(Element) /\ Content(f, b) \in Seq(Element)
    BY <1>6, <1>8, Contents
  <2>3. FirstPart(disk'[f], Content(f, b))
    BY <1>9, <2>1, <2>2, PartOfPart
  <2>4. \A g \in Files : FirstPart(disk'[g], Content(g, b))
    BY <1>8, <2>1, <2>3
  <2> QED
    BY <2>4 DEF OneChainInv, Content
<1>11. \A g \in Files : \/ FirstPart(disk'[g], Content(g, target))
                        \/ g # f /\ \E j \in 1..Len(cuts) : cuts[j][1] = g
  BY <1>1, <1>8, <1>9 DEF CutsInv
<1>12. \A g \in Files : \/ FirstPart(disk'[g], Content(g, target))
                        \/ \E j \in 1..Len(Tail(cuts)) : Tail(cuts)[j][1] = g
  <2> SUFFICES ASSUME NEW g \in Files, ~FirstPart(disk'[g], Content(g, target))
               PROVE  \E j \in 1..Len(Tail(cuts)) : Tail(cuts)[j][1] = g
    OBVIOUS
  <2>1. PICK j \in 1..Len(cuts) : g # f /\ cuts[j][1] = g
    BY <1>11
  <2>2. j # 1
    BY <1>3, <2>1
  <2>3. j - 1 \in 1..Len(Tail(cuts)) /\ j = (j - 1) + 1
    BY <1>2, <2>1, <2>2
  <2>4. Tail(cuts)[j - 1] = cuts[j]
    BY <1>2, <2>3
  <2> QED
    BY <2>1, <2>3, <2>4
<1>13. CASE Tail(cuts) = <<>>
  <2>1. parser' = "adding"
    BY <1>13 DEF CutFile
  <2>2. \A g \in Files : FirstPart(disk'[g], Content(g, target'))
    <3>1. 1..Len(Tail(cuts)) = {}
      BY <1>13
    <3> QED
      BY <1>1, <1>12, <3>1, Zenon
  <2> QED
    BY <1>1, <1>8, <1>10, <2>1, <2>2 DEF ParserState, ParserInv, Content
<1>14. CASE Tail(cuts) # <<>>
  <2>1. parser' = "cutting"
    BY <1>14 DEF CutFile
  <2>2. \A j \in 1..Len(Tail(cuts)) : j + 1 \in 1..Len(cuts) /\ j \in Nat /\ j + 1 # 1
    BY <1>2
  <2>3. \A j, k \in 1..Len(Tail(cuts)) : Tail(cuts)[j][1] = Tail(cuts)[k][1] => j = k
    <3> SUFFICES ASSUME NEW j \in 1..Len(Tail(cuts)), NEW k \in 1..Len(Tail(cuts)),
                        Tail(cuts)[j][1] = Tail(cuts)[k][1]
                 PROVE  j = k
      OBVIOUS
    <3>1. cuts[j + 1][1] = cuts[k + 1][1] /\ j + 1 \in 1..Len(cuts) /\ k + 1 \in 1..Len(cuts)
      BY <1>2, <2>2
    <3>2. j + 1 = k + 1
      BY <1>1, <3>1 DEF CutsInv
    <3> QED
      BY <2>2, <3>2
  <2>4. \A j \in 1..Len(Tail(cuts)) :
          Share(disk'[Tail(cuts)[j][1]], Content(Tail(cuts)[j][1], target), Tail(cuts)[j][2])
    <3> SUFFICES ASSUME NEW j \in 1..Len(Tail(cuts))
                 PROVE  Share(disk'[Tail(cuts)[j][1]], Content(Tail(cuts)[j][1], target), Tail(cuts)[j][2])
      OBVIOUS
    <3>1. Tail(cuts)[j] = cuts[j + 1] /\ j + 1 \in 1..Len(cuts) /\ 1 \in 1..Len(cuts)
      BY <1>2, <2>2
    <3>2. cuts[j + 1][1] # f
      BY <1>1, <1>3, <2>2, <3>1 DEF CutsInv
    <3>3. cuts[j + 1][1] \in Files
      BY <1>1, <3>1
    <3>4. Share(disk[cuts[j + 1][1]], Content(cuts[j + 1][1], target), cuts[j + 1][2])
      BY <1>1, <3>1 DEF CutsInv
    <3> QED
      BY <1>8, <3>1, <3>2, <3>3, <3>4
  <2>5. CutsInv'
    <3>1. \A g \in Files : \/ FirstPart(disk'[g], Content(g, target'))
                           \/ \E j \in 1..Len(cuts') : cuts'[j][1] = g
      BY <1>1, <1>4, <1>12
    <3>2. \A j \in 1..Len(cuts') : Share(disk'[cuts'[j][1]], Content(cuts'[j][1], target'), cuts'[j][2])
      BY <1>1, <1>4, <2>4
    <3>3. /\ cuts' \in Seq(Files \X Nat) /\ cuts' # <<>>
          /\ \A j, k \in 1..Len(cuts') : cuts'[j][1] = cuts'[k][1] => j = k
      BY <1>2, <1>4, <1>14, <2>3
    <3> QED
      BY <3>1, <3>2, <3>3 DEF CutsInv, Content
  <2> QED
    BY <1>1, <1>8, <1>10, <2>1, <2>5 DEF ParserState, ParserInv
<1> QED
  BY <1>13, <1>14

(* A stream reaches the disk.                                              *)
LEMMA AppendStep ==
  ASSUME ParserState, NEW f \in Files, AppendTo(f)
  PROVE  ParserState'
<1>1. /\ target \in Node /\ disk \in [Files -> Seq(Element)] /\ parser = "adding"
      /\ \A g \in Files : FirstPart(disk[g], Content(g, target))
      /\ target' = target
  BY DEF ParserState, ParserInv, AppendTo
<1> DEFINE c == Content(f, target)
<1>2. PICK n \in (Len(disk[f]) + 1)..Len(c) : disk' = [disk EXCEPT ![f] = SubSeq(c, 1, n)]
  BY DEF AppendTo
<1>3. c \in Seq(Element) /\ Len(c) \in Nat /\ Len(disk[f]) \in Nat
  BY <1>1, Contents, LenProperties
<1>4. n \in Nat /\ n <= Len(c)
  BY <1>2, <1>3
<1>5. /\ SubSeq(c, 1, n) \in Seq(Element) /\ Len(SubSeq(c, 1, n)) = n
      /\ \A i \in 1..n : SubSeq(c, 1, n)[i] = c[i]
  <2> HIDE DEF c
  <2> QED
    BY <1>3, <1>4, Cut
<1>6. FirstPart(SubSeq(c, 1, n), c)
  BY <1>4, <1>5 DEF FirstPart
<1> HIDE DEF c
<1>7. /\ disk' \in [Files -> Seq(Element)] /\ disk'[f] = SubSeq(c, 1, n)
      /\ \A g \in Files \ {f} : disk'[g] = disk[g]
  BY <1>1, <1>2, <1>5
<1>8. \A g \in Files : FirstPart(disk'[g], Content(g, target'))
  BY <1>1, <1>6, <1>7 DEF c
<1>9. OneChainInv'
  BY <1>1, <1>8 DEF OneChainInv, Content
<1>10. CASE \A g \in Files : disk'[g] = Content(g, target)
  <2>1. parser' = "idle"
    BY <1>10 DEF AppendTo
  <2> QED
    BY <1>1, <1>7, <1>9, <1>10, <2>1 DEF ParserState, ParserInv, Content
<1>11. CASE ~(\A g \in Files : disk'[g] = Content(g, target))
  <2>1. parser' = "adding"
    BY <1>11 DEF AppendTo
  <2> QED
    BY <1>1, <1>7, <1>8, <1>9, <2>1 DEF ParserState, ParserInv, Content
<1> QED
  BY <1>10, <1>11

LEMMA NothingStep ==
  ASSUME ParserState, NothingToAdd
  PROVE  ParserState'
<1>1. /\ target \in Node /\ disk \in [Files -> Seq(Element)]
      /\ \A f \in Files : disk[f] = Content(f, target)
      /\ target' = target /\ disk' = disk /\ parser' = "idle"
  BY DEF ParserState, ParserInv, NothingToAdd
<1>2. OneChainInv'
  BY <1>1 DEF ParserState, OneChainInv, Content
<1> QED
  BY <1>1, <1>2 DEF ParserState, ParserInv, Content

(* A step of a call.                                                       *)
CallStep == GetBlock \/ GetTxHash \/ GetTransaction \/ Probe \/ Forget \/ \E f \in Files : Read(f)

LEMMA CallFrame ==
  ASSUME CallStep
  PROVE  UNCHANGED pvars /\ UNCHANGED rvars /\ quiet' = quiet
BY DEF CallStep, GetBlock, GetTxHash, GetTransaction, Check, Probe, Forget, Read

(* The reader changes nothing that the parser has.                         *)
LEMMA ParserRest ==
  ASSUME ParserState, UNCHANGED pvars
  PROVE  ParserState'
<1>1. disk' = disk /\ parser' = parser /\ cuts' = cuts /\ target' = target
  BY DEF pvars
<1> QED
  BY <1>1 DEF ParserState, ParserInv, OneChainInv, CutsInv, Content

LEMMA ParserStep ==
  ASSUME ShallowForks, ParserState, [Next]_vars
  PROVE  ParserState'
<1>1. ASSUME NEW b \in Block, StartUpdate(b)
      PROVE  ParserState'
  BY <1>1, StartStep
<1>2. CASE CutFile
  BY <1>2, CutStep
<1>3. CASE NothingToAdd
  BY <1>3, NothingStep
<1>4. ASSUME NEW f \in Files, AppendTo(f)
      PROVE  ParserState'
  BY <1>4, AppendStep
<1>5. CASE Open \/ Reload \/ MapFile \/ Setup \/ Close
  <2>1. UNCHANGED pvars
    BY <1>5 DEF Open, Reload, Load, MapFile, Setup, Close
  <2> QED
    BY <2>1, ParserRest
<1>6. CASE CallStep \/ UNCHANGED vars
  BY <1>6, CallFrame, ParserRest DEF vars
<1> QED
  BY <1>1, <1>2, <1>3, <1>4, <1>5, <1>6 DEF Next, CallStep

-----------------------------------------------------------------------------
(* The reader.                                                             *)
(* An entry of the block file is a block.                                  *)
LEMMA BlocksAreBlocks ==
  ASSUME ParserState, NEW i \in 1..Len(disk["block"])
  PROVE  /\ disk["block"][i] \in Block /\ Len(disk["block"]) \in Nat
         /\ \E b \in Block :
              /\ i \in 1..Height(b) /\ disk["block"][i] = Chain[b][i]
              /\ \A f \in Files : FirstPart(disk[f], Content(f, b))
<1>1. disk["block"] \in Seq(Element)
  BY DEF ParserState, ParserInv, Files
<1>2. Len(disk["block"]) \in Nat
  BY <1>1, LenProperties
<1>3. PICK b \in Node : \A f \in Files : FirstPart(disk[f], Content(f, b))
  BY DEF ParserState, OneChainInv
<1>4. FirstPart(disk["block"], Chain[b])
  BY <1>3, Contents DEF Files
<1>5. Height(b) \in Nat /\ Chain[b] \in Seq(Block)
  BY Sequences
<1>6. i \in 1..Height(b) /\ disk["block"][i] = Chain[b][i]
  BY <1>2, <1>4, <1>5 DEF FirstPart, Height
<1>7. b \in Block
  BY <1>5, <1>6, RootIsLow DEF Node
<1>8. Chain[b][i] \in Block
  <2>1. Chain[b] \in [1..Height(b) -> Block]
    BY <1>5, LenProperties DEF Height
  <2> QED
    BY <1>6, <2>1
<1> QED
  BY <1>2, <1>3, <1>6, <1>7, <1>8

LEMMA ReaderInit ==
  ASSUME Init
  PROVE  ReaderInv /\ QuietInv
<1>1. /\ maxHeight \in Int /\ todo = <<>> /\ mapped \in [Files -> Nat]
      /\ phase = "closed" /\ ~quiet
  BY DEF Init
<1> QED
  BY <1>1 DEF ReaderInv, QuietInv, Loaded

LEMMA SetupStep ==
  ASSUME ParserState, ReaderInv, QuietInv, Setup
  PROVE  ReaderInv' /\ QuietInv'
<1>1. /\ phase = "mapping" /\ todo = <<>> /\ maxHeight' = mapped["block"] - BlocksIgnored
      /\ mapped' = mapped /\ todo' = todo /\ disk' = disk /\ parser' = parser
      /\ quiet' = quiet /\ reloaded' = reloaded
  BY DEF Setup, pvars
<1>2. mapped \in [Files -> Nat] /\ todo \in Seq(Files) /\ mapped["block"] \in Nat
  BY DEF ReaderInv, Files
<1>3. maxHeight' \in Int
  BY <1>1, <1>2, TreeAssumption
<1>4. Loaded' => /\ maxHeight' \in 1..Len(disk["block"]) /\ lastBlockHash' = disk["block"][maxHeight']
                 /\ lastBlockHash' \in Block /\ maxLoadedTx' = Count(lastBlockHash')
  <2> SUFFICES ASSUME phase' = "ready", maxHeight' > 0
               PROVE  /\ maxHeight' \in 1..Len(disk["block"]) /\ lastBlockHash' = disk["block"][maxHeight']
                      /\ lastBlockHash' \in Block /\ maxLoadedTx' = Count(lastBlockHash')
    BY DEF Loaded
  <2>1. ~(maxHeight' <= 0)
    BY <1>3
  <2>2. /\ maxHeight' \in 1..Len(disk["block"]) /\ lastBlockHash' = disk["block"][maxHeight']
        /\ maxLoadedTx' = FirstTxIndex(lastBlockHash') + NumTxes[lastBlockHash']
    BY <2>1 DEF Setup
  <2>3. lastBlockHash' \in Block
    BY <2>2, BlocksAreBlocks
  <2>4. Count(lastBlockHash') = Count(Parent[lastBlockHash']) + NumTxes[lastBlockHash']
    BY <2>3, TxesUnfolded
  <2>5. maxLoadedTx' = Count(lastBlockHash')
    BY <2>2, <2>4 DEF FirstTxIndex, Count
  <2> QED
    BY <2>2, <2>3, <2>5
<1>5. ReaderInv'
  BY <1>1, <1>2, <1>3, <1>4 DEF ReaderInv, Count
<1>6. QuietInv'
  <2> SUFFICES ASSUME quiet
               PROVE  QuietInv'
    BY <1>1, Zenon DEF QuietInv
  <2>1. parser = "idle" /\ \A f \in Wanted : mapped[f] = Len(disk[f]) \/ \E i \in 1..Len(todo) : todo[i] = f
    BY <1>1 DEF QuietInv
  <2>2. \A f \in Wanted' : mapped'[f] = Len(disk'[f]) \/ \E i \in 1..Len(todo') : todo'[i] = f
    BY <1>1, <2>1 DEF Wanted
  <2>3. Loaded' => maxHeight' <= Len(disk'["block"]) /\ disk'["block"][maxHeight'] = lastBlockHash'
    BY <1>1, <1>4
  <2> QED
    BY <1>1, <2>1, <2>2, <2>3 DEF QuietInv
<1> QED
  BY <1>5, <1>6

LEMMA MapStep ==
  ASSUME ParserState, ReaderInv, QuietInv, MapFile
  PROVE  ReaderInv' /\ QuietInv'
<1>1. /\ phase = "mapping" /\ phase' = phase /\ todo # <<>> /\ todo' = Tail(todo)
      /\ mapped' = [mapped EXCEPT ![Head(todo)] = Len(disk[Head(todo)])]
      /\ disk' = disk /\ parser' = parser /\ maxHeight' = maxHeight
      /\ quiet' = quiet /\ reloaded' = reloaded
  BY DEF MapFile, pvars
<1>2. /\ mapped \in [Files -> Nat] /\ todo \in Seq(Files) /\ maxHeight \in Int
      /\ disk \in [Files -> Seq(Element)]
  BY DEF ReaderInv, ParserState, ParserInv
<1>3. /\ Head(todo) = todo[1] /\ todo[1] \in Files /\ Len(todo) \in Nat /\ 1 <= Len(todo)
      /\ Tail(todo) \in Seq(Files) /\ Len(Tail(todo)) = Len(todo) - 1
      /\ \A i \in 1..Len(Tail(todo)) : Tail(todo)[i] = todo[i + 1]
  BY <1>1, <1>2, Rest
<1>4. Len(disk[todo[1]]) \in Nat
  BY <1>2, <1>3, LenProperties
<1>5. /\ mapped' \in [Files -> Nat] /\ mapped'[todo[1]] = Len(disk[todo[1]])
      /\ \A f \in Files \ {todo[1]} : mapped'[f] = mapped[f]
  BY <1>1, <1>2, <1>3, <1>4
<1>6. ReaderInv'
  BY <1>1, <1>2, <1>3, <1>5 DEF ReaderInv, Loaded
<1>7. QuietInv'
  <2> SUFFICES ASSUME quiet
               PROVE  QuietInv'
    BY <1>1, Zenon DEF QuietInv
  <2>1. parser = "idle" /\ \A f \in Wanted : mapped[f] = Len(disk[f]) \/ \E i \in 1..Len(todo) : todo[i] = f
    BY <1>1 DEF QuietInv
  <2>2. ASSUME NEW f \in Wanted
        PROVE  mapped'[f] = Len(disk[f]) \/ \E i \in 1..Len(Tail(todo)) : Tail(todo)[i] = f
    <3>1. f \in Files
      BY DEF Wanted, Files
    <3>2. CASE f = todo[1]
      BY <1>5, <3>2
    <3>3. CASE f # todo[1] /\ mapped[f] = Len(disk[f])
      BY <1>5, <3>1, <3>3
    <3>4. CASE f # todo[1] /\ \E i \in 1..Len(todo) : todo[i] = f
      <4>1. PICK i \in 1..Len(todo) : todo[i] = f
        BY <3>4
      <4>2. i # 1
        BY <3>4, <4>1
      <4>3. i - 1 \in 1..Len(Tail(todo)) /\ i = (i - 1) + 1
        BY <1>3, <4>1, <4>2
      <4>4. Tail(todo)[i - 1] = f
        BY <1>3, <4>1, <4>3
      <4> QED
        BY <4>3, <4>4
    <3> QED
      BY <2>1, <3>2, <3>3, <3>4
  <2>3. \A f \in Wanted' : mapped'[f] = Len(disk'[f]) \/ \E i \in 1..Len(todo') : todo'[i] = f
    BY <1>1, <2>2 DEF Wanted
  <2> QED
    BY <1>1, <2>1, <2>3 DEF QuietInv, Loaded
<1> QED
  BY <1>6, <1>7

LEMMA LoadStep ==
  ASSUME ReaderInv, Open \/ Reload
  PROVE  ReaderInv' /\ QuietInv'
<1>1. /\ phase' = "mapping" /\ quiet' = (parser = "idle") /\ parser' = parser
      /\ mapped' = mapped /\ maxHeight' = maxHeight
      /\ \/ todo' = OpenOrder
         \/ todo' = ReloadOrder /\ reloaded' = TRUE
  BY DEF Open, Reload, Load, pvars
<1>2. todo' \in Seq(Files)
  <2>1. OpenOrder \in Seq(Files)
    BY DEF OpenOrder, Files
  <2>2. ReloadOrder \in Seq(Files)
    BY DEF ReloadOrder, Files
  <2> QED
    BY <1>1, <2>1, <2>2, Zenon
<1>3. ReaderInv'
  BY <1>1, <1>2 DEF ReaderInv, Loaded
<1>4. \A f \in Wanted' : \E i \in 1..Len(todo') : todo'[i] = f
  <2>1. CASE todo' = OpenOrder
    <3>1. /\ 1..Len(todo') = {1, 2, 3, 4} /\ todo'[1] = "block" /\ todo'[2] = "tx"
          /\ todo'[3] = "sequence" /\ todo'[4] = "hash"
      BY <2>1 DEF OpenOrder
    <3> QED
      BY <3>1 DEF Wanted
  <2>2. CASE todo' = ReloadOrder /\ reloaded' = TRUE
    <3>1. 1..Len(todo') = {1, 2, 3} /\ todo'[1] = "block" /\ todo'[2] = "tx" /\ todo'[3] = "hash"
      BY <2>2 DEF ReloadOrder
    <3> QED
      BY <2>2, <3>1 DEF Wanted
  <2> QED
    BY <1>1, <2>1, <2>2
<1>5. QuietInv'
  <2>1. quiet' => parser' = "idle"
    BY <1>1, Zenon
  <2> QED
    BY <1>1, <1>4, <2>1 DEF QuietInv, Loaded
<1> QED
  BY <1>3, <1>5

LEMMA CloseStep ==
  ASSUME ReaderInv, QuietInv, Close
  PROVE  ReaderInv' /\ QuietInv'
<1>1. /\ phase' = "closed" /\ mapped' = [f \in Files |-> 0] /\ maxHeight' = 0
      /\ todo' = todo /\ quiet' = quiet /\ parser' = parser
  BY DEF Close, pvars
<1> QED
  BY <1>1 DEF ReaderInv, QuietInv, Loaded

(* The parser does nothing to the reader, and is not quiet.                *)
LEMMA ReaderRest ==
  ASSUME ReaderInv, QuietInv, UNCHANGED rvars, quiet' => quiet /\ parser' = parser /\ disk' = disk
  PROVE  ReaderInv' /\ QuietInv'
<1>1. /\ phase' = phase /\ todo' = todo /\ mapped' = mapped /\ maxHeight' = maxHeight
      /\ lastBlockHash' = lastBlockHash /\ maxLoadedTx' = maxLoadedTx /\ reloaded' = reloaded
  BY DEF rvars
<1>2. ReaderInv'
  BY <1>1 DEF ReaderInv, Loaded, Count
<1>3. CASE quiet'
  <2>1. quiet /\ parser' = parser /\ disk' = disk
    BY <1>3, Zenon
  <2> QED
    BY <1>1, <1>2, <2>1 DEF QuietInv, Loaded, Wanted
<1>4. CASE ~quiet'
  BY <1>2, <1>4, Zenon DEF QuietInv
<1> QED
  BY <1>3, <1>4

LEMMA ReaderStep ==
  ASSUME ParserState, ReaderInv, QuietInv, [Next]_vars
  PROVE  ReaderInv' /\ QuietInv'
<1>1. ASSUME NEW b \in Block, StartUpdate(b)
      PROVE  ReaderInv' /\ QuietInv'
  BY <1>1, ReaderRest DEF StartUpdate
<1>2. CASE CutFile \/ NothingToAdd \/ \E f \in Files : AppendTo(f)
  <2>1. ~quiet /\ quiet' = quiet /\ UNCHANGED rvars
    BY <1>2 DEF CutFile, NothingToAdd, AppendTo, QuietInv
  <2> QED
    BY <2>1, ReaderRest
<1>3. CASE Open \/ Reload
  BY <1>3, LoadStep
<1>4. CASE MapFile
  BY <1>4, MapStep
<1>5. CASE Setup
  BY <1>5, SetupStep
<1>6. CASE Close
  BY <1>6, CloseStep
<1>7. CASE CallStep \/ UNCHANGED vars
  BY <1>7, CallFrame, ReaderRest DEF vars, pvars
<1> QED
  BY <1>1, <1>2, <1>3, <1>4, <1>5, <1>6, <1>7 DEF Next, CallStep

(* The invariant of parser and reader: at every moment, whatever the       *)
(* rollback has cut and the streams have written, all files hold first     *)
(* parts of one chain, and the reader knows the block it loaded last.      *)
THEOREM ViewInvariance == ShallowForks => (Spec => []ViewInv)
<1> SUFFICES ASSUME ShallowForks
             PROVE  Spec => []ViewInv
  OBVIOUS
<1>1. Init => ViewInv
  BY ParserInit, ReaderInit DEF ViewInv, ParserState
<1>2. ViewInv /\ [Next]_vars => ViewInv'
  <2> SUFFICES ASSUME ViewInv, [Next]_vars
               PROVE  ViewInv'
    OBVIOUS
  <2>1. ParserState /\ ReaderInv /\ QuietInv
    BY DEF ViewInv, ParserState
  <2>2. ParserState'
    BY <2>1, ParserStep
  <2>3. ReaderInv' /\ QuietInv'
    BY <2>1, ReaderStep
  <2> QED
    BY <2>2, <2>3 DEF ViewInv, ParserState
<1> QED
  BY <1>1, <1>2, PTL DEF Spec

-----------------------------------------------------------------------------
(* What reorgCheck implies: every block below the last one is in place,    *)
(* and an entry of another file is in place or not there.                  *)
LEMMA ChainInPlace ==
  ASSUME ViewInv, Loaded, ReorgCheck
  PROVE  /\ lastBlockHash \in Block /\ maxHeight = Height(lastBlockHash)
         /\ maxHeight \in Nat /\ maxLoadedTx = Count(lastBlockHash)
         /\ \A h \in 0..(maxHeight - 1) : Entry("block", h) = Chain[lastBlockHash][h + 1]
         /\ \A i \in 0..(maxLoadedTx - 1), f \in Files \ {"block"} :
              Entry(f, i) \in {Missing, Txes[lastBlockHash][i + 1]}
<1> DEFINE l == lastBlockHash
           m == maxHeight
           d == disk["block"]
<1>1. /\ l \in Block /\ maxLoadedTx = Count(l) /\ m \in Int /\ m > 0
      /\ mapped \in [Files -> Nat] /\ disk \in [Files -> Seq(Element)]
      /\ ParserState
  BY DEF ViewInv, ReaderInv, ParserInv, Loaded, ParserState
<1>2. d \in Seq(Element) /\ Len(d) \in Nat /\ mapped["block"] \in Nat
  BY <1>1, LenProperties DEF Files
<1>3. l # Missing
  BY <1>1, AnswerAssumption
<1>4. /\ m - 1 < mapped["block"] /\ m - 1 < Len(d) /\ d[(m - 1) + 1] = l
  BY <1>3 DEF ReorgCheck, Entry
<1>5. m \in 1..Len(d) /\ (m - 1) + 1 = m
  BY <1>1, <1>2, <1>4
<1>6. PICK b \in Block : /\ m \in 1..Height(b) /\ d[m] = Chain[b][m]
                         /\ \A f \in Files : FirstPart(disk[f], Content(f, b))
  BY <1>1, <1>5, BlocksAreBlocks
<1>7. l = Chain[b][m]
  BY <1>4, <1>5, <1>6
<1>8. PrefixAt(b, m)
  BY <1>6, TreeInduction DEF PrefixHolds
<1>9. /\ Height(l) = m /\ Count(l) <= Count(b)
      /\ \A i \in 1..m : Chain[l][i] = Chain[b][i]
      /\ \A i \in 1..Count(l) : Txes[l][i] = Txes[b][i]
  BY <1>7, <1>8, Zenon DEF PrefixAt
<1>10. b \in Node /\ l \in Node /\ Count(l) \in Nat /\ Count(b) \in Nat
  BY <1>1, Sequences DEF Node
<1>11. \A h \in 0..(m - 1) : Entry("block", h) = Chain[l][h + 1]
  <2> SUFFICES ASSUME NEW h \in 0..(m - 1)
               PROVE  Entry("block", h) = Chain[l][h + 1]
    OBVIOUS
  <2>1. FirstPart(d, Chain[b])
    BY <1>6, <1>10, Contents DEF Files
  <2>2. h + 1 \in 1..Len(d) /\ h + 1 \in 1..m /\ h < mapped["block"] /\ h < Len(d)
    BY <1>1, <1>2, <1>4, <1>5
  <2>3. d[h + 1] = Chain[l][h + 1]
    BY <1>9, <2>1, <2>2 DEF FirstPart
  <2> QED
    BY <2>2, <2>3 DEF Entry
<1>12. ASSUME NEW i \in 0..(maxLoadedTx - 1), NEW f \in Files \ {"block"}
       PROVE  Entry(f, i) \in {Missing, Txes[l][i + 1]}
  <2>1. CASE i < mapped[f] /\ i < Len(disk[f])
    <3>1. FirstPart(disk[f], Txes[b])
      BY <1>6, <1>10, Contents
    <3>2. Len(disk[f]) \in Nat
      BY <1>1, LenProperties
    <3>3. i + 1 \in 1..Len(disk[f]) /\ i + 1 \in 1..Count(l)
      BY <1>1, <1>10, <2>1, <3>2
    <3>4. disk[f][i + 1] = Txes[l][i + 1]
      BY <1>9, <3>1, <3>3 DEF FirstPart
    <3> QED
      BY <2>1, <3>4 DEF Entry
  <2>2. CASE ~(i < mapped[f] /\ i < Len(disk[f]))
    BY <2>2 DEF Entry
  <2> QED
    BY <2>1, <2>2
<1> QED
  BY <1>1, <1>5, <1>9, <1>11, <1>12

(* The blocks that start after a transaction are those above its own.      *)
LEMMA Ordered ==
  ASSUME ViewInv, Loaded, ReorgCheck, NEW i \in 0..(maxLoadedTx - 1)
  PROVE  /\ Height(Txes[lastBlockHash][i + 1][1]) \in 1..maxHeight
         /\ \A h \in 0..(maxHeight - 1) :
              /\ Entry("block", h) # Missing
              /\ i < FirstTxIndex(Entry("block", h)) <=>
                   Height(Txes[lastBlockHash][i + 1][1]) <= h
<1> DEFINE l == lastBlockHash
           m == maxHeight
           c == Txes[l][i + 1][1]
           after == {h \in 0..(m - 1) : i < FirstTxIndex(Entry("block", h))}
<1>1. /\ l \in Block /\ m = Height(l) /\ m \in Nat /\ maxLoadedTx = Count(l)
      /\ \A h \in 0..(m - 1) : Entry("block", h) = Chain[l][h + 1]
  BY ChainInPlace
<1>2. Count(l) \in Nat
  BY <1>1, Sequences DEF Node
<1>3. i + 1 \in 1..Count(l) /\ i \in Nat
  BY <1>1, <1>2
<1>4. PICK k \in 1..Height(l) : c = Chain[l][k] /\ LiesIn(Chain[l][k], i + 1)
  BY <1>1, <1>3, TreeInduction DEF LocatedHolds, LocatedAt
<1>6. k \in Nat /\ 1 <= k /\ k <= m
  BY <1>1, <1>4
<1>7. PrefixAt(l, k)
  BY <1>1, <1>4, TreeInduction DEF PrefixHolds
<1>8. c \in Block /\ Height(c) = k
  BY <1>4, <1>7, Zenon DEF PrefixAt
<1>9. Count(Parent[c]) <= i /\ i < Count(c) /\ Count(Parent[c]) \in Nat /\ Count(c) \in Nat
  <2>1. Count(Parent[c]) < i + 1 /\ i + 1 <= Count(c)
    BY <1>4, Zenon DEF LiesIn
  <2>2. Parent[c] \in Node /\ c \in Node
    BY <1>8, TreeAssumption DEF Node
  <2>3. Count(Parent[c]) \in Nat /\ Count(c) \in Nat
    BY <2>2, Sequences
  <2> QED
    BY <1>3, <2>1, <2>3
<1> HIDE DEF c
<1>10. \A h \in 0..(m - 1) : FirstTxIndex(Entry("block", h)) = Count(Parent[Chain[l][h + 1]])
  BY <1>1 DEF FirstTxIndex, Count
<1>11. \A h \in 0..(m - 1) : h < k => h \notin after
  <2> SUFFICES ASSUME NEW h \in 0..(m - 1), h < k
               PROVE  ~(i < Count(Parent[Chain[l][h + 1]]))
    BY <1>10
  <2> DEFINE e == Chain[l][h + 1]
  <2>1. h \in Nat /\ h < Height(c) /\ h + 1 \in 1..k /\ c \in Node
    BY <1>1, <1>6, <1>8 DEF Node
  <2>2. Chain[c][h + 1] = e
    BY <1>4, <1>7, <2>1 DEF PrefixAt
  <2>3. Parent[e] = LastOf(c, h) /\ Chain[c][h + 1] \in Block
    BY <2>1, <2>2, ParentBelow
  <2>4. Count(Parent[e]) <= Count(Parent[c])
    <3>1. Parent[c] \in Node /\ Height(c) = Height(Parent[c]) + 1
          /\ \A j \in 1..Height(Parent[c]) : Chain[c][j] = Chain[Parent[c]][j]
      BY <1>8, ChainUnfolded
    <3>2. Height(Parent[c]) \in Nat
      BY <3>1, Sequences
    <3>3. h <= Height(c) /\ h <= Height(Parent[c]) /\ \A j \in 1..h : Chain[c][j] = Chain[Parent[c]][j]
      BY <1>6, <1>8, <2>1, <3>1, <3>2
    <3>4. Count(LastOf(c, h)) <= Count(Parent[c])
      BY <2>1, <3>1, <3>3, SharedTxes
    <3> QED
      BY <2>3, <3>4
  <2>5. Count(Parent[e]) \in Nat
    <3>1. Parent[e] \in Node
      BY <2>2, <2>3, TreeAssumption DEF Node
    <3> QED
      BY <3>1, Sequences
  <2> QED
    BY <1>3, <1>9, <2>4, <2>5
<1>12. \A h \in 0..(m - 1) : k <= h => h \in after
  <2> SUFFICES ASSUME NEW h \in 0..(m - 1), k <= h
               PROVE  i < Count(Parent[Chain[l][h + 1]])
    BY <1>10
  <2> DEFINE e == Chain[l][h + 1]
             p == LastOf(l, h)
  <2>1. h \in Nat /\ h < Height(l) /\ h # 0 /\ h \in 1..Height(l) /\ l \in Node /\ k \in 1..h
    BY <1>1, <1>6 DEF Node
  <2>2. Parent[e] = p
    BY <2>1, ParentBelow
  <2>3. p = Chain[l][h]
    BY <2>1 DEF LastOf
  <2>4. PrefixAt(l, h)
    BY <1>1, <2>1, TreeInduction DEF PrefixHolds
  <2>5. p \in Block /\ Height(p) = h /\ \A j \in 1..h : Chain[p][j] = Chain[l][j]
    BY <2>3, <2>4, Zenon DEF PrefixAt
  <2> HIDE DEF p
  <2>6. Chain[p][k] = c
    BY <1>4, <2>1, <2>5
  <2>7. PrefixAt(p, k)
    BY <2>1, <2>5, TreeInduction DEF PrefixHolds
  <2>8. Count(c) <= Count(p)
    BY <2>6, <2>7, Zenon DEF PrefixAt
  <2>9. Count(p) \in Nat
    BY <2>5, Sequences DEF Node
  <2> QED
    BY <1>3, <1>9, <2>2, <2>8, <2>9
<1>13. \A h \in 0..(m - 1) : Entry("block", h) # Missing
  <2> SUFFICES ASSUME NEW h \in 0..(m - 1)
               PROVE  Entry("block", h) # Missing
    OBVIOUS
  <2>1. l \in Node /\ h \in Nat /\ h < Height(l)
    BY <1>1 DEF Node
  <2>2. Chain[l][h + 1] \in Block
    BY <2>1, ParentBelow
  <2> QED
    BY <1>1, <2>2, AnswerAssumption
<1>14. \A h \in 0..(m - 1) : h \in after <=> k <= h
  BY <1>6, <1>11, <1>12
<1>15. k \in 1..m
  BY <1>1, <1>6
<1> QED
  BY <1>8, <1>13, <1>14, <1>15 DEF c
-----------------------------------------------------------------------------
(* The rollback cuts no block that the new chain has, and cuts the blocks  *)
(* last.                                                                   *)
KeepInv ==
  parser = "cutting" =>
    \A j \in 1..Len(cuts) : cuts[j][1] = "block" =>
      /\ j = Len(cuts)
      /\ \A n \in 1..Len(disk["block"]) :
           n <= Height(target) /\ disk["block"][n] = Chain[target][n] => n <= cuts[j][2]

(* A block that two chains have at the same height is below their split.   *)
LEMMA SplitIsHigh ==
  ASSUME ShallowForks, NEW t \in Node, NEW b \in Block, NEW n \in Nat, 1 <= n,
         n <= Height(t), n <= Height(b), Chain[t][n] = Chain[b][n]
  PROVE  n <= SplitPoint(t, b)
<1> DEFINE maxSize == IF Height(t) < Height(b) THEN Height(t) ELSE Height(b)
           different == {i \in 1..maxSize : Chain[t][i] # Chain[b][i]}
           top == CHOOSE i \in different : \A j \in different : j <= i
<1>1. Height(t) \in Nat /\ Height(b) \in Nat /\ b \in Node /\ t \in Block
  BY Sequences, RootIsLow DEF Node
<1>2. maxSize \in Nat /\ n <= maxSize /\ maxSize <= Height(t) /\ maxSize <= Height(b)
  BY <1>1
<1>3. SplitPoint(t, b) = IF different = {} THEN maxSize ELSE top - 1
  BY Zenon DEF SplitPoint, Height
<1>4. \A i \in 1..n : Chain[t][i] = Chain[b][i]
  <2>1. PrefixAt(t, n) /\ PrefixAt(b, n)
    BY <1>1, TreeInduction DEF PrefixHolds
  <2> DEFINE c == Chain[t][n]
  <2>2. \A i \in 1..n : Chain[c][i] = Chain[t][i]
    BY <2>1 DEF PrefixAt
  <2>3. \A i \in 1..n : Chain[c][i] = Chain[b][i]
    BY <2>1 DEF PrefixAt
  <2> QED
    BY <2>2, <2>3
<1>5. \A i \in different : i \in Nat /\ n < i
  <2> SUFFICES ASSUME NEW i \in different
               PROVE  i \in Nat /\ n < i
    OBVIOUS
  <2>1. i \in 1..maxSize /\ Chain[t][i] # Chain[b][i]
    OBVIOUS
  <2>2. i \notin 1..n
    BY <1>4, <2>1
  <2> QED
    BY <1>2, <2>1, <2>2
<1>6. CASE different = {}
  BY <1>2, <1>3, <1>6
<1>7. CASE different # {}
  <2>1. \A i \in different : i = maxSize
    <3> SUFFICES ASSUME NEW i \in different, i # maxSize
                 PROVE  FALSE
      OBVIOUS
    <3>1. i \in Nat /\ 1 <= i /\ i + 1 <= maxSize /\ Chain[t][i] # Chain[b][i]
      BY <1>2
    <3>2. i \in 1..Height(t) /\ i \in 1..Height(b) /\ i + 1 \in 1..Height(t) /\ i + 1 \in 1..Height(b)
      BY <1>1, <1>2, <3>1
    <3>3. DOMAIN Chain[t] = 1..Height(t) /\ DOMAIN Chain[b] = 1..Height(b)
      BY <1>1, Sequences
    <3> QED
      BY <1>1, <3>1, <3>2, <3>3 DEF ShallowForks
  <2>2. PICK i \in different : TRUE
    BY <1>7
  <2>3. \A j \in different : j <= i
    BY <1>2, <2>1, <2>2
  <2>4. top \in different
    BY <2>2, <2>3
  <2> HIDE DEF top
  <2>5. top \in Nat /\ n < top
    BY <1>5, <2>4
  <2> QED
    BY <1>3, <1>7, <2>5
<1> QED
  BY <1>6, <1>7

LEMMA KeepStep ==
  ASSUME ShallowForks, ParserState, KeepInv, [Next]_vars
  PROVE  KeepInv'
<1>1. ASSUME NEW b \in Block, StartUpdate(b)
      PROVE  KeepInv'
  <2> DEFINE keep == SplitPoint(target, b)
             k == FirstTxIndex(disk["block"][keep + 1])
  <2>1. /\ target \in Node /\ disk["block"] = Chain[target]
        /\ target' = b /\ disk' = disk
    <3>1. /\ target \in Node /\ target' = b /\ disk' = disk
          /\ \A f \in Files : disk[f] = Content(f, target)
      BY <1>1 DEF ParserState, ParserInv, StartUpdate
    <3> QED
      BY <3>1, Contents DEF Files
  <2>2. parser' = "cutting" => cuts' = Rollback(keep)
    BY <1>1 DEF StartUpdate
  <2>3. parser' = "cutting" =>
          cuts' = << <<"tx", k>>, <<"hash", k>>, <<"sequence", k>>, <<"block", keep>> >>
    BY <2>2 DEF Rollback
  <2> HIDE DEF k
  <2>4. \A n \in 1..Len(disk["block"]) :
          n <= Height(b) /\ disk["block"][n] = Chain[b][n] => n <= keep
    <3> SUFFICES ASSUME NEW n \in 1..Len(disk["block"]), n <= Height(b),
                        disk["block"][n] = Chain[b][n]
                 PROVE  n <= keep
      OBVIOUS
    <3>1. Height(target) \in Nat
      BY <2>1, Sequences
    <3>2. n \in Nat /\ 1 <= n /\ n <= Height(target) /\ Chain[target][n] = Chain[b][n]
      BY <2>1, <3>1 DEF Height
    <3> QED
      BY <2>1, <3>2, SplitIsHigh
  <2> HIDE DEF keep
  <2>5. parser' = "cutting" =>
          /\ Len(cuts') = 4 /\ cuts'[1][1] = "tx" /\ cuts'[2][1] = "hash"
          /\ cuts'[3][1] = "sequence" /\ cuts'[4] = <<"block", keep>>
    BY <2>3
  <2> SUFFICES ASSUME parser' = "cutting", NEW j \in 1..Len(cuts'), cuts'[j][1] = "block"
               PROVE  /\ j = Len(cuts')
                      /\ \A n \in 1..Len(disk'["block"]) :
                           n <= Height(target') /\ disk'["block"][n] = Chain[target'][n]
                             => n <= cuts'[j][2]
    BY DEF KeepInv, Height
  <2>6. j = 4 /\ cuts'[j][2] = keep /\ Len(cuts') = 4
    <3>1. j \in 1..4
      BY <2>5
    <3>2. j # 1 /\ j # 2 /\ j # 3
      BY <2>5
    <3>3. j = 4
      BY <3>1, <3>2
    <3> QED
      BY <2>5, <3>3
  <2> QED
    BY <2>1, <2>4, <2>6
<1>2. CASE CutFile
  <2> SUFFICES ASSUME parser' = "cutting"
               PROVE  KeepInv'
    BY DEF KeepInv
  <2>1. /\ parser = "cutting" /\ cuts \in Seq(Files \X Nat) /\ cuts # <<>>
        /\ disk \in [Files -> Seq(Element)] /\ target' = target /\ cuts' = Tail(cuts)
        /\ disk' = [disk EXCEPT ![Head(cuts)[1]] = SubSeq(@, 1, Head(cuts)[2])]
        /\ Tail(cuts) # <<>>
    BY <1>2 DEF CutFile, ParserState, ParserInv, CutsInv
  <2> DEFINE S == Files \X Nat
  <2>2. cuts \in Seq(S)
    BY <2>1
  <2> HIDE DEF S
  <2>3. /\ Head(cuts) = cuts[1] /\ Len(cuts) \in Nat /\ 1 <= Len(cuts)
        /\ Len(cuts') = Len(cuts) - 1 /\ cuts' \in Seq(S)
        /\ \A j \in 1..Len(cuts') : cuts'[j] = cuts[j + 1]
    BY <2>1, <2>2, Rest
  <2>4. Len(cuts') # 0
    <3>1. cuts' # <<>>
      BY <2>1
    <3> QED
      BY <2>3, <3>1, EmptyIsShort
  <2>5. 1 \in 1..Len(cuts) /\ 1 # Len(cuts)
    BY <2>3, <2>4
  <2>6. cuts[1][1] # "block"
    BY <2>1, <2>5 DEF KeepInv
  <2>7. disk'["block"] = disk["block"]
    BY <2>1, <2>3, <2>6 DEF Files
  <2>8. ASSUME NEW j \in 1..Len(cuts'), cuts'[j][1] = "block"
        PROVE  /\ j = Len(cuts')
               /\ \A n \in 1..Len(disk["block"]) :
                    n <= Height(target) /\ disk["block"][n] = Chain[target][n] => n <= cuts'[j][2]
    <3>1. j + 1 \in 1..Len(cuts) /\ cuts'[j] = cuts[j + 1]
      BY <2>3
    <3>2. /\ j + 1 = Len(cuts)
          /\ \A n \in 1..Len(disk["block"]) :
               n <= Height(target) /\ disk["block"][n] = Chain[target][n] => n <= cuts[j + 1][2]
      BY <2>1, <2>8, <3>1 DEF KeepInv
    <3> QED
      BY <2>3, <3>1, <3>2
  <2> QED
    BY <2>1, <2>7, <2>8 DEF KeepInv, Height
<1>3. CASE NothingToAdd \/ \E f \in Files : AppendTo(f)
  <2>1. parser' # "cutting"
    BY <1>3 DEF NothingToAdd, AppendTo
  <2> QED
    BY <2>1 DEF KeepInv
<1>4. CASE Open \/ Reload \/ MapFile \/ Setup \/ Close \/ CallStep \/ UNCHANGED vars
  <2>1. UNCHANGED pvars
    BY <1>4, CallFrame DEF Open, Reload, Load, MapFile, Setup, Close, vars
  <2>2. disk' = disk /\ parser' = parser /\ cuts' = cuts /\ target' = target
    BY <2>1 DEF pvars
  <2> QED
    BY <2>2 DEF KeepInv, Height
<1> QED
  BY <1>1, <1>2, <1>3, <1>4 DEF Next, CallStep
-----------------------------------------------------------------------------
(* Calls.                                                                  *)
Busy == call \in {"search", "open"}

(* What a call is about.                                                   *)
CallType ==
  /\ call \in {"none", "threw", "search", "open"} /\ updates \in Nat
  /\ ~Busy => seen = <<>>
  /\ Busy =>
       /\ Loaded
       /\ parser # "idle" => updates # 0
       /\ \/ DOMAIN seen = {"block"} /\ index \in 0..(maxHeight - 1)
          \/ DOMAIN seen \in {{"hash"}, {"tx", "sequence"}} /\ index \in 0..(maxLoadedTx - 1)
       /\ call = "search" => "tx" \in DOMAIN seen

(* What it has read is of the loaded chain,                                *)
GoodReads ==
  \A f \in DOMAIN seen :
    seen[f] \in {Unread, Missing, Content(f, lastBlockHash)[index + 1]}

(* and the height it looks for is between the bounds of the search.        *)
Wished == Height(Txes[lastBlockHash][index + 1][1])

GoodSearch ==
  "tx" \in DOMAIN seen =>
    /\ first \in Nat /\ count \in Nat /\ first + count <= maxHeight
    /\ first <= Wished /\ Wished <= first + count
    /\ call = "open" <=> count = 0

Kept == ReorgCheck /\ GoodReads /\ GoodSearch

(* Or the last loaded block has been cut, and the update that cut it does  *)
(* not bring it back.                                                      *)
Gone ==
  /\ updates = 1 /\ parser # "cutting"
  /\ ~(maxHeight <= Height(target) /\ Chain[target][maxHeight] = lastBlockHash)

CallInv == CallType /\ (Busy /\ updates <= 1 => Kept \/ Gone)

(* Without the block in its place a check fails.                           *)
LEMMA GoneIsSeen ==
  ASSUME ViewInv, Loaded, Gone
  PROVE  ~ReorgCheck
<1> SUFFICES ASSUME ReorgCheck
             PROVE  FALSE
  OBVIOUS
<1>1. /\ lastBlockHash \in Block /\ maxHeight \in Nat /\ target \in Node /\ maxHeight > 0
      /\ disk \in [Files -> Seq(Element)] /\ parser \in {"idle", "adding"}
      /\ parser = "idle" => \A f \in Files : disk[f] = Content(f, target)
      /\ parser = "adding" => \A f \in Files : FirstPart(disk[f], Content(f, target))
  BY ChainInPlace DEF ViewInv, ParserInv, Gone, Loaded
<1>2. disk["block"] \in Seq(Element) /\ Content("block", target) = Chain[target]
  BY <1>1, Contents DEF Files
<1>3. FirstPart(disk["block"], Chain[target])
  BY <1>1, <1>2, WholePart DEF Files
<1>4. Len(disk["block"]) \in Nat /\ Height(target) \in Nat
  BY <1>1, <1>2, LenProperties, Sequences
<1>5. maxHeight - 1 < Len(disk["block"]) /\ disk["block"][(maxHeight - 1) + 1] = lastBlockHash
  BY <1>1, AnswerAssumption DEF ReorgCheck, Entry
<1>6. maxHeight \in 1..Len(disk["block"]) /\ (maxHeight - 1) + 1 = maxHeight
  BY <1>1, <1>4, <1>5
<1>7. maxHeight <= Height(target) /\ Chain[target][maxHeight] = lastBlockHash
  BY <1>3, <1>4, <1>5, <1>6 DEF FirstPart, Height
<1> QED
  BY <1>7 DEF Gone

(* Reading in a moment in which the last loaded block is in its place.     *)
LEMMA GoodEntry ==
  ASSUME ViewInv, Loaded, ReorgCheck, CallType, Busy, NEW f \in DOMAIN seen
  PROVE  Entry(f, index) \in {Missing, Content(f, lastBlockHash)[index + 1]}
<1>1. \/ f = "block" /\ index \in 0..(maxHeight - 1)
      \/ f \in Files \ {"block"} /\ index \in 0..(maxLoadedTx - 1)
  BY DEF CallType, Files
<1>2. CASE f = "block" /\ index \in 0..(maxHeight - 1)
  BY <1>2, ChainInPlace DEF Content
<1>3. CASE f \in Files \ {"block"} /\ index \in 0..(maxLoadedTx - 1)
  BY <1>3, ChainInPlace DEF Content
<1> QED
  BY <1>1, <1>2, <1>3

(* The parser leaves a call alone but for the files it reads.              *)
LEMMA CallRest ==
  ASSUME CallInv, UNCHANGED rvars, UNCHANGED <<call, index, seen, first, count>>,
         updates' \in Nat, Busy /\ parser' # "idle" => updates' # 0,
         Busy /\ updates' <= 1 => (updates <= 1 /\ Kept /\ ReorgCheck') \/ Gone'
  PROVE  CallInv'
<1>1. /\ phase' = phase /\ mapped' = mapped /\ maxHeight' = maxHeight
      /\ lastBlockHash' = lastBlockHash /\ maxLoadedTx' = maxLoadedTx
      /\ call' = call /\ index' = index /\ seen' = seen /\ first' = first /\ count' = count
  BY DEF rvars
<1>2. Busy' = Busy
  BY <1>1 DEF Busy
<1>3. CallType'
  BY <1>1, <1>2 DEF CallInv, CallType, Loaded
<1>4. GoodReads => GoodReads'
  BY <1>1 DEF GoodReads, Content
<1>5. GoodSearch => GoodSearch'
  BY <1>1 DEF GoodSearch, Wished, Height
<1>6. Kept /\ ReorgCheck' => Kept'
  BY <1>4, <1>5 DEF Kept
<1> QED
  BY <1>2, <1>3, <1>6 DEF CallInv

LEMMA CallStart ==
  ASSUME ViewInv, CallInv, NEW b \in Block, StartUpdate(b)
  PROVE  CallInv'
<1>1. /\ parser = "idle" /\ disk' = disk /\ UNCHANGED rvars
      /\ UNCHANGED <<call, index, seen, first, count>>
      /\ updates' = IF Busy THEN updates + 1 ELSE updates
  BY DEF StartUpdate, Busy
<1>2. updates \in Nat
  BY DEF CallInv, CallType
<1>3. updates' \in Nat /\ (Busy => updates' # 0)
  BY <1>1, <1>2
<1>4. ReorgCheck' = ReorgCheck
  BY <1>1 DEF ReorgCheck, Entry, rvars
<1>5. Busy /\ updates' <= 1 => updates <= 1 /\ updates # 1
  BY <1>1, <1>2
<1>6. Busy /\ updates' <= 1 => updates <= 1 /\ Kept /\ ReorgCheck'
  BY <1>4, <1>5 DEF CallInv, Gone, Kept
<1> QED
  BY <1>1, <1>3, <1>6, CallRest

LEMMA CallCut ==
  ASSUME ViewInv, KeepInv, CallInv, CutFile
  PROVE  CallInv'
<1>1. /\ parser = "cutting" /\ cuts \in Seq(Files \X Nat) /\ cuts # <<>> /\ target \in Node
      /\ disk \in [Files -> Seq(Element)] /\ target' = target
      /\ disk' = [disk EXCEPT ![Head(cuts)[1]] = SubSeq(@, 1, Head(cuts)[2])]
      /\ parser' = IF Tail(cuts) = <<>> THEN "adding" ELSE "cutting"
      /\ UNCHANGED rvars /\ UNCHANGED cvars /\ CutsInv
  BY DEF CutFile, ViewInv, ParserInv, CutsInv
<1>2. UNCHANGED <<call, index, seen, first, count>> /\ updates' = updates
  BY <1>1 DEF cvars
<1>3. updates \in Nat /\ (Busy => updates # 0 /\ Loaded)
  BY <1>1 DEF CallInv, CallType
<1>4. ASSUME Busy, updates <= 1
      PROVE  (Kept /\ ReorgCheck') \/ Gone'
  <2>1. Kept
    BY <1>1, <1>4 DEF CallInv, Gone
  <2>2. updates = 1
    BY <1>3, <1>4
  <2>3. /\ maxHeight' = maxHeight /\ mapped' = mapped /\ lastBlockHash' = lastBlockHash
        /\ lastBlockHash \in Block /\ maxHeight \in Nat /\ maxHeight > 0
    BY <1>1, <1>3, <1>4, <2>1, ChainInPlace DEF Kept, Loaded, rvars
  <2>4. /\ disk["block"] \in Seq(Element) /\ Len(disk["block"]) \in Nat
        /\ maxHeight - 1 < mapped["block"] /\ maxHeight - 1 < Len(disk["block"])
        /\ disk["block"][(maxHeight - 1) + 1] = lastBlockHash
    BY <1>1, <2>1, <2>3, AnswerAssumption, LenProperties DEF Kept, ReorgCheck, Entry, Files
  <2>5. maxHeight \in 1..Len(disk["block"]) /\ (maxHeight - 1) + 1 = maxHeight
    BY <2>3, <2>4
  <2> DEFINE S == Files \X Nat
  <2>6. cuts \in Seq(S)
    BY <1>1
  <2> HIDE DEF S
  <2>7. Head(cuts) = cuts[1] /\ cuts[1] \in S /\ Len(cuts) \in Nat /\ 1 <= Len(cuts)
        /\ Len(Tail(cuts)) = Len(cuts) - 1 /\ Tail(cuts) \in Seq(S)
    BY <1>1, <2>6, Rest
  <2>8. PICK g \in Files, n \in Nat : cuts[1] = <<g, n>>
    BY <2>7 DEF S
  <2>9. disk' = [disk EXCEPT ![g] = SubSeq(disk[g], 1, n)]
    <3>1. Head(cuts)[1] = g /\ Head(cuts)[2] = n
      BY <2>7, <2>8
    <3>2. disk' = [disk EXCEPT ![Head(cuts)[1]] = SubSeq(disk[Head(cuts)[1]], 1, Head(cuts)[2])]
      BY <1>1
    <3> QED
      BY <3>1, <3>2, Zenon
  <2>10. CASE g # "block"
    <3>1. disk'["block"] = disk["block"]
      BY <1>1, <2>9, <2>10 DEF Files
    <3>2. ReorgCheck'
      BY <2>1, <2>3, <3>1 DEF Kept, ReorgCheck, Entry
    <3> QED
      BY <2>1, <3>2
  <2>11. CASE g = "block"
    <3>1. 1 \in 1..Len(cuts) /\ cuts[1][1] = "block" /\ cuts[1][2] = n
      BY <2>7, <2>8, <2>11
    <3>2. /\ 1 = Len(cuts)
          /\ \A m \in 1..Len(disk["block"]) :
               m <= Height(target) /\ disk["block"][m] = Chain[target][m] => m <= n
      BY <1>1, <3>1 DEF KeepInv
    <3>3. Tail(cuts) = <<>>
      <4>1. Len(cuts) = 1
        BY <3>2, Zenon
      <4>2. Len(Tail(cuts)) = Len(cuts) - 1 /\ Tail(cuts) \in Seq(S)
        BY <2>7, Zenon
      <4>3. Len(Tail(cuts)) = 0
        BY <4>1, <4>2
      <4> QED
        BY <4>2, <4>3, EmptyIsShort
    <3>4. n <= Len(disk["block"])
      BY <1>1, <3>1 DEF CutsInv, Share
    <3>5. /\ disk'["block"] = SubSeq(disk["block"], 1, n) /\ Len(disk'["block"]) = n
          /\ \A i \in 1..n : disk'["block"][i] = disk["block"][i]
      <4>1. disk'["block"] = SubSeq(disk["block"], 1, n)
        BY <1>1, <2>9, <2>11 DEF Files
      <4> QED
        BY <2>4, <3>4, <4>1, Cut
    <3>6. CASE maxHeight <= n
      <4>1. maxHeight \in 1..n /\ maxHeight - 1 < n
        BY <2>5, <3>6
      <4>2. disk'["block"][(maxHeight - 1) + 1] = lastBlockHash
        BY <2>4, <2>5, <3>5, <4>1
      <4>3. ReorgCheck'
        BY <2>3, <2>4, <3>5, <4>1, <4>2 DEF ReorgCheck, Entry
      <4> QED
        BY <2>1, <4>3
    <3>7. CASE ~(maxHeight <= n)
      <4>1. ~(maxHeight <= Height(target) /\ Chain[target][maxHeight] = lastBlockHash)
        BY <2>4, <2>5, <3>2, <3>7
      <4>2. parser' = "adding"
        BY <1>1, <3>3
      <4> QED
        BY <1>1, <1>2, <2>2, <2>3, <4>1, <4>2 DEF Gone, Height
    <3> QED
      BY <3>6, <3>7
  <2> QED
    BY <2>10, <2>11
<1> QED
  BY <1>1, <1>2, <1>3, <1>4, CallRest

LEMMA CallAppend ==
  ASSUME ViewInv, CallInv, (\E f \in Files : AppendTo(f)) \/ NothingToAdd
  PROVE  CallInv'
<1>1. /\ parser = "adding" /\ parser' # "cutting" /\ target' = target /\ target \in Node
      /\ disk \in [Files -> Seq(Element)] /\ UNCHANGED rvars /\ UNCHANGED cvars
      /\ \A g \in Files : FirstPart(disk[g], Content(g, target))
  BY DEF AppendTo, NothingToAdd, ViewInv, ParserInv
<1>2. UNCHANGED <<call, index, seen, first, count>> /\ updates' = updates
  BY <1>1 DEF cvars
<1>3. updates \in Nat /\ (Busy => updates # 0 /\ Loaded)
  BY <1>1 DEF CallInv, CallType
<1>4. maxHeight' = maxHeight /\ mapped' = mapped /\ lastBlockHash' = lastBlockHash
  BY <1>1 DEF rvars
<1>5. Gone => Gone'
  BY <1>1, <1>2, <1>4 DEF Gone, Height
<1>6. ASSUME Busy, Kept
      PROVE  ReorgCheck'
  <2>1. lastBlockHash \in Block /\ maxHeight \in Nat /\ maxHeight > 0
    BY <1>3, <1>6, ChainInPlace DEF Kept, Loaded
  <2>2. /\ disk["block"] \in Seq(Element) /\ Len(disk["block"]) \in Nat
        /\ maxHeight - 1 < mapped["block"] /\ maxHeight - 1 < Len(disk["block"])
        /\ disk["block"][(maxHeight - 1) + 1] = lastBlockHash
    BY <1>1, <1>6, <2>1, AnswerAssumption, LenProperties DEF Kept, ReorgCheck, Entry, Files
  <2>3. CASE disk' = disk
    BY <1>4, <1>6, <2>3 DEF Kept, ReorgCheck, Entry
  <2>4. ASSUME NEW f \in Files, AppendTo(f), f # "block"
        PROVE  ReorgCheck'
    <3>1. disk'["block"] = disk["block"]
      BY <1>1, <2>4 DEF AppendTo, Files
    <3> QED
      BY <1>4, <1>6, <3>1 DEF Kept, ReorgCheck, Entry
  <2>5. CASE AppendTo("block")
    <3> DEFINE c == Chain[target]
    <3>1. c \in Seq(Element) /\ Len(c) \in Nat /\ Content("block", target) = c
      BY <1>1, Contents DEF Files
    <3>2. PICK n \in (Len(disk["block"]) + 1)..Len(c) :
            disk' = [disk EXCEPT !["block"] = SubSeq(c, 1, n)]
      BY <2>5, <3>1 DEF AppendTo
    <3>3. n \in Nat /\ n <= Len(c) /\ Len(disk["block"]) < n
      BY <2>2, <3>1, <3>2
    <3>4. FirstPart(disk["block"], c)
      BY <1>1, <3>1 DEF Files
    <3> HIDE DEF c
    <3>5. Len(SubSeq(c, 1, n)) = n /\ \A i \in 1..n : SubSeq(c, 1, n)[i] = c[i]
      BY <3>1, <3>3, Cut
    <3>6. disk'["block"] = SubSeq(c, 1, n)
      BY <1>1, <3>2 DEF Files
    <3>7. /\ maxHeight \in 1..Len(disk["block"]) /\ maxHeight \in 1..n
          /\ (maxHeight - 1) + 1 = maxHeight /\ maxHeight - 1 < n
      BY <2>1, <2>2, <3>3
    <3>8. disk'["block"][(maxHeight - 1) + 1] = lastBlockHash
      BY <2>2, <3>4, <3>5, <3>6, <3>7 DEF FirstPart
    <3> QED
      BY <1>4, <2>2, <3>5, <3>6, <3>7, <3>8 DEF ReorgCheck, Entry
  <2>6. disk' = disk \/ \E f \in Files : AppendTo(f)
    BY DEF NothingToAdd
  <2> QED
    BY <2>3, <2>4, <2>5, <2>6
<1> QED
  BY <1>1, <1>2, <1>3, <1>5, <1>6, CallRest DEF CallInv

(* Loading and closing forget the last call.                               *)
LEMMA CallEnds ==
  ASSUME NoCall
  PROVE  CallInv'
<1>1. call' = "none" /\ seen' = <<>> /\ updates' = 0
  BY DEF NoCall
<1>2. ~Busy'
  BY <1>1 DEF Busy
<1>3. CallType'
  BY <1>1, <1>2 DEF CallType
<1> QED
  BY <1>2, <1>3 DEF CallInv

(* Files are mapped between calls.                                         *)
LEMMA CallMap ==
  ASSUME CallInv, MapFile \/ Setup
  PROVE  CallInv'
<1>1. phase = "mapping" /\ UNCHANGED cvars
  BY DEF MapFile, Setup
<1>2. ~Busy /\ seen = <<>> /\ call \in {"none", "threw", "search", "open"} /\ updates \in Nat
  BY <1>1 DEF CallInv, CallType, Loaded
<1>3. call' = call /\ seen' = seen /\ updates' = updates
  BY <1>1 DEF cvars
<1>4. ~Busy'
  BY <1>2, <1>3 DEF Busy
<1>5. CallType'
  BY <1>2, <1>3, <1>4 DEF CallType
<1> QED
  BY <1>4, <1>5 DEF CallInv

(* What the reader has loaded, and the check, while only a call goes on.   *)
LEMMA SameView ==
  ASSUME UNCHANGED pvars, UNCHANGED rvars
  PROVE  /\ Loaded' = Loaded /\ ReorgCheck' = ReorgCheck
         /\ maxHeight' = maxHeight /\ maxLoadedTx' = maxLoadedTx
         /\ lastBlockHash' = lastBlockHash /\ parser' = parser
         /\ reloaded' = reloaded
<1>1. /\ disk' = disk /\ mapped' = mapped /\ phase' = phase /\ maxHeight' = maxHeight
      /\ maxLoadedTx' = maxLoadedTx /\ lastBlockHash' = lastBlockHash /\ parser' = parser
      /\ reloaded' = reloaded
  BY DEF pvars, rvars
<1> QED
  BY <1>1 DEF Loaded, ReorgCheck, Entry

(* A call begins with a check, which finds the block in its place or throws. *)
LEMMA CallBegins ==
  ASSUME ViewInv, CallInv, GetBlock \/ GetTxHash \/ GetTransaction
  PROVE  CallInv'
<1>1. PICK files, i, next :
        /\ Check(files, i, next)
        /\ \/ files = {"block"} /\ i \in 0..(maxHeight - 1) /\ next = "open"
           \/ files = {"hash"} /\ i \in 0..(maxLoadedTx - 1) /\ next = "open"
           \/ files = {"tx", "sequence"} /\ i \in 0..(maxLoadedTx - 1) /\ next = "search"
  BY DEF GetBlock, GetTxHash, GetTransaction
<1>2. UNCHANGED pvars /\ UNCHANGED rvars /\ Loaded
  BY <1>1 DEF Check
<1>3. /\ Loaded' = Loaded /\ ReorgCheck' = ReorgCheck /\ maxHeight' = maxHeight
      /\ maxLoadedTx' = maxLoadedTx /\ lastBlockHash' = lastBlockHash /\ parser' = parser
  BY <1>2, SameView
<1>4. CASE ~ReorgCheck
  <2>1. call' = "threw" /\ seen' = <<>> /\ updates' = 0
    BY <1>1, <1>4 DEF Check
  <2>2. ~Busy'
    BY <2>1 DEF Busy
  <2>3. CallType'
    BY <2>1, <2>2 DEF CallType
  <2> QED
    BY <2>2, <2>3 DEF CallInv
<1>5. CASE ReorgCheck
  <2>1. /\ call' = next /\ index' = i /\ seen' = [f \in files |-> Unread] /\ first' = 0
        /\ count' = (IF next = "search" THEN maxHeight ELSE 0)
        /\ updates' = IF parser = "idle" THEN 0 ELSE 1
    BY <1>1, <1>5 DEF Check
  <2>2. DOMAIN seen' = files /\ \A f \in files : seen'[f] = Unread
    BY <2>1
  <2>3. Busy' /\ call' \in {"none", "threw", "search", "open"}
    BY <1>1, <2>1 DEF Busy
  <2>4. updates' \in Nat /\ (parser' # "idle" => updates' # 0)
    BY <1>3, <2>1
  <2>5. CallType'
    <3>1. \/ DOMAIN seen' = {"block"} /\ index' \in 0..(maxHeight' - 1)
          \/ DOMAIN seen' \in {{"hash"}, {"tx", "sequence"}} /\ index' \in 0..(maxLoadedTx' - 1)
      BY <1>1, <1>3, <2>1, <2>2
    <3>2. call' = "search" => "tx" \in DOMAIN seen'
      BY <1>1, <2>1, <2>2
    <3> QED
      BY <1>2, <1>3, <2>3, <2>4, <3>1, <3>2 DEF CallType
  <2>6. GoodReads'
    BY <2>2 DEF GoodReads
  <2>7. GoodSearch'
    <3> SUFFICES ASSUME "tx" \in DOMAIN seen'
                 PROVE  /\ first' \in Nat /\ count' \in Nat /\ first' + count' <= maxHeight'
                        /\ first' <= Wished' /\ Wished' <= first' + count'
                        /\ call' = "open" <=> count' = 0
      BY DEF GoodSearch
    <3>1. next = "search" /\ i \in 0..(maxLoadedTx - 1)
      BY <1>1, <2>2
    <3>2. Height(Txes[lastBlockHash][i + 1][1]) \in 1..maxHeight
      BY <1>2, <1>5, <3>1, Ordered
    <3>3. Wished' = Height(Txes[lastBlockHash][i + 1][1])
      BY <1>3, <2>1 DEF Wished, Height
    <3>4. Wished' \in 1..maxHeight
      BY <3>2, <3>3
    <3>5. first' = 0 /\ count' = maxHeight /\ call' = "search"
      BY <2>1, <3>1
    <3>6. maxHeight \in Nat /\ maxHeight > 0
      BY <1>2, <1>5, ChainInPlace DEF Loaded
    <3> QED
      BY <1>3, <3>4, <3>5, <3>6
  <2> QED
    BY <1>3, <1>5, <2>5, <2>6, <2>7 DEF CallInv, Kept
<1> QED
  BY <1>4, <1>5

(* Half of a number.                                                       *)
LEMMA Half ==
  ASSUME NEW n \in Nat, n # 0
  PROVE  n \div 2 \in Nat /\ n \div 2 < n
OBVIOUS

(* A probe halves the search, on the side of the height it looks for.      *)
LEMMA CallProbe ==
  ASSUME ViewInv, CallInv, Probe
  PROVE  CallInv'
<1> DEFINE step == count \div 2
           h == first + step
<1>1. /\ call = "search" /\ UNCHANGED pvars /\ UNCHANGED rvars
      /\ index' = index /\ seen' = seen /\ updates' = updates
      /\ call' = IF count' = 0 THEN "open" ELSE "search"
  BY DEF Probe
<1>2. IF Before(Entry("block", h))
        THEN first' = first /\ count' = step
        ELSE first' = h + 1 /\ count' = count - (step + 1)
  BY DEF Probe
<1>3. /\ Loaded' = Loaded /\ ReorgCheck' = ReorgCheck /\ maxHeight' = maxHeight
      /\ maxLoadedTx' = maxLoadedTx /\ lastBlockHash' = lastBlockHash /\ parser' = parser
  BY <1>1, SameView
<1>4. Busy /\ CallType
  BY <1>1 DEF Busy, CallInv
<1>5. Busy' /\ call' \in {"search", "open"}
  BY <1>1 DEF Busy
<1>6. CallType'
  BY <1>1, <1>3, <1>4, <1>5 DEF CallType
<1>7. Gone => Gone'
  BY <1>1, <1>3 DEF Gone, Height, pvars
<1>8. ASSUME Kept
      PROVE  Kept'
  <2>1. "tx" \in DOMAIN seen /\ index \in 0..(maxLoadedTx - 1) /\ Loaded
    BY <1>1, <1>4 DEF CallType
  <2>2. /\ first \in Nat /\ count \in Nat /\ first + count <= maxHeight
        /\ first <= Wished /\ Wished <= first + count /\ count # 0
    BY <1>1, <1>8, <2>1 DEF Kept, GoodSearch
  <2>3. step \in Nat /\ step < count
    BY <2>2, Half
  <2> HIDE DEF step
  <2>4. /\ maxHeight \in Nat /\ Wished \in 1..maxHeight
        /\ \A k \in 0..(maxHeight - 1) :
             Entry("block", k) # Missing /\ (index < FirstTxIndex(Entry("block", k)) <=> Wished <= k)
    BY <1>8, <2>1, ChainInPlace, Ordered DEF Kept, Wished
  <2>5. h \in 0..(maxHeight - 1)
    BY <2>2, <2>3, <2>4
  <2>6. Before(Entry("block", h)) <=> Wished <= h
    BY <2>4, <2>5 DEF Before
  <2>7. Wished' = Wished
    BY <1>1, <1>3 DEF Wished, Height
  <2>8. CASE Wished <= h
    <3>1. first' = first /\ count' = step
      BY <1>2, <2>6, <2>8
    <3>2. /\ first' \in Nat /\ count' \in Nat /\ first' + count' <= maxHeight
          /\ first' <= Wished /\ Wished <= first' + count'
      BY <2>2, <2>3, <2>4, <2>8, <3>1
    <3> QED
      BY <1>1, <1>3, <1>8, <2>7, <3>2 DEF Kept, GoodReads, GoodSearch, Content
  <2>9. CASE ~(Wished <= h)
    <3>1. first' = h + 1 /\ count' = count - (step + 1)
      BY <1>2, <2>6, <2>9
    <3>2. /\ first' \in Nat /\ count' \in Nat /\ first' + count' <= maxHeight
          /\ first' <= Wished /\ Wished <= first' + count'
      BY <2>2, <2>3, <2>4, <2>9, <3>1
    <3> QED
      BY <1>1, <1>3, <1>8, <2>7, <3>2 DEF Kept, GoodReads, GoodSearch, Content
  <2> QED
    BY <2>8, <2>9
<1> QED
  BY <1>1, <1>4, <1>6, <1>7, <1>8 DEF CallInv

(* A read through a pointer.                                               *)
LEMMA CallRead ==
  ASSUME ViewInv, CallInv, NEW g \in Files, Read(g)
  PROVE  CallInv'
<1>1. /\ call = "open" /\ g \in DOMAIN seen /\ seen' = [seen EXCEPT ![g] = Entry(g, index)]
      /\ UNCHANGED pvars /\ UNCHANGED rvars
      /\ call' = call /\ index' = index /\ first' = first /\ count' = count /\ updates' = updates
  BY DEF Read
<1>2. DOMAIN seen' = DOMAIN seen
  BY <1>1
<1>3. /\ Loaded' = Loaded /\ ReorgCheck' = ReorgCheck /\ maxHeight' = maxHeight
      /\ maxLoadedTx' = maxLoadedTx /\ lastBlockHash' = lastBlockHash /\ parser' = parser
  BY <1>1, SameView
<1>4. Busy /\ Busy' /\ CallType
  BY <1>1 DEF Busy, CallInv
<1>5. CallType'
  BY <1>1, <1>2, <1>3, <1>4 DEF CallType
<1>6. Gone => Gone'
  BY <1>1, <1>3 DEF Gone, Height, pvars
<1>7. ASSUME Kept
      PROVE  Kept'
  <2>1. Entry(g, index) \in {Missing, Content(g, lastBlockHash)[index + 1]}
    BY <1>1, <1>4, <1>7, GoodEntry DEF Kept, CallType
  <2> DEFINE e == Entry(g, index)
             C(f) == Content(f, lastBlockHash)[index + 1]
  <2>2. /\ \A f \in DOMAIN seen : f # g => seen'[f] = seen[f]
        /\ seen'[g] = e
    BY <1>1
  <2>3. e \in {Missing, C(g)} /\ \A f \in DOMAIN seen : seen[f] \in {Unread, Missing, C(f)}
    BY <1>7, <2>1 DEF Kept, GoodReads
  <2>4. \A f : (Content(f, lastBlockHash)[index + 1])' = C(f)
    BY <1>1, <1>3 DEF Content
  <2> HIDE DEF e, C
  <2>5. \A f \in DOMAIN seen : seen'[f] \in {Unread, Missing, C(f)}
    BY <2>2, <2>3
  <2>6. GoodReads'
    BY <1>2, <2>4, <2>5 DEF GoodReads
  <2>7. GoodSearch'
    BY <1>1, <1>2, <1>3, <1>7 DEF Kept, GoodSearch, Wished, Height
  <2> QED
    BY <1>3, <1>7, <2>6, <2>7 DEF Kept
<1> QED
  BY <1>1, <1>4, <1>5, <1>6, <1>7 DEF CallInv

(* Nothing happens.                                                        *)
LEMMA CallStutter ==
  ASSUME CallInv, UNCHANGED vars
  PROVE  CallInv'
<1>1. /\ UNCHANGED rvars /\ UNCHANGED pvars /\ UNCHANGED <<call, index, seen, first, count>>
      /\ updates' = updates
  BY DEF vars, cvars
<1>2. ReorgCheck' = ReorgCheck /\ parser' = parser /\ maxHeight' = maxHeight /\ lastBlockHash' = lastBlockHash
  BY <1>1, SameView
<1>3. Gone => Gone'
  BY <1>1, <1>2 DEF Gone, Height, pvars
<1>4. updates \in Nat /\ (Busy /\ parser # "idle" => updates # 0)
  BY DEF CallInv, CallType
<1>5. Busy /\ updates <= 1 => (Kept /\ ReorgCheck') \/ Gone'
  BY <1>2, <1>3 DEF CallInv, Kept
<1> QED
  BY <1>1, <1>2, <1>4, <1>5, CallRest

LEMMA CallInvStep ==
  ASSUME ViewInv, KeepInv, CallInv, [Next]_vars
  PROVE  CallInv'
<1>1. ASSUME NEW b \in Block, StartUpdate(b)
      PROVE  CallInv'
  BY <1>1, CallStart
<1>2. CASE CutFile
  BY <1>2, CallCut
<1>3. CASE NothingToAdd \/ \E f \in Files : AppendTo(f)
  BY <1>3, CallAppend
<1>4. CASE Open \/ Reload \/ Close \/ Forget
  <2>1. NoCall
    BY <1>4 DEF Open, Reload, Load, Close, Forget
  <2> QED
    BY <2>1, CallEnds
<1>5. CASE MapFile \/ Setup
  BY <1>5, CallMap
<1>6. CASE GetBlock \/ GetTxHash \/ GetTransaction
  BY <1>6, CallBegins
<1>7. CASE Probe
  BY <1>7, CallProbe
<1>8. ASSUME NEW f \in Files, Read(f)
      PROVE  CallInv'
  BY <1>8, CallRead
<1>9. CASE UNCHANGED vars
  BY <1>9, CallStutter
<1> QED
  BY <1>1, <1>2, <1>3, <1>4, <1>5, <1>6, <1>7, <1>8, <1>9 DEF Next

(* The invariant with the call under way.                                  *)
FullInv == ViewInv /\ KeepInv /\ CallInv

LEMMA FullInvariance == ShallowForks => (Spec => []FullInv)
<1> SUFFICES ASSUME ShallowForks
             PROVE  Spec => []FullInv
  OBVIOUS
<1>1. Init => KeepInv /\ CallInv
  <2> SUFFICES ASSUME Init
               PROVE  KeepInv /\ CallInv
    OBVIOUS
  <2>1. parser = "idle" /\ call = "none" /\ seen = <<>> /\ updates = 0
    BY DEF Init
  <2>2. ~Busy
    BY <2>1 DEF Busy
  <2>3. CallType
    BY <2>1, <2>2 DEF CallType
  <2> QED
    BY <2>1, <2>2, <2>3 DEF KeepInv, CallInv
<1>2. ViewInv /\ KeepInv /\ CallInv /\ [Next]_vars => KeepInv' /\ CallInv'
  BY KeepStep, CallInvStep DEF ViewInv, ParserState
<1>3. Spec => []ViewInv
  BY ViewInvariance
<1> QED
  BY <1>1, <1>2, <1>3, PTL DEF Spec, FullInv

(* A reader does not read another chain unnoticed: what a call (getBlock,  *)
(* getTxHash, the constructor of Transaction) has read through its         *)
(* pointers, between whatever steps of an update, is of the chain that was *)
(* loaded, or beyond the end of a file, or else the check of the next call *)
(* throws, as long as no second update has begun.                          *)
THEOREM ReaderSeesOneChain == ShallowForks => (Spec => []NeverAnotherChain)
<1>1. FullInv => NeverAnotherChain
  <2> SUFFICES ASSUME ViewInv, CallInv, Loaded, call = "open", updates <= 1, ReorgCheck
               PROVE  /\ \A f \in DOMAIN seen :
                           seen[f] \in {Unread, Missing, Content(f, lastBlockHash)[index + 1]}
                      /\ "tx" \in DOMAIN seen => first = Len(Chain[Txes[lastBlockHash][index + 1][1]])
    BY DEF NeverAnotherChain, FullInv
  <2>1. Busy /\ CallType
    BY DEF Busy, CallInv
  <2>2. Kept
    BY <2>1, GoneIsSeen DEF CallInv
  <2>3. ASSUME "tx" \in DOMAIN seen
        PROVE  first = Wished
    <3>1. first \in Nat /\ count = 0 /\ first <= Wished /\ Wished <= first + count
      BY <2>2, <2>3 DEF Kept, GoodSearch
    <3>2. index \in 0..(maxLoadedTx - 1)
      BY <2>1, <2>3 DEF CallType
    <3>3. maxHeight \in Nat /\ Wished \in 1..maxHeight
      BY <3>2, ChainInPlace, Ordered DEF Wished
    <3> QED
      BY <3>1, <3>3
  <2> QED
    BY <2>2, <2>3 DEF Kept, GoodReads, Wished, Height
<1> QED
  BY <1>1, FullInvariance, PTL

-----------------------------------------------------------------------------
(* A transaction is not an answer from nowhere.                            *)
LEMMA TxIsAnAnswer ==
  ASSUME NEW b \in Node, NEW i \in 1..Count(b)
  PROVE  Txes[b][i] # Missing
<1>1. Txes[b] \in Seq(Block \X Nat)
  BY Sequences
<1>2. Txes[b] \in [1..Count(b) -> Block \X Nat]
  BY <1>1, LenProperties DEF Count
<1>3. Txes[b][i] \in Block \X Nat
  BY <1>2
<1> QED
  BY <1>3, AnswerAssumption

(* While the parser rests, the check succeeds and every entry is there.    *)
LEMMA QuietView ==
  ASSUME ViewInv, Loaded, quiet
  PROVE  /\ ReorgCheck
         /\ \A h \in 0..(maxHeight - 1) : Entry("block", h) # Missing
         /\ \A i \in 0..(maxLoadedTx - 1) :
              /\ Entry("hash", i) # Missing /\ Entry("tx", i) # Missing
              /\ ~reloaded => Entry("sequence", i) # Missing
<1> DEFINE l == lastBlockHash
           t == target
<1>1. /\ parser = "idle" /\ todo = <<>> /\ target \in Node
      /\ \A f \in Wanted : mapped[f] = Len(disk[f]) \/ \E i \in 1..Len(todo) : todo[i] = f
      /\ maxHeight <= Len(disk["block"]) /\ disk["block"][maxHeight] = l
      /\ \A f \in Files : disk[f] = Content(f, target)
      /\ l \in Block /\ maxLoadedTx = Count(l) /\ maxHeight \in Int /\ maxHeight > 0
  BY DEF ViewInv, ParserInv, ReaderInv, QuietInv, Loaded
<1>2. \A f \in Wanted : mapped[f] = Len(disk[f])
  <2>1. 1..Len(todo) = {}
    BY <1>1
  <2> QED
    BY <1>1, <2>1, Zenon
<1>3. /\ disk["block"] = Chain[t] /\ mapped["block"] = Height(t)
      /\ disk["hash"] = Txes[t] /\ mapped["hash"] = Count(t)
      /\ disk["tx"] = Txes[t] /\ mapped["tx"] = Count(t)
      /\ ~reloaded => disk["sequence"] = Txes[t] /\ mapped["sequence"] = Count(t)
  <2>1. \A f \in Files : (f = "block" => disk[f] = Chain[t]) /\ (f # "block" => disk[f] = Txes[t])
    BY <1>1, Contents
  <2>2. /\ disk["block"] = Chain[t] /\ disk["hash"] = Txes[t] /\ disk["tx"] = Txes[t]
        /\ disk["sequence"] = Txes[t]
    BY <2>1 DEF Files
  <2>3. /\ mapped["block"] = Len(disk["block"]) /\ mapped["hash"] = Len(disk["hash"])
        /\ mapped["tx"] = Len(disk["tx"])
        /\ ~reloaded => mapped["sequence"] = Len(disk["sequence"])
    BY <1>2, Zenon DEF Wanted
  <2> QED
    BY <2>2, <2>3, Zenon DEF Height, Count
<1>4. Height(t) \in Nat /\ Count(t) \in Nat /\ Chain[t] \in Seq(Block) /\ l \in Node /\ Count(l) \in Nat
  BY <1>1, Sequences DEF Node
<1>5. maxHeight \in 1..Height(t) /\ l = Chain[t][maxHeight] /\ (maxHeight - 1) + 1 = maxHeight
  BY <1>1, <1>3, <1>4 DEF Height
<1>6. ReorgCheck
  <2>1. maxHeight - 1 < mapped["block"] /\ maxHeight - 1 < Len(disk["block"])
    BY <1>3, <1>4, <1>5 DEF Height
  <2> QED
    BY <1>3, <1>5, <2>1 DEF ReorgCheck, Entry
<1>7. t \in Block
  BY <1>1, <1>4, <1>5, RootIsLow DEF Node
<1>8. Count(l) <= Count(t)
  <2>1. PrefixAt(t, maxHeight)
    BY <1>5, <1>7, TreeInduction DEF PrefixHolds
  <2> QED
    BY <1>5, <2>1, Zenon DEF PrefixAt
<1>9. ASSUME NEW h \in 0..(maxHeight - 1)
      PROVE  Entry("block", h) # Missing
  <2>1. h < Height(t) /\ h + 1 \in 1..Height(t)
    BY <1>4, <1>5
  <2>2. Entry("block", h) = Chain[t][h + 1]
    BY <1>3, <2>1 DEF Entry, Height
  <2>3. Chain[t] \in [1..Height(t) -> Block]
    BY <1>4, LenProperties DEF Height
  <2>4. Chain[t][h + 1] \in Block
    BY <2>1, <2>3
  <2> QED
    BY <2>2, <2>4, AnswerAssumption
<1>10. ASSUME NEW i \in 0..(maxLoadedTx - 1)
       PROVE  /\ Entry("hash", i) # Missing /\ Entry("tx", i) # Missing
              /\ ~reloaded => Entry("sequence", i) # Missing
  <2>1. i < Count(t) /\ i + 1 \in 1..Count(t)
    BY <1>1, <1>4, <1>8
  <2>2. Txes[t][i + 1] # Missing
    BY <1>1, <2>1, TxIsAnAnswer
  <2>3. Entry("hash", i) = Txes[t][i + 1] /\ Entry("tx", i) = Txes[t][i + 1]
    BY <1>3, <2>1, Zenon DEF Entry, Count
  <2>4. ~reloaded => Entry("sequence", i) = Txes[t][i + 1]
    BY <1>3, <2>1, Zenon DEF Entry, Count
  <2> QED
    BY <2>2, <2>3, <2>4, Zenon
<1> QED
  BY <1>6, <1>9, <1>10

(* What a step of a call does in a quiet view.                             *)
LEMMA QuietCall ==
  ASSUME ViewInv, CallInv, CompleteIfQuiet, quiet, CallStep
  PROVE  /\ call' # "threw"
         /\ \A f \in DOMAIN seen' : seen'[f] = Missing => f = "sequence" /\ reloaded
<1>0. /\ call # "threw" /\ CallType
      /\ \A f \in DOMAIN seen : seen[f] = Missing => f = "sequence" /\ reloaded
  BY Zenon DEF CompleteIfQuiet, CallInv
<1>1. ASSUME NEW files, NEW i, NEW next, next # "threw", Check(files, i, next)
      PROVE  /\ call' # "threw"
             /\ \A f \in DOMAIN seen' : seen'[f] = Missing => f = "sequence" /\ reloaded
  <2>1. ReorgCheck
    BY <1>1, QuietView DEF Check
  <2>2. call' = next /\ seen' = [f \in files |-> Unread]
    BY <1>1, <2>1 DEF Check
  <2> QED
    BY <1>1, <2>2, AnswerAssumption
<1>2. CASE GetBlock \/ GetTxHash \/ GetTransaction
  BY <1>1, <1>2 DEF GetBlock, GetTxHash, GetTransaction
<1>3. CASE Probe
  <2>1. call' \in {"open", "search"} /\ seen' = seen
    BY <1>3 DEF Probe
  <2> QED
    BY <1>0, <2>1
<1>4. CASE Forget
  BY <1>4 DEF Forget, NoCall
<1>5. ASSUME NEW g \in Files, Read(g)
      PROVE  /\ call' # "threw"
             /\ \A f \in DOMAIN seen' : seen'[f] = Missing => f = "sequence" /\ reloaded
  <2>1. /\ call = "open" /\ call' = call /\ g \in DOMAIN seen
        /\ seen' = [seen EXCEPT ![g] = Entry(g, index)]
    BY <1>5 DEF Read
  <2>2. /\ Loaded
        /\ \/ DOMAIN seen = {"block"} /\ index \in 0..(maxHeight - 1)
           \/ DOMAIN seen \in {{"hash"}, {"tx", "sequence"}} /\ index \in 0..(maxLoadedTx - 1)
    BY <1>0, <2>1 DEF CallType, Busy
  <2>3. \/ g = "block" /\ index \in 0..(maxHeight - 1)
        \/ g \in {"hash", "tx", "sequence"} /\ index \in 0..(maxLoadedTx - 1)
    BY <2>1, <2>2
  <2>4. Entry(g, index) = Missing => g = "sequence" /\ reloaded
    <3>1. CASE g = "block" /\ index \in 0..(maxHeight - 1)
      BY <2>2, <3>1, QuietView
    <3>2. CASE g \in {"hash", "tx", "sequence"} /\ index \in 0..(maxLoadedTx - 1)
      <4>1. /\ Entry("hash", index) # Missing /\ Entry("tx", index) # Missing
            /\ ~reloaded => Entry("sequence", index) # Missing
        BY <2>2, <3>2, QuietView
      <4> QED
        BY <3>2, <4>1, Zenon
    <3> QED
      BY <2>3, <3>1, <3>2
  <2>5. DOMAIN seen' = DOMAIN seen /\ seen'[g] = Entry(g, index)
        /\ \A f \in DOMAIN seen : f # g => seen'[f] = seen[f]
    BY <2>1
  <2> QED
    BY <1>0, <2>1, <2>4, <2>5, Zenon
<1> QED
  BY <1>2, <1>3, <1>4, <1>5 DEF CallStep

(* A reader that loads the chain while the parser rests can read all that  *)
(* it counts, up to the next update: blocks, hashes and transactions, and  *)
(* sequence numbers unless it was a reload; and no call throws.            *)
THEOREM QuietReaderSeesAll == ShallowForks => (Spec => []CompleteIfQuiet)
<1>1. Init => CompleteIfQuiet
  BY DEF Init, CompleteIfQuiet
<1>2. FullInv /\ CompleteIfQuiet /\ [Next]_vars => CompleteIfQuiet'
  <2> SUFFICES ASSUME ViewInv, CallInv, CompleteIfQuiet, [Next]_vars, quiet'
               PROVE  /\ call' # "threw"
                      /\ \A f \in DOMAIN seen' : seen'[f] = Missing => f = "sequence" /\ reloaded'
    BY Zenon DEF FullInv, CompleteIfQuiet
  <2>1. ASSUME NEW b \in Block, StartUpdate(b)
        PROVE  FALSE
    BY <2>1 DEF StartUpdate
  <2>2. CASE CutFile \/ NothingToAdd \/ \E f \in Files : AppendTo(f)
    BY <2>2 DEF CutFile, NothingToAdd, AppendTo, ViewInv, QuietInv
  <2>3. CASE Open \/ Reload \/ Close
    <3>1. call' = "none" /\ seen' = <<>>
      BY <2>3 DEF Open, Reload, Load, Close, NoCall
    <3> QED
      BY <3>1
  <2>4. CASE MapFile \/ Setup \/ UNCHANGED vars
    <3>1. quiet /\ call' = call /\ seen' = seen /\ reloaded' = reloaded
      BY <2>4 DEF MapFile, Setup, vars, cvars, rvars
    <3> QED
      BY <3>1, Zenon DEF CompleteIfQuiet
  <2>5. CASE CallStep
    <3>1. quiet /\ reloaded' = reloaded
      BY <2>5, CallFrame DEF rvars
    <3> QED
      BY <2>5, <3>1, QuietCall, Zenon
  <2> QED
    BY <2>1, <2>2, <2>3, <2>4, <2>5 DEF Next, CallStep
<1> QED
  BY <1>1, <1>2, FullInvariance, PTL DEF Spec
=============================================================================
