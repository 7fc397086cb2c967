-------------------------- MODULE FileMapperProofs --------------------------
(***************************************************************************)
(* The pair of mapped files is the array of records that RecordArray       *)
(* describes: every step of the mappers is a step of the array or changes  *)
(* nothing that can be read from it, whatever is buffered, wherever the    *)
(* files are cut and whenever the process is killed.                       *)
(***************************************************************************)
EXTENDS FileMapper, TLAPS, SequenceTheorems

(* What the two files hold together with what is buffered.                 *)
Idx == IF process = "none" THEN disk["index"] ELSE Index
Dat == IF process = "none" THEN disk["data"] ELSE Data

Cell  == [write : Nat, value : Value \cup {None}, part : Nat]
Ref   == [offset : Int, write : Nat]
Entry == [first : Ref, second : Ref]
Elements == {"first", "second"}

Mapper(S) == [fileEnd : Nat, buffer : Seq(S), writePos : Nat]

TypeInv ==
  /\ DOMAIN disk = Files /\ disk["index"] \in Seq(Entry) /\ disk["data"] \in Seq(Cell)
  /\ DOMAIN mapper = Files
  /\ mapper["index"] \in Mapper(Entry) /\ mapper["data"] \in Mapper(Cell)
  /\ process \in {"none", "open", "writing", "closing"}
  /\ writes \in Nat

(* A mapper of an open file maps all of it, and writes behind its buffer.  *)
MapInv ==
  /\ process # "none" =>
       \A f \in Files : /\ mapper[f].fileEnd = Len(disk[f])
                        /\ mapper[f].writePos = Len(disk[f]) + Len(mapper[f].buffer)
  /\ process = "open" => \A f \in Files : mapper[f].buffer = << >>
  /\ process = "closing" => mapper["index"].buffer = << >>

(* Offsets come from different writes.                                     *)
RefInv ==
  /\ \A i \in 1..Len(Idx) : Idx[i].first # InvalidFileIndex
  /\ \A i \in 1..Len(Idx), e \in Elements : Idx[i][e] # InvalidFileIndex =>
       Idx[i][e].offset >= 0 /\ Idx[i][e].write \in 1..writes
  /\ \A i, j \in 1..Len(Idx), e, g \in Elements :
       Idx[i][e] # InvalidFileIndex /\ Idx[i][e].write = Idx[j][g].write => i = j /\ e = g

(* The first elements that can be read lie in the order of their records.  *)
OrderInv ==
  \A i, j \in 1..Len(Idx) :
    i < j /\ DataAt(Dat, Idx[i].first) # Torn =>
      Idx[i].first.offset + Size[DataAt(Dat, Idx[i].first)] <= Idx[j].first.offset

(* What was there when the files were last closed is on disk.              *)
SavedInv ==
  /\ DOMAIN saved = 1..Len(saved) /\ Len(saved) \in Nat
  /\ Len(saved) <= Len(disk["index"])
  /\ \A i \in 1..Len(saved), e \in Elements :
       saved[i][e] # None =>
         /\ Idx[i][e] # InvalidFileIndex
         /\ DataAt(disk["data"], Idx[i][e]) = DataAt(Dat, Idx[i][e])

MapperInv == TypeInv /\ MapInv /\ RefInv /\ OrderInv /\ SavedInv

-----------------------------------------------------------------------------
(* The element v can be read at the offset.                                *)
Whole(cells, ref, v) ==
  /\ ref.offset + Size[v] <= Len(cells)
  /\ cells[ref.offset + 1].value = v
  /\ \A p \in 1..Size[v] : /\ cells[ref.offset + p].write = ref.write
                           /\ cells[ref.offset + p].part = p

(* Offsets that lead into the file, not before it.                         *)
Proper(ref) == ref \in Ref /\ ref # InvalidFileIndex /\ ref.offset >= 0

(* An offset leads to an element that is there whole, or to something      *)
(* torn.                                                                   *)
LEMMA DataCases ==
  ASSUME NEW cells \in Seq(Cell), NEW ref, Proper(ref)
  PROVE  /\ DataAt(cells, ref) \in Value \cup {Torn}
         /\ \A v \in Value : DataAt(cells, ref) = v <=> Whole(cells, ref, v)
<1> DEFINE at == IF ref.offset < Len(cells) THEN cells[ref.offset + 1].value ELSE None
<1>1. ref.offset \in Nat /\ Len(cells) \in Nat
  BY LenProperties DEF Proper, Ref
<1>2. at \in Value \cup {None}
  <2>1. ref.offset < Len(cells) => cells[ref.offset + 1] \in Cell
    BY <1>1, ElementOfSeq
  <2> QED
    BY <2>1 DEF Cell
<1>3. DataAt(cells, ref) =
        IF /\ at # None
           /\ ref.offset + Size[at] <= Len(cells)
           /\ \A p \in 1..Size[at] : /\ cells[ref.offset + p].write = ref.write
                                     /\ cells[ref.offset + p].part = p
        THEN at ELSE Torn
  BY DEF DataAt, Proper
<1>4. \A v \in Value : Size[v] \in Nat /\ Size[v] >= 1 /\ v # None /\ v # Torn
  BY SizeAssumption, ValueAssumption
<1>5. \A v \in Value : Whole(cells, ref, v) => at = v
  BY <1>1, <1>4 DEF Whole
<1>6. at # None => cells[ref.offset + 1].value = at
  OBVIOUS
<1> HIDE DEF at
<1> QED
  BY <1>2, <1>3, <1>4, <1>5, <1>6 DEF Whole

(* Two files from which the same elements can be read.                     *)
LEMMA SameData ==
  ASSUME NEW c \in Seq(Cell), NEW d \in Seq(Cell), NEW ref, Proper(ref),
         \A v \in Value : Whole(c, ref, v) <=> Whole(d, ref, v)
  PROVE  DataAt(c, ref) = DataAt(d, ref)
BY DataCases, ValueAssumption

(* In the first part of a file an element is as in the file or torn, and   *)
(* the same if it ends there.                                              *)
LEMMA PartData ==
  ASSUME NEW c \in Seq(Cell), NEW d \in Seq(Cell), NEW ref, Proper(ref),
         Len(c) <= Len(d), \A k \in 1..Len(c) : c[k] = d[k]
  PROVE  /\ DataAt(c, ref) \in {DataAt(d, ref), Torn}
         /\ \A v \in Value : Whole(d, ref, v) /\ ref.offset + Size[v] <= Len(c) =>
              DataAt(c, ref) = DataAt(d, ref)
<1>1. ref.offset \in Nat /\ Len(c) \in Nat /\ Len(d) \in Nat
  BY LenProperties DEF Proper, Ref
<1>2. \A v \in Value : Size[v] \in Nat /\ Size[v] >= 1 /\ v # None /\ v # Torn
  BY SizeAssumption, ValueAssumption
<1>3. ASSUME NEW v \in Value, ref.offset + Size[v] <= Len(c)
      PROVE  Whole(c, ref, v) <=> Whole(d, ref, v)
  <2>1. ASSUME NEW p \in 1..Size[v] PROVE c[ref.offset + p] = d[ref.offset + p]
    <3>1. Size[v] \in Nat
      BY <1>2
    <3>2. ref.offset + p \in 1..Len(c)
      BY <1>1, <1>3, <3>1
    <3> QED
      BY <3>2
  <2>2. c[ref.offset + 1] = d[ref.offset + 1]
    BY <1>2, <2>1
  <2>3. ref.offset + Size[v] <= Len(d)
    BY <1>1, <1>2, <1>3
  <2> QED
    BY <1>3, <2>1, <2>2, <2>3, Zenon DEF Whole
<1>4. \A v \in Value : Whole(c, ref, v) => Whole(d, ref, v)
  BY <1>3 DEF Whole
<1> QED
  BY <1>2, <1>3, <1>4, DataCases

(* What other writes put behind a file changes no element of it, torn ones *)
(* included.                                                               *)
LEMMA GrownData ==
  ASSUME NEW c \in Seq(Cell), NEW d \in Seq(Cell), NEW ref, Proper(ref),
         Len(c) <= Len(d), \A k \in 1..Len(c) : c[k] = d[k],
         \A k \in 1..Len(d) : k > Len(c) => d[k].write # ref.write
  PROVE  DataAt(c, ref) = DataAt(d, ref)
<1>1. ref.offset \in Nat /\ Len(c) \in Nat /\ Len(d) \in Nat
  BY LenProperties DEF Proper, Ref
<1>2. ASSUME NEW v \in Value, Whole(d, ref, v)
      PROVE  ref.offset + Size[v] <= Len(c)
  <2>1. Size[v] \in Nat /\ Size[v] >= 1
    BY SizeAssumption
  <2>2. d[ref.offset + Size[v]].write = ref.write
    <3>1. Size[v] \in 1..Size[v]
      BY <2>1
    <3> QED
      BY <1>2, <3>1, Zenon DEF Whole
  <2>3. ref.offset + Size[v] <= Len(d)
    BY <1>2, Zenon DEF Whole
  <2> QED
    BY <1>1, <2>1, <2>2, <2>3
<1>3. CASE DataAt(d, ref) = Torn
  BY <1>3, PartData
<1>4. CASE DataAt(d, ref) \in Value
  <2>1. Whole(d, ref, DataAt(d, ref))
    BY <1>4, DataCases
  <2> QED
    BY <1>2, <1>4, <2>1, PartData
<1> QED
  BY <1>3, <1>4, DataCases

(* An element that was just written is there.                              *)
LEMMA NewData ==
  ASSUME NEW c \in Seq(Cell), NEW d \in Seq(Cell), NEW w \in Nat, NEW v \in Value,
         Len(d) = Len(c) + Size[v],
         \A p \in 1..Size[v] : d[Len(c) + p] = Element(w, v)[p]
  PROVE  /\ Proper([offset |-> Len(c), write |-> w])
         /\ DataAt(d, [offset |-> Len(c), write |-> w]) = v
<1> DEFINE ref == [offset |-> Len(c), write |-> w]
<1>1. Len(c) \in Nat /\ Size[v] \in Nat /\ Size[v] >= 1
  BY LenProperties, SizeAssumption
<1>2. ref.offset = Len(c) /\ ref.write = w /\ Proper(ref)
  BY <1>1 DEF Proper, Ref, InvalidFileIndex
<1> HIDE DEF ref
<1>3. \A p \in 1..Size[v] : d[Len(c) + p].write = w /\ d[Len(c) + p].part = p
                            /\ d[Len(c) + p].value = v
  <2> TAKE p \in 1..Size[v]
  <2>1. d[Len(c) + p] = [write |-> w, value |-> v, part |-> p]
    BY DEF Element
  <2> QED
    BY <2>1
<1>4. Whole(d, ref, v)
  <2>1. 1 \in 1..Size[v] /\ Len(c) + Size[v] <= Len(d)
    BY <1>1
  <2> QED
    BY <1>2, <1>3, <2>1, Zenon DEF Whole
<1>5. DataAt(d, ref) = v
  BY <1>2, <1>4, DataCases
<1> QED
  BY <1>2, <1>5 DEF ref

(* A cell amended in place changes the element it is all of, and no other. *)
LEMMA AmendedData ==
  ASSUME NEW c \in Seq(Cell), NEW d \in Seq(Cell), NEW ref, Proper(ref),
         NEW v \in Value, Size[v] = 1, NEW old \in Value, Size[old] = 1,
         Whole(c, ref, old), Len(d) = Len(c),
         d[ref.offset + 1] = Element(ref.write, v)[1],
         \A k \in 1..Len(c) : k # ref.offset + 1 => d[k] = c[k]
  PROVE  /\ DataAt(d, ref) = v
         /\ \A r : Proper(r) /\ r.write # ref.write => DataAt(d, r) = DataAt(c, r)
<1>1. /\ ref.offset \in Nat /\ Len(c) \in Nat
      /\ ref.offset + 1 <= Len(c)
      /\ c[ref.offset + 1].write = ref.write /\ c[ref.offset + 1].part = 1
  BY LenProperties DEF Proper, Ref, Whole
<1>2. /\ d[ref.offset + 1].write = ref.write /\ d[ref.offset + 1].part = 1
      /\ d[ref.offset + 1].value = v
  BY DEF Element
<1>3. DataAt(d, ref) = v
  <2>1. Whole(d, ref, v)
    BY <1>1, <1>2 DEF Whole
  <2> QED
    BY <2>1, DataCases
<1>4. ASSUME NEW r, Proper(r), r.write # ref.write
      PROVE  DataAt(d, r) = DataAt(c, r)
  <2>1. r.offset \in Nat
    BY <1>4 DEF Proper, Ref
  <2>2. ASSUME NEW u \in Value PROVE Whole(d, r, u) <=> Whole(c, r, u)
    <3>1. Size[u] \in Nat /\ Size[u] >= 1
      BY SizeAssumption
    <3>2. CASE r.offset = ref.offset
      <4>1. ~Whole(d, r, u) /\ ~Whole(c, r, u)
        BY <1>1, <1>2, <1>4, <3>1, <3>2 DEF Whole
      <4> QED
        BY <4>1
    <3>3. CASE r.offset # ref.offset /\ r.offset + Size[u] <= Len(c)
      <4>1. ASSUME NEW p \in 1..Size[u]
            PROVE  /\ d[r.offset + p].write = c[r.offset + p].write
                   /\ d[r.offset + p].part = c[r.offset + p].part
        <5>1. r.offset + p \in 1..Len(c)
          BY <1>1, <2>1, <3>1, <3>3
        <5>2. CASE r.offset + p = ref.offset + 1
          BY <1>1, <1>2, <5>2
        <5>3. CASE r.offset + p # ref.offset + 1
          BY <5>1, <5>3
        <5> QED
          BY <5>2, <5>3
      <4>2. r.offset + 1 # ref.offset + 1 /\ r.offset + 1 \in 1..Len(c)
        BY <1>1, <2>1, <3>1, <3>3
      <4>3. d[r.offset + 1].value = c[r.offset + 1].value
        BY <4>2
      <4> QED
        BY <4>1, <4>3 DEF Whole
    <3>4. CASE ~(r.offset + Size[u] <= Len(c))
      BY <3>4 DEF Whole
    <3> QED
      BY <3>2, <3>3, <3>4
  <2> QED
    BY <1>4, <2>2, SameData
<1> QED
  BY <1>3, <1>4

-----------------------------------------------------------------------------
(* A mapper of an open file.                                               *)
Fits(S, d, m) ==
  /\ d \in Seq(S) /\ m \in Mapper(S)
  /\ m.fileEnd = Len(d) /\ m.writePos = Len(d) + Len(m.buffer)

(* It shows the file and, behind it, the buffer.                           *)
LEMMA CellsOf ==
  ASSUME NEW S, NEW d, NEW m, Fits(S, d, m)
  PROVE  /\ Cells(d, m) = d \o m.buffer
         /\ Cells(d, m) \in Seq(S)
         /\ Len(Cells(d, m)) = m.writePos
         /\ Len(d) \in Nat /\ Len(m.buffer) \in Nat /\ m.buffer \in Seq(S)
         /\ Len(d) <= Len(Cells(d, m))
         /\ \A k \in 1..Len(d) : Cells(d, m)[k] = d[k]
         /\ \A k \in 1..Len(m.buffer) : Cells(d, m)[Len(d) + k] = m.buffer[k]
<1>1. d \in Seq(S) /\ m.buffer \in Seq(S) /\ m.fileEnd = Len(d)
      /\ m.writePos = Len(d) + Len(m.buffer)
  BY DEF Fits, Mapper
<1>2. Len(d) \in Nat /\ Len(m.buffer) \in Nat
  BY <1>1, LenProperties
<1>3. Cells(d, m) = d \o m.buffer
  BY <1>1, SubSeqFull DEF Cells
<1>4. /\ d \o m.buffer \in Seq(S) /\ Len(d \o m.buffer) = Len(d) + Len(m.buffer)
      /\ \A k \in 1..(Len(d) + Len(m.buffer)) :
           (d \o m.buffer)[k] = IF k <= Len(d) THEN d[k] ELSE m.buffer[k - Len(d)]
  BY <1>1, ConcatProperties
<1>5. \A k \in 1..Len(d) : (d \o m.buffer)[k] = d[k]
  BY <1>2, <1>4
<1>6. ASSUME NEW k \in 1..Len(m.buffer) PROVE (d \o m.buffer)[Len(d) + k] = m.buffer[k]
  <2>1. /\ Len(d) + k \in 1..(Len(d) + Len(m.buffer)) /\ ~(Len(d) + k <= Len(d))
        /\ (Len(d) + k) - Len(d) = k
    BY <1>2
  <2> QED
    BY <1>4, <2>1
<1> QED
  BY <1>1, <1>2, <1>3, <1>4, <1>5, <1>6

(* The buffer can be written out at any time: what is shown stays.         *)
LEMMA FlushedCells ==
  ASSUME NEW S, NEW d, NEW m, Fits(S, d, m)
  PROVE  /\ Flushed(d, m) = Cells(d, m)
         /\ ClearBuffer(m).buffer = << >>
         /\ Fits(S, Flushed(d, m), ClearBuffer(m))
         /\ Cells(Flushed(d, m), ClearBuffer(m)) = Cells(d, m)
<1> DEFINE e == Cells(d, m)
           n == ClearBuffer(m)
<1>1. e = d \o m.buffer /\ e \in Seq(S) /\ Len(e) = m.writePos
      /\ Len(d) \in Nat /\ Len(m.buffer) \in Nat /\ m.buffer \in Seq(S)
  BY CellsOf
<1>2. d \in Seq(S) /\ m \in Mapper(S) /\ m.fileEnd = Len(d)
      /\ m.writePos = Len(d) + Len(m.buffer)
  BY DEF Fits
<1>3. m.buffer = << >> => d \o m.buffer = d
  BY <1>2, ConcatEmptySeq
<1>4. Flushed(d, m) = e
  BY <1>1, <1>3 DEF Flushed
<1>5. n.buffer = << >> /\ n.fileEnd = Len(d) + Len(m.buffer) /\ n.writePos = m.writePos
      /\ n \in Mapper(S)
  <2>1. << >> \in Seq(S)
    BY EmptySeq
  <2>2. n = [m EXCEPT !.fileEnd = m.fileEnd + Len(m.buffer), !.buffer = << >>]
    BY DEF ClearBuffer
  <2>3. m.fileEnd + Len(m.buffer) \in Nat /\ m.writePos \in Nat
    BY <1>1, <1>2
  <2>4. n = [fileEnd |-> Len(d) + Len(m.buffer), buffer |-> << >>, writePos |-> m.writePos]
    BY <1>2, <2>2 DEF Mapper
  <2> QED
    BY <1>2, <2>1, <2>3, <2>4 DEF Mapper
<1> HIDE DEF e, n
<1>6. Len(<< >>) = 0
  BY EmptySeq
<1>7. Fits(S, e, n)
  BY <1>1, <1>2, <1>5, <1>6 DEF Fits
<1>8. Cells(e, n) = e \o << >>
  <2>1. Cells(e, n) = e \o n.buffer
    BY <1>7, CellsOf
  <2> QED
    BY <1>5, <2>1, Zenon
<1>9. e \o << >> = e
  BY <1>1, ConcatEmptySeq
<1> QED
  BY <1>4, <1>5, <1>7, <1>8, <1>9 DEF e, n

(* A write appends to what is shown, and reaches the disk whole or not at  *)
(* all.                                                                    *)
LEMMA WrittenCells ==
  ASSUME NEW S, NEW d, NEW m, Fits(S, d, m), NEW cells \in Seq(S)
  PROVE  /\ Fits(S, WrittenDisk(d, m, cells), WrittenMapper(m, cells))
         /\ Cells(WrittenDisk(d, m, cells), WrittenMapper(m, cells)) = Cells(d, m) \o cells
         /\ WrittenDisk(d, m, cells) \in {d, Cells(d, m) \o cells}
<1> DEFINE b == Buffered(m, cells)
<1>1. d \in Seq(S) /\ m \in Mapper(S) /\ m.fileEnd = Len(d)
      /\ m.writePos = Len(d) + Len(m.buffer)
      /\ m.buffer \in Seq(S) /\ Len(m.buffer) \in Nat /\ Len(d) \in Nat /\ Len(cells) \in Nat
      /\ Cells(d, m) = d \o m.buffer
  <2>1. d \in Seq(S) /\ m \in Mapper(S) /\ m.fileEnd = Len(d)
        /\ m.writePos = Len(d) + Len(m.buffer)
    BY Zenon DEF Fits
  <2>2. /\ m.buffer \in Seq(S) /\ Len(m.buffer) \in Nat /\ Len(d) \in Nat
        /\ Cells(d, m) = d \o m.buffer
    BY CellsOf
  <2>3. Len(cells) \in Nat
    BY LenProperties
  <2> QED
    BY <2>1, <2>2, <2>3, Zenon
<1>2. /\ m.buffer \o cells \in Seq(S)
      /\ Len(m.buffer \o cells) = Len(m.buffer) + Len(cells)
  BY <1>1, ConcatProperties
<1>3. b = [fileEnd |-> Len(d), buffer |-> m.buffer \o cells, writePos |-> m.writePos + Len(cells)]
  <2> DEFINE c == m.buffer \o cells
             n == Len(cells)
  <2>1. b = [m EXCEPT !.buffer = c, !.writePos = m.writePos + n]
    BY DEF Buffered
  <2> HIDE DEF c, n
  <2>2. b = [fileEnd |-> m.fileEnd, buffer |-> c, writePos |-> m.writePos + n]
    BY <1>1, <2>1 DEF Mapper
  <2> QED
    BY <1>1, <2>2 DEF c, n
<1>4. b \in Mapper(S)
  BY <1>1, <1>2, <1>3 DEF Mapper
<1>5. b.fileEnd = Len(d) /\ b.buffer = m.buffer \o cells /\ b.writePos = m.writePos + Len(cells)
  BY <1>3
<1> HIDE DEF b
<1>6. Fits(S, d, b)
  BY <1>1, <1>2, <1>4, <1>5 DEF Fits
<1>7. Cells(d, b) = Cells(d, m) \o cells
  <2>1. Cells(d, b) = d \o (m.buffer \o cells)
    <3>1. Cells(d, b) = d \o b.buffer
      BY <1>6, CellsOf
    <3> QED
      BY <1>5, <3>1, Zenon
  <2>2. (d \o m.buffer) \o cells = d \o (m.buffer \o cells)
    <3>1. \A s, t, u \in Seq(S) : (s \o t) \o u = s \o (t \o u)
      BY ConcatAssociative
    <3> QED
      BY <1>1, <3>1, Zenon
  <2> QED
    BY <1>1, <2>1, <2>2, Zenon
<1>8. CASE BufferFull(b)
  <2>1. WrittenDisk(d, m, cells) = Flushed(d, b) /\ WrittenMapper(m, cells) = ClearBuffer(b)
    BY <1>8 DEF WrittenDisk, WrittenMapper, b
  <2>2. /\ Flushed(d, b) = Cells(d, b)
        /\ Fits(S, Flushed(d, b), ClearBuffer(b))
        /\ Cells(Flushed(d, b), ClearBuffer(b)) = Cells(d, b)
    BY <1>6, FlushedCells
  <2> QED
    BY <1>7, <2>1, <2>2, Zenon
<1>9. CASE ~BufferFull(b)
  <2>1. WrittenDisk(d, m, cells) = d /\ WrittenMapper(m, cells) = b
    BY <1>9 DEF WrittenDisk, WrittenMapper, b
  <2> QED
    BY <1>6, <1>7, <2>1
<1> QED
  BY <1>8, <1>9

(* The file d2 with buffer m2 has another cell at position c than d with m *)
(* has.                                                                    *)
Replaced(d, m, d2, m2, c, cell) ==
  /\ Len(d2) = Len(d) /\ Len(m2.buffer) = Len(m.buffer)
  /\ \A k \in 1..Len(d) : d2[k] = IF k = c THEN cell ELSE d[k]
  /\ \A k \in 1..Len(m.buffer) :
       m2.buffer[k] = IF Len(d) + k = c THEN cell ELSE m.buffer[k]

(* Then that is the difference between what the two show.                  *)
LEMMA OneCell ==
  ASSUME NEW S, NEW d, NEW m, Fits(S, d, m), NEW d2, NEW m2, Fits(S, d2, m2),
         NEW cell, NEW c \in Nat, c \in 1..Len(Cells(d, m)),
         Replaced(d, m, d2, m2, c, cell)
  PROVE  /\ Len(Cells(d2, m2)) = Len(Cells(d, m))
         /\ Cells(d2, m2)[c] = cell
         /\ \A k \in 1..Len(Cells(d, m)) : k # c => Cells(d2, m2)[k] = Cells(d, m)[k]
<1>1. /\ Len(d) \in Nat /\ Len(m.buffer) \in Nat
      /\ Len(Cells(d, m)) = Len(d) + Len(m.buffer)
      /\ \A k \in 1..Len(d) : Cells(d, m)[k] = d[k]
      /\ \A k \in 1..Len(m.buffer) : Cells(d, m)[Len(d) + k] = m.buffer[k]
  BY CellsOf DEF Fits
<1>2. /\ Len(Cells(d2, m2)) = Len(d2) + Len(m2.buffer)
      /\ \A k \in 1..Len(d2) : Cells(d2, m2)[k] = d2[k]
      /\ \A k \in 1..Len(m2.buffer) : Cells(d2, m2)[Len(d2) + k] = m2.buffer[k]
  BY CellsOf DEF Fits
<1> USE DEF Replaced
<1>3. ASSUME NEW k \in 1..(Len(d) + Len(m.buffer))
      PROVE  k \in 1..Len(d) \/ \E j \in 1..Len(m.buffer) : k = Len(d) + j
  <2>1. CASE k <= Len(d)
    BY <1>1, <2>1
  <2>2. CASE k > Len(d)
    <3>1. k - Len(d) \in 1..Len(m.buffer) /\ k = Len(d) + (k - Len(d))
      BY <1>1, <2>2
    <3> QED
      BY <3>1
  <2> QED
    BY <1>1, <2>1, <2>2
<1>4. ASSUME NEW k \in 1..(Len(d) + Len(m.buffer))
      PROVE  Cells(d2, m2)[k] = IF k = c THEN cell ELSE Cells(d, m)[k]
  <2>1. CASE k \in 1..Len(d)
    <3>1. Cells(d2, m2)[k] = d2[k] /\ Cells(d, m)[k] = d[k]
      BY <1>1, <1>2, <2>1
    <3> QED
      BY <2>1, <3>1
  <2>2. ASSUME NEW j \in 1..Len(m.buffer), k = Len(d) + j
        PROVE  Cells(d2, m2)[k] = IF k = c THEN cell ELSE Cells(d, m)[k]
    <3>1. Cells(d, m)[k] = m.buffer[j]
      BY <1>1, <2>2
    <3>2. Cells(d2, m2)[k] = m2.buffer[j]
      BY <1>2, <2>2
    <3> QED
      BY <2>2, <3>1, <3>2
  <2> QED
    BY <1>3, <2>1, <2>2
<1> QED
  BY <1>1, <1>2, <1>4

(* A cell is replaced where it is shown.                                   *)
LEMMA InPlaceCells ==
  ASSUME NEW S, NEW d, NEW m, Fits(S, d, m), NEW cell \in S,
         NEW at \in Nat, at < Len(Cells(d, m)),
         NEW d2, d2 = InPlaceDisk(d, m, at, cell),
         NEW m2, m2 = InPlaceMapper(m, at, cell)
  PROVE  /\ Fits(S, d2, m2) /\ Len(d2) = Len(d)
         /\ Len(Cells(d2, m2)) = Len(Cells(d, m))
         /\ Cells(d2, m2)[at + 1] = cell
         /\ \A k \in 1..Len(Cells(d, m)) : k # at + 1 => Cells(d2, m2)[k] = Cells(d, m)[k]
<1>1. /\ d \in Seq(S) /\ m \in Mapper(S) /\ m.fileEnd = Len(d)
      /\ m.writePos = Len(d) + Len(m.buffer)
      /\ m.buffer \in Seq(S) /\ Len(m.buffer) \in Nat /\ Len(d) \in Nat
      /\ Len(Cells(d, m)) = Len(d) + Len(m.buffer)
  BY CellsOf DEF Fits
<1>2. at + 1 \in Nat /\ at + 1 \in 1..Len(Cells(d, m))
  BY <1>1
<1>3. /\ Fits(S, d2, m2) /\ Len(d2) = Len(d) /\ Len(m2.buffer) = Len(m.buffer)
      /\ \A k \in 1..Len(d) : d2[k] = IF k = at + 1 THEN cell ELSE d[k]
      /\ \A k \in 1..Len(m.buffer) :
           m2.buffer[k] = IF Len(d) + k = at + 1 THEN cell ELSE m.buffer[k]
  <2>1. CASE at < Len(d)
    <3>1. d2 = [d EXCEPT ![at + 1] = cell] /\ m2 = m
      BY <1>1, <2>1 DEF InPlaceDisk, InPlaceMapper
    <3>2. at + 1 \in 1..Len(d)
      BY <1>1, <2>1
    <3>3. /\ d2 \in Seq(S) /\ Len(d2) = Len(d)
          /\ \A j \in 1..Len(d) : d2[j] = IF j = at + 1 THEN cell ELSE d[j]
      BY <1>1, <3>1, <3>2, ExceptSeq
    <3>4. Fits(S, d2, m2)
      BY <1>1, <3>1, <3>3 DEF Fits
    <3>5. \A k \in 1..Len(m.buffer) : Len(d) + k # at + 1
      BY <1>1, <2>1
    <3> QED
      BY <3>1, <3>3, <3>4, <3>5
  <2>2. CASE ~(at < Len(d))
    <3> DEFINE i == at - Len(d) + 1
    <3>1. i \in 1..Len(m.buffer) /\ at + 1 = Len(d) + i
      BY <1>1, <2>2
    <3>2. d2 = d /\ m2 = [m EXCEPT !.buffer = [m.buffer EXCEPT ![i] = cell]]
      BY <1>1, <2>2 DEF InPlaceDisk, InPlaceMapper
    <3> HIDE DEF i
    <3> DEFINE b == [m.buffer EXCEPT ![i] = cell]
    <3>3. /\ b \in Seq(S) /\ Len(b) = Len(m.buffer)
          /\ \A j \in 1..Len(m.buffer) : b[j] = IF j = i THEN cell ELSE m.buffer[j]
      BY <1>1, <3>1, ExceptSeq
    <3> HIDE DEF b
    <3>4. m2 = [fileEnd |-> m.fileEnd, buffer |-> b, writePos |-> m.writePos]
      BY <1>1, <3>2 DEF Mapper, b
    <3>5. /\ m2 \in Mapper(S) /\ m2.fileEnd = Len(d) /\ m2.buffer = b
          /\ m2.writePos = Len(d) + Len(b)
      BY <1>1, <3>3, <3>4 DEF Mapper
    <3>6. Fits(S, d2, m2)
      BY <1>1, <3>2, <3>5 DEF Fits
    <3>7. \A k \in 1..Len(d) : k # at + 1
      BY <1>1, <2>2
    <3>8. \A k \in 1..Len(m.buffer) : Len(d) + k = at + 1 <=> k = i
      BY <1>1, <3>1
    <3> QED
      BY <3>2, <3>3, <3>5, <3>6, <3>7, <3>8
  <2> QED
    BY <2>1, <2>2
<1> DEFINE c == at + 1
<1>4. c \in Nat /\ c \in 1..Len(Cells(d, m)) /\ Replaced(d, m, d2, m2, c, cell)
      /\ Fits(S, d2, m2) /\ Len(d2) = Len(d)
  <2>1. Replaced(d, m, d2, m2, at + 1, cell)
    BY <1>3, Zenon DEF Replaced
  <2> QED
    BY <1>2, <1>3, <2>1, Zenon
<1> HIDE DEF c
<1>5. /\ Len(Cells(d2, m2)) = Len(Cells(d, m)) /\ Cells(d2, m2)[c] = cell
      /\ \A k \in 1..Len(Cells(d, m)) : k # c => Cells(d2, m2)[k] = Cells(d, m)[k]
  BY <1>4, OneCell
<1> QED
  BY <1>4, <1>5, Zenon DEF c

-----------------------------------------------------------------------------
(* The disk is a first part of what the mappers show, and the array is     *)
(* what can be read from it.                                               *)
ViewFacts ==
  /\ process # "none" => /\ Fits(Entry, disk["index"], mapper["index"])
                         /\ Fits(Cell, disk["data"], mapper["data"])
  /\ Idx \in Seq(Entry) /\ Dat \in Seq(Cell)
  /\ Len(Idx) \in Nat /\ Len(Dat) \in Nat
  /\ Len(disk["index"]) \in Nat /\ Len(disk["data"]) \in Nat
  /\ Len(disk["index"]) <= Len(Idx) /\ Len(disk["data"]) <= Len(Dat)
  /\ \A k \in 1..Len(disk["index"]) : Idx[k] = disk["index"][k]
  /\ \A k \in 1..Len(disk["data"]) : Dat[k] = disk["data"][k]
  /\ process \in {"none", "open", "closing"} => Idx = disk["index"]
  /\ process \in {"none", "open"} => Dat = disk["data"]
  /\ DOMAIN arr = 1..Len(Idx) /\ arr \in Seq(Range(arr)) /\ Len(arr) = Len(Idx)
  /\ \A i \in 1..Len(Idx) : arr[i] = [first  |-> DataAt(Dat, Idx[i].first),
                                      second |-> DataAt(Dat, Idx[i].second)]

(* ViewFacts follows from the types and from what is mapped.               *)
LEMMA Views == TypeInv /\ MapInv => ViewFacts
<1> SUFFICES ASSUME TypeInv, MapInv PROVE ViewFacts
  OBVIOUS
<1>1. disk["index"] \in Seq(Entry) /\ disk["data"] \in Seq(Cell)
  BY DEF TypeInv
<1>2. ASSUME process # "none"
      PROVE  /\ Fits(Entry, disk["index"], mapper["index"])
             /\ Fits(Cell, disk["data"], mapper["data"])
  BY <1>1, <1>2 DEF TypeInv, MapInv, Fits, Files
<1>3. /\ Idx \in Seq(Entry) /\ Len(disk["index"]) <= Len(Idx)
      /\ \A k \in 1..Len(disk["index"]) : Idx[k] = disk["index"][k]
  <2>1. CASE process = "none"
    <3>1. Idx = disk["index"]
      BY <2>1 DEF Idx
    <3> QED
      BY <1>1, <3>1, LenProperties
  <2>2. CASE process # "none"
    <3>1. Idx = Cells(disk["index"], mapper["index"])
      BY <2>2 DEF Idx, Index
    <3> QED
      BY <1>2, <2>2, <3>1, CellsOf
  <2> QED
    BY <2>1, <2>2
<1>4. /\ Dat \in Seq(Cell) /\ Len(disk["data"]) <= Len(Dat)
      /\ \A k \in 1..Len(disk["data"]) : Dat[k] = disk["data"][k]
  <2>1. CASE process = "none"
    <3>1. Dat = disk["data"]
      BY <2>1 DEF Dat
    <3> QED
      BY <1>1, <3>1, LenProperties
  <2>2. CASE process # "none"
    <3>1. Dat = Cells(disk["data"], mapper["data"])
      BY <2>2 DEF Dat, Data
    <3> QED
      BY <1>2, <2>2, <3>1, CellsOf
  <2> QED
    BY <2>1, <2>2
<1>5. /\ Len(Idx) \in Nat /\ Len(Dat) \in Nat /\ DOMAIN Idx = 1..Len(Idx)
      /\ Len(disk["index"]) \in Nat /\ Len(disk["data"]) \in Nat
  BY <1>1, <1>3, <1>4, LenProperties
<1>6. ASSUME NEW S, NEW d, NEW m, Fits(S, d, m)
      PROVE  m.buffer = << >> => Cells(d, m) = d
  <2>1. Cells(d, m) = d \o m.buffer
    BY <1>6, CellsOf
  <2>2. d \in Seq(S)
    BY <1>6 DEF Fits
  <2>3. d \o << >> = d
    BY <2>2, ConcatEmptySeq
  <2> QED
    BY <2>1, <2>3, Zenon
<1>7. process \in {"none", "open", "closing"} => Idx = disk["index"]
  <2>1. process \in {"open", "closing"} => mapper["index"].buffer = << >>
    BY DEF MapInv, Files
  <2> QED
    BY <1>2, <1>6, <2>1 DEF Idx, Index
<1>8. process \in {"none", "open"} => Dat = disk["data"]
  <2>1. process = "open" => mapper["data"].buffer = << >>
    BY DEF MapInv, Files
  <2> QED
    BY <1>2, <1>6, <2>1 DEF Dat, Data
<1>9. arr = Contents(Idx, Dat)
  BY DEF arr, Idx, Dat
<1>10. arr = [i \in 1..Len(Idx) |-> [first |-> DataAt(Dat, Idx[i].first),
                                    second |-> DataAt(Dat, Idx[i].second)]]
  BY <1>5, <1>9 DEF Contents
<1>11. \A i \in 1..Len(Idx) : arr[i] = [first  |-> DataAt(Dat, Idx[i].first),
                                        second |-> DataAt(Dat, Idx[i].second)]
  BY <1>10
<1>12. DOMAIN arr = 1..Len(Idx) /\ arr = [i \in 1..Len(Idx) |-> arr[i]]
  BY <1>10
<1> HIDE DEF arr
<1>13. arr \in [1..Len(Idx) -> Range(arr)]
  BY <1>12 DEF Range
<1>14. arr \in Seq(Range(arr)) /\ Len(arr) = Len(Idx)
  BY <1>5, <1>12, <1>13
<1> QED
  BY <1>2, <1>3, <1>4, <1>5, <1>7, <1>8, <1>11, <1>12, <1>14 DEF ViewFacts

(* The valid offsets of the index lead into the data.                      *)
LEMMA RefsAreProper ==
  ASSUME MapperInv
  PROVE  /\ \A i \in 1..Len(Idx), e \in Elements :
              /\ Idx[i] \in Entry /\ Idx[i][e] \in Ref
              /\ Idx[i][e] # InvalidFileIndex =>
                   Proper(Idx[i][e]) /\ Idx[i][e].write \in 1..writes
         /\ \A i \in 1..Len(Idx) : Proper(Idx[i].first) /\ Idx[i].first.write \in 1..writes
<1>1. ViewFacts
  BY Views DEF MapperInv
<1>2. \A i \in 1..Len(Idx) : Idx[i] \in Entry
  BY <1>1, ElementOfSeq DEF ViewFacts
<1>3. \A i \in 1..Len(Idx), e \in Elements : Idx[i][e] \in Ref
  BY <1>2 DEF Entry, Elements
<1>4. \A i \in 1..Len(Idx), e \in Elements : Idx[i][e] # InvalidFileIndex =>
        Proper(Idx[i][e]) /\ Idx[i][e].write \in 1..writes
  BY <1>3 DEF MapperInv, RefInv, Proper
<1>5. "first" \in Elements /\ \A i \in 1..Len(Idx) : Idx[i].first # InvalidFileIndex
  BY DEF MapperInv, RefInv, Elements
<1> QED
  BY <1>2, <1>3, <1>4, <1>5

-----------------------------------------------------------------------------
(* An element has been put behind the data.                                *)
Written(v) ==
  /\ Len(Dat') = Len(Dat) + Size[v]
  /\ \A k \in 1..Len(Dat) : Dat'[k] = Dat[k]
  /\ \A p \in 1..Size[v] : Dat'[Len(Dat) + p] = Element(writes + 1, v)[p]
  /\ disk'["data"] = disk["data"] \/ disk'["data"] = Dat'

(* The cells of an element.                                                *)
LEMMA ElementSeq ==
  ASSUME NEW w \in Nat, NEW v \in Value
  PROVE  Element(w, v) \in Seq(Cell) /\ Len(Element(w, v)) = Size[v]
<1>1. Size[v] \in Nat
  BY SizeAssumption
<1>2. \A p \in 1..Size[v] : [write |-> w, value |-> v, part |-> p] \in Cell
  BY <1>1 DEF Cell
<1>3. Element(w, v) \in [1..Size[v] -> Cell]
  BY <1>2 DEF Element
<1> QED
  BY <1>1, <1>3

(* A write puts the element behind the data that is shown.                 *)
LEMMA WriteData ==
  ASSUME MapperInv, CanWrite, process' = "writing", NEW v \in Value,
         disk'["data"] = WrittenDisk(disk["data"], mapper["data"], Element(writes + 1, v)),
         mapper'["data"] = WrittenMapper(mapper["data"], Element(writes + 1, v))
  PROVE  /\ Written(v) /\ Fits(Cell, disk'["data"], mapper'["data"])
         /\ WriteOffset = [offset |-> Len(Dat), write |-> writes + 1]
<1> DEFINE el == Element(writes + 1, v)
           d  == disk["data"]
           m  == mapper["data"]
<1>1. ViewFacts
  BY Views DEF MapperInv
<1>2. Fits(Cell, d, m) /\ Dat = Cells(d, m)
  BY <1>1 DEF ViewFacts, CanWrite, Dat, Data
<1>3. el \in Seq(Cell) /\ Len(el) = Size[v] /\ Size[v] \in Nat
  BY ElementSeq, SizeAssumption DEF MapperInv, TypeInv
<1>4. Dat' = Cells(disk'["data"], mapper'["data"])
  BY DEF Dat, Data
<1> HIDE DEF el, d, m
<1>5. /\ Fits(Cell, WrittenDisk(d, m, el), WrittenMapper(m, el))
      /\ Cells(WrittenDisk(d, m, el), WrittenMapper(m, el)) = Cells(d, m) \o el
      /\ WrittenDisk(d, m, el) \in {d, Cells(d, m) \o el}
  BY <1>2, <1>3, WrittenCells
<1>6. /\ Fits(Cell, disk'["data"], mapper'["data"])
      /\ Dat' = Dat \o el
      /\ disk'["data"] \in {disk["data"], Dat'}
  BY <1>2, <1>4, <1>5, Zenon DEF d, m, el
<1>7. Dat \in Seq(Cell) /\ Len(Dat) \in Nat
  BY <1>1 DEF ViewFacts
<1>8. /\ Len(Dat \o el) = Len(Dat) + Len(el)
      /\ \A i \in 1..(Len(Dat) + Len(el)) :
           (Dat \o el)[i] = IF i <= Len(Dat) THEN Dat[i] ELSE el[i - Len(Dat)]
  BY <1>3, <1>7, ConcatProperties
<1>9. \A k \in 1..Len(Dat) : (Dat \o el)[k] = Dat[k]
  BY <1>3, <1>7, <1>8
<1>10. ASSUME NEW p \in 1..Size[v] PROVE (Dat \o el)[Len(Dat) + p] = el[p]
  <2>1. /\ Len(Dat) + p \in 1..(Len(Dat) + Len(el)) /\ ~(Len(Dat) + p <= Len(Dat))
        /\ (Len(Dat) + p) - Len(Dat) = p
    BY <1>3, <1>7
  <2> QED
    BY <1>8, <2>1
<1>11. Written(v)
  BY <1>3, <1>6, <1>8, <1>9, <1>10, Zenon DEF Written, el
<1>12. Len(Dat) = m.writePos
  BY <1>2, CellsOf
<1> QED
  BY <1>6, <1>11, <1>12 DEF WriteOffset, Offset, m

(* It can be read, and the elements that were there are what they were, in *)
(* the file as well.                                                       *)
LEMMA OldData ==
  ASSUME MapperInv, ViewFacts', NEW v \in Value, Written(v)
  PROVE  /\ Proper([offset |-> Len(Dat), write |-> writes + 1])
         /\ DataAt(Dat', [offset |-> Len(Dat), write |-> writes + 1]) = v
         /\ \A i \in 1..Len(Idx), e \in Elements :
              /\ DataAt(Dat', Idx[i][e]) = DataAt(Dat, Idx[i][e])
              /\ DataAt(disk["data"], Idx[i][e]) = DataAt(Dat, Idx[i][e]) =>
                   DataAt(disk'["data"], Idx[i][e]) = DataAt(Dat', Idx[i][e])
<1>1. ViewFacts /\ writes \in Nat
  BY Views DEF MapperInv, TypeInv
<1>2. Dat \in Seq(Cell) /\ Dat' \in Seq(Cell) /\ Len(Dat) \in Nat
  BY <1>1 DEF ViewFacts
<1>3. Size[v] \in Nat
  BY SizeAssumption
<1>4. /\ Proper([offset |-> Len(Dat), write |-> writes + 1])
      /\ DataAt(Dat', [offset |-> Len(Dat), write |-> writes + 1]) = v
  <2> DEFINE w == writes + 1
  <2>1. w \in Nat
    BY <1>1
  <2>2. /\ Len(Dat') = Len(Dat) + Size[v]
        /\ \A p \in 1..Size[v] : Dat'[Len(Dat) + p] = Element(w, v)[p]
    BY DEF Written
  <2> HIDE DEF w
  <2>3. /\ Proper([offset |-> Len(Dat), write |-> w])
        /\ DataAt(Dat', [offset |-> Len(Dat), write |-> w]) = v
    BY <1>2, <2>1, <2>2, NewData
  <2> QED
    BY <2>3 DEF w
<1>5. ASSUME NEW k \in 1..Len(Dat'), k > Len(Dat) PROVE Dat'[k].write = writes + 1
  <2>1. k - Len(Dat) \in 1..Size[v] /\ k = Len(Dat) + (k - Len(Dat))
    BY <1>2, <1>3, <1>5 DEF Written
  <2>2. Dat'[k] = Element(writes + 1, v)[k - Len(Dat)]
    BY <2>1 DEF Written
  <2> QED
    BY <2>1, <2>2 DEF Element
<1>6. ASSUME NEW i \in 1..Len(Idx), NEW e \in Elements
      PROVE  DataAt(Dat', Idx[i][e]) = DataAt(Dat, Idx[i][e])
  <2>1. CASE Idx[i][e] = InvalidFileIndex
    BY <2>1 DEF DataAt
  <2>2. CASE Idx[i][e] # InvalidFileIndex
    <3> DEFINE r == Idx[i][e]
    <3>1. Proper(r) /\ r.write \in 1..writes
      BY <2>2, RefsAreProper
    <3>2. r.write # writes + 1
      BY <1>1, <3>1
    <3>3. Len(Dat) <= Len(Dat')
      BY <1>2, <1>3 DEF Written
    <3> HIDE DEF r
    <3>4. \A k \in 1..Len(Dat') : k > Len(Dat) => Dat'[k].write # r.write
      BY <1>5, <3>2
    <3>5. \A k \in 1..Len(Dat) : Dat[k] = Dat'[k]
      BY DEF Written
    <3>6. DataAt(Dat, r) = DataAt(Dat', r)
      BY <1>2, <3>1, <3>3, <3>4, <3>5, GrownData
    <3> QED
      BY <3>6 DEF r
  <2> QED
    BY <2>1, <2>2
<1> QED
  BY <1>4, <1>6 DEF Written

(* Arrays with the same records are the same.                              *)
LEMMA SameArray ==
  ASSUME NEW S, NEW s \in Seq(S), NEW T, NEW t \in Seq(T), Len(s) = Len(t),
         \A i \in 1..Len(s) : s[i] = t[i]
  PROVE  s = t
<1>1. s \in [1..Len(s) -> S] /\ t \in [1..Len(s) -> T]
  BY LenProperties
<1> QED
  BY <1>1

(* A new record is appended to the array.                                  *)
LEMMA WriteNewStep ==
  ASSUME MapperInv, NEW v \in Value, WriteNew(v)
  PROVE  MapperInv' /\ Array!Next
<1> DEFINE ref   == [offset |-> Len(Dat), write |-> writes + 1]
           entry == [first |-> ref, second |-> InvalidFileIndex]
           n     == Len(Idx)
<1>1. ViewFacts /\ writes \in Nat /\ n \in Nat /\ Len(Dat) \in Nat
  <2>1. ViewFacts
    BY Views DEF MapperInv
  <2> QED
    BY <2>1 DEF MapperInv, TypeInv, ViewFacts
<1>2. /\ CanWrite /\ process' = "writing" /\ writes' = writes + 1 /\ saved' = saved
      /\ process # "none"
  BY DEF WriteNew, Write, CanWrite
<1>3. /\ DOMAIN disk' = Files /\ DOMAIN mapper' = Files
      /\ disk'["data"] = WrittenDisk(disk["data"], mapper["data"], Element(writes + 1, v))
      /\ mapper'["data"] = WrittenMapper(mapper["data"], Element(writes + 1, v))
  BY DEF WriteNew, Write, Files
<1>4. /\ disk'["index"] = WrittenDisk(disk["index"], mapper["index"],
                           <<[first |-> WriteOffset, second |-> InvalidFileIndex]>>)
      /\ mapper'["index"] = WrittenMapper(mapper["index"],
                              <<[first |-> WriteOffset, second |-> InvalidFileIndex]>>)
  BY DEF WriteNew, Write, Files
<1>5. Written(v) /\ Fits(Cell, disk'["data"], mapper'["data"]) /\ WriteOffset = ref
  BY <1>2, <1>3, WriteData
<1>6. /\ Fits(Entry, disk'["index"], mapper'["index"])
      /\ Len(Idx') = n + 1 /\ Idx'[n + 1] = entry
      /\ \A i \in 1..n : Idx'[i] = Idx[i]
      /\ Len(disk'["index"]) >= Len(disk["index"])
  <2>1. entry \in Entry
    BY <1>1 DEF Entry, Ref, InvalidFileIndex
  <2> DEFINE new == <<entry>>
             d   == disk["index"]
             m   == mapper["index"]
  <2>2. new \in Seq(Entry) /\ Len(new) = 1 /\ new[1] = entry
    BY <2>1
  <2>3. Fits(Entry, d, m) /\ Idx = Cells(d, m)
    BY <1>1, <1>2 DEF ViewFacts, Idx, Index
  <2>4. disk'["index"] = WrittenDisk(d, m, new) /\ mapper'["index"] = WrittenMapper(m, new)
    BY <1>4, <1>5
  <2>5. Idx' = Cells(disk'["index"], mapper'["index"])
    BY <1>2 DEF Idx, Index
  <2> HIDE DEF new, d, m, entry
  <2>6. /\ Fits(Entry, WrittenDisk(d, m, new), WrittenMapper(m, new))
        /\ Cells(WrittenDisk(d, m, new), WrittenMapper(m, new)) = Cells(d, m) \o new
        /\ WrittenDisk(d, m, new) \in {d, Cells(d, m) \o new}
    BY <2>2, <2>3, WrittenCells
  <2>7. /\ Fits(Entry, disk'["index"], mapper'["index"]) /\ Idx' = Idx \o new
        /\ disk'["index"] \in {disk["index"], Idx \o new}
    BY <2>3, <2>4, <2>5, <2>6, Zenon DEF d
  <2>8. Idx \in Seq(Entry) /\ Len(disk["index"]) \in Nat /\ Len(disk["index"]) <= n
    BY <1>1 DEF ViewFacts
  <2>9. /\ Len(Idx \o new) = n + 1
        /\ \A i \in 1..(n + 1) : (Idx \o new)[i] = IF i <= n THEN Idx[i] ELSE new[i - n]
    BY <2>2, <2>8, ConcatProperties
  <2>10. (Idx \o new)[n + 1] = entry
    BY <1>1, <2>2, <2>9
  <2>11. \A i \in 1..n : (Idx \o new)[i] = Idx[i]
    BY <1>1, <2>9
  <2>12. Len(disk'["index"]) >= Len(disk["index"])
    BY <1>1, <2>7, <2>8, <2>9
  <2> QED
    BY <2>7, <2>9, <2>10, <2>11, <2>12, Zenon
<1>7. TypeInv' /\ MapInv'
  <2>1. TypeInv'
    BY <1>1, <1>2, <1>3, <1>5, <1>6 DEF TypeInv, Fits
  <2>2. MapInv'
    BY <1>2, <1>5, <1>6 DEF MapInv, Fits, Files
  <2> QED
    BY <2>1, <2>2
<1>8. ViewFacts'
  BY <1>7, Views, PTL
<1>9. /\ Proper(ref) /\ DataAt(Dat', ref) = v
      /\ \A i \in 1..n, e \in Elements :
           /\ DataAt(Dat', Idx[i][e]) = DataAt(Dat, Idx[i][e])
           /\ DataAt(disk["data"], Idx[i][e]) = DataAt(Dat, Idx[i][e]) =>
                DataAt(disk'["data"], Idx[i][e]) = DataAt(Dat', Idx[i][e])
  BY <1>5, <1>8, OldData
<1>10. /\ ref # InvalidFileIndex /\ ref.offset = Len(Dat) /\ ref.write = writes + 1
       /\ InvalidFileIndex.write = 0
       /\ entry.first = ref /\ entry.second = InvalidFileIndex
       /\ entry["first"] = ref /\ entry["second"] = InvalidFileIndex
  BY <1>9 DEF Proper, InvalidFileIndex
<1> HIDE DEF ref, entry, n
<1>11. \A i \in 1..(n + 1) : i \in 1..n \/ i = n + 1
  BY <1>1
<1>12. RefInv'
  <2>1. \A i \in 1..(n + 1) : Idx'[i].first # InvalidFileIndex
    BY <1>6, <1>10, <1>11 DEF MapperInv, RefInv, n
  <2>2. \A i \in 1..n, e \in Elements :
          Idx[i][e] # InvalidFileIndex => Idx[i][e].offset >= 0 /\ Idx[i][e].write \in 1..writes
    BY DEF MapperInv, RefInv, n
  <2>3. \A i \in 1..(n + 1), e \in Elements : Idx'[i][e] # InvalidFileIndex =>
          Idx'[i][e].offset >= 0 /\ Idx'[i][e].write \in 1..(writes + 1)
    BY <1>1, <1>6, <1>10, <1>11, <2>2 DEF Elements
  <2>4. ASSUME NEW i \in 1..n, NEW e \in Elements PROVE Idx[i][e].write # writes + 1
    <3>1. Idx[i][e].write \in 1..writes \/ Idx[i][e].write = 0
      BY <1>10, <2>2
    <3> QED
      BY <1>1, <3>1
  <2>5. ASSUME NEW i \in 1..(n + 1), NEW j \in 1..(n + 1), NEW e \in Elements,
               NEW g \in Elements, Idx'[i][e] # InvalidFileIndex,
               Idx'[i][e].write = Idx'[j][g].write
        PROVE  i = j /\ e = g
    <3>1. CASE i \in 1..n /\ j \in 1..n
      BY <1>6, <2>5, <3>1 DEF MapperInv, RefInv, n
    <3>2. CASE i = n + 1 /\ j = n + 1
      <4>1. e = "first"
        BY <1>6, <1>10, <2>5, <3>2 DEF Elements
      <4>2. Idx'[j][g].write = writes + 1
        BY <1>6, <1>10, <2>5, <3>2, <4>1
      <4>3. g = "first"
        BY <1>1, <1>6, <1>10, <3>2, <4>2 DEF Elements
      <4> QED
        BY <3>2, <4>1, <4>3
    <3>3. CASE i \in 1..n /\ j = n + 1
      <4>1. Idx[i][e].write \in 1..writes
        BY <1>6, <2>2, <2>5, <3>3
      <4>2. Idx'[j][g].write \in {0, writes + 1}
        BY <1>6, <1>10, <3>3 DEF Elements
      <4> QED
        BY <1>1, <1>6, <2>5, <3>3, <4>1, <4>2
    <3>4. CASE i = n + 1 /\ j \in 1..n
      <4>1. Idx'[i][e].write = writes + 1
        BY <1>6, <1>10, <2>5, <3>4 DEF Elements
      <4> QED
        BY <1>6, <2>4, <2>5, <3>4, <4>1
    <3> QED
      BY <1>11, <3>1, <3>2, <3>3, <3>4
  <2> QED
    BY <1>2, <1>6, <2>1, <2>3, <2>5 DEF RefInv
<1>13. OrderInv'
  <2> SUFFICES ASSUME NEW i \in 1..(n + 1), NEW j \in 1..(n + 1), i < j,
                      DataAt(Dat', Idx'[i].first) # Torn
               PROVE  Idx'[i].first.offset + Size[DataAt(Dat', Idx'[i].first)]
                        <= Idx'[j].first.offset
    BY <1>6 DEF OrderInv
  <2>1. i \in 1..n /\ Idx'[i] = Idx[i] /\ "first" \in Elements
    BY <1>1, <1>6 DEF Elements
  <2>2. DataAt(Dat', Idx'[i].first) = DataAt(Dat, Idx[i].first)
    BY <1>9, <2>1
  <2>3. CASE j \in 1..n
    BY <1>6, <2>1, <2>2, <2>3 DEF MapperInv, OrderInv, n
  <2>4. CASE j = n + 1
    <3> DEFINE r == Idx[i].first
               u == DataAt(Dat, r)
    <3>1. Proper(r)
      BY <2>1, RefsAreProper DEF n
    <3>2. u \in Value
      BY <1>1, <2>2, <3>1, DataCases DEF ViewFacts
    <3>3. Whole(Dat, r, u)
      BY <1>1, <3>1, <3>2, DataCases DEF ViewFacts
    <3>4. Idx'[j].first.offset = Len(Dat)
      BY <1>6, <1>10, <2>4
    <3> HIDE DEF r
    <3> QED
      BY <2>1, <2>2, <3>3, <3>4 DEF Whole, r
  <2> QED
    BY <1>11, <2>3, <2>4
<1>14. SavedInv'
  <2>1. /\ DOMAIN saved = 1..Len(saved) /\ Len(saved) \in Nat
        /\ Len(saved) <= Len(disk["index"]) /\ Len(disk["index"]) <= n
        /\ Len(disk["index"]) \in Nat /\ Len(disk'["index"]) \in Nat
    BY <1>1, <1>8 DEF MapperInv, SavedInv, ViewFacts, n
  <2>2. Len(saved) <= Len(disk'["index"])
    BY <1>6, <2>1
  <2>3. ASSUME NEW i \in 1..Len(saved), NEW e \in Elements, saved[i][e] # None
        PROVE  /\ Idx'[i][e] # InvalidFileIndex
               /\ DataAt(disk'["data"], Idx'[i][e]) = DataAt(Dat', Idx'[i][e])
    <3>1. i \in 1..n
      BY <1>1, <2>1
    <3>2. /\ Idx[i][e] # InvalidFileIndex
          /\ DataAt(disk["data"], Idx[i][e]) = DataAt(Dat, Idx[i][e])
      BY <2>3 DEF MapperInv, SavedInv
    <3> QED
      BY <1>6, <1>9, <3>1, <3>2
  <2> QED
    BY <1>2, <2>1, <2>2, <2>3 DEF SavedInv
<1>15. Array!Next
  <2> DEFINE rec == [first |-> v, second |-> None]
  <2>1. /\ arr \in Seq(Range(arr)) /\ Len(arr) = n
        /\ \A i \in 1..n : arr[i] = [first  |-> DataAt(Dat, Idx[i].first),
                                    second |-> DataAt(Dat, Idx[i].second)]
    BY <1>1 DEF ViewFacts, n
  <2>2. /\ arr' \in Seq(Range(arr')) /\ Len(arr') = n + 1
        /\ \A i \in 1..(n + 1) : arr'[i] = [first  |-> DataAt(Dat', Idx'[i].first),
                                          second |-> DataAt(Dat', Idx'[i].second)]
    BY <1>6, <1>8 DEF ViewFacts
  <2> HIDE DEF arr
  <2> DEFINE S == Range(arr) \cup {rec}
  <2>3. arr \in Seq(S) /\ rec \in S
    BY <2>1, SeqMonotonic
  <2> HIDE DEF S
  <2>4. /\ Append(arr, rec) \in Seq(S) /\ Len(Append(arr, rec)) = n + 1
        /\ \A i \in 1..n : Append(arr, rec)[i] = arr[i]
        /\ Append(arr, rec)[n + 1] = rec
    BY <2>1, <2>3, AppendProperties
  <2>5. ASSUME NEW i \in 1..n PROVE arr'[i] = arr[i]
    <3>1. "first" \in Elements /\ "second" \in Elements /\ i \in 1..(n + 1)
      BY <1>1 DEF Elements
    <3>2. /\ DataAt(Dat', Idx'[i].first) = DataAt(Dat, Idx[i].first)
          /\ DataAt(Dat', Idx'[i].second) = DataAt(Dat, Idx[i].second)
      BY <1>6, <1>9, <3>1
    <3> QED
      BY <2>1, <2>2, <3>1, <3>2
  <2>6. arr'[n + 1] = rec
    <3>1. DataAt(Dat', InvalidFileIndex) = None
      BY DEF DataAt
    <3>2. n + 1 \in 1..(n + 1)
      BY <1>1
    <3> QED
      BY <1>6, <1>9, <1>10, <2>2, <3>1, <3>2
  <2>7. \A i \in 1..(n + 1) : arr'[i] = Append(arr, rec)[i]
    BY <1>11, <2>4, <2>5, <2>6
  <2>8. arr' = Append(arr, rec)
    BY <2>2, <2>4, <2>7, SameArray
  <2> QED
    BY <1>2, <2>8 DEF Array!Next, Array!AddRecord
<1> QED
  BY <1>7, <1>12, <1>13, <1>14, <1>15 DEF MapperInv

(* A record is supplied with its second element.                           *)
LEMMA WriteUpdateStep ==
  ASSUME MapperInv, NEW v \in Value, NEW at \in DOMAIN Index, WriteUpdate(at, v)
  PROVE  MapperInv' /\ Array!Next
<1> DEFINE ref   == [offset |-> Len(Dat), write |-> writes + 1]
           entry == [Idx[at] EXCEPT !.second = ref]
           n     == Len(Idx)
<1>1. ViewFacts /\ writes \in Nat /\ n \in Nat /\ Len(Dat) \in Nat
  <2>1. ViewFacts
    BY Views DEF MapperInv
  <2> QED
    BY <2>1 DEF MapperInv, TypeInv, ViewFacts
<1>2. /\ CanWrite /\ process' = "writing" /\ writes' = writes + 1 /\ saved' = saved
      /\ process # "none" /\ Idx = Index
  BY DEF WriteUpdate, CanWrite, Idx
<1>3. at \in 1..n /\ Idx[at].second = InvalidFileIndex /\ Idx[at] \in Entry
  <2>1. Idx \in Seq(Entry)
    BY <1>1 DEF ViewFacts
  <2>2. at \in 1..n
    BY <1>2, <2>1, LenProperties
  <2> QED
    BY <1>2, <2>1, <2>2, ElementOfSeq DEF WriteUpdate
<1>4. /\ DOMAIN disk' = Files /\ DOMAIN mapper' = Files
      /\ disk'["data"] = WrittenDisk(disk["data"], mapper["data"], Element(writes + 1, v))
      /\ mapper'["data"] = WrittenMapper(mapper["data"], Element(writes + 1, v))
  BY DEF WriteUpdate, Files
<1>5. Written(v) /\ Fits(Cell, disk'["data"], mapper'["data"]) /\ WriteOffset = ref
  BY <1>2, <1>4, WriteData
<1>6. /\ disk'["index"] = InPlaceDisk(disk["index"], mapper["index"], at - 1, entry)
      /\ mapper'["index"] = InPlaceMapper(mapper["index"], at - 1, entry)
  BY <1>2, <1>5 DEF WriteUpdate
<1>7. /\ entry \in Entry /\ entry.first = Idx[at].first /\ entry.second = ref
      /\ entry["first"] = Idx[at]["first"] /\ entry["second"] = ref
  BY <1>1, <1>3 DEF Entry, Ref
<1> HIDE DEF entry, n
<1>8. /\ Fits(Entry, disk'["index"], mapper'["index"])
      /\ Len(disk'["index"]) = Len(disk["index"])
      /\ Len(Idx') = n /\ Idx'[at] = entry
      /\ \A i \in 1..n : i # at => Idx'[i] = Idx[i]
  <2> DEFINE d == disk["index"]
             m == mapper["index"]
             k == at - 1
  <2>1. Fits(Entry, d, m) /\ Idx = Cells(d, m)
    BY <1>1, <1>2 DEF ViewFacts, Index
  <2>2. Idx' = Cells(disk'["index"], mapper'["index"])
    BY <1>2 DEF Idx, Index
  <2>3. k \in Nat /\ k < Len(Cells(d, m)) /\ k + 1 = at
    BY <1>1, <1>3, <2>1 DEF n
  <2>4. disk'["index"] = InPlaceDisk(d, m, k, entry) /\ mapper'["index"] = InPlaceMapper(m, k, entry)
    BY <1>6
  <2> HIDE DEF d, m, k
  <2> DEFINE d2 == disk'["index"]
             m2 == mapper'["index"]
  <2>5. d2 = InPlaceDisk(d, m, k, entry) /\ m2 = InPlaceMapper(m, k, entry)
    BY <2>4
  <2> HIDE DEF d2, m2
  <2>6. /\ Fits(Entry, d2, m2) /\ Len(d2) = Len(d)
        /\ Len(Cells(d2, m2)) = Len(Cells(d, m))
        /\ Cells(d2, m2)[k + 1] = entry
        /\ \A j \in 1..Len(Cells(d, m)) : j # k + 1 => Cells(d2, m2)[j] = Cells(d, m)[j]
    BY <1>7, <2>1, <2>3, <2>5, InPlaceCells
  <2> QED
    BY <2>1, <2>2, <2>3, <2>6, Zenon DEF d2, m2, d, n
<1>9. TypeInv' /\ MapInv'
  <2>1. TypeInv'
    BY <1>1, <1>2, <1>4, <1>5, <1>8 DEF TypeInv, Fits
  <2>2. MapInv'
    BY <1>2, <1>5, <1>8 DEF MapInv, Fits, Files
  <2> QED
    BY <2>1, <2>2
<1>10. ViewFacts'
  BY <1>9, Views, PTL
<1>11. /\ Proper(ref) /\ DataAt(Dat', ref) = v
       /\ \A i \in 1..n, e \in Elements :
            /\ DataAt(Dat', Idx[i][e]) = DataAt(Dat, Idx[i][e])
            /\ DataAt(disk["data"], Idx[i][e]) = DataAt(Dat, Idx[i][e]) =>
                 DataAt(disk'["data"], Idx[i][e]) = DataAt(Dat', Idx[i][e])
  BY <1>5, <1>10, OldData DEF n
<1>12. /\ ref # InvalidFileIndex /\ ref.offset = Len(Dat) /\ ref.write = writes + 1
       /\ InvalidFileIndex.write = 0
  BY <1>11 DEF Proper, InvalidFileIndex
<1> HIDE DEF ref
<1>13. \A i \in 1..n, e \in Elements :
         IF i = at /\ e = "second" THEN Idx'[i][e] = ref ELSE Idx'[i][e] = Idx[i][e]
  BY <1>7, <1>8 DEF Elements
<1>14. \A i \in 1..n : Idx'[i].first = Idx[i].first
  BY <1>7, <1>8
<1>15. RefInv'
  <2>1. \A i \in 1..n : Idx'[i].first # InvalidFileIndex
    BY <1>14 DEF MapperInv, RefInv, n
  <2>2. \A i \in 1..n, e \in Elements :
          Idx[i][e] # InvalidFileIndex => Idx[i][e].offset >= 0 /\ Idx[i][e].write \in 1..writes
    BY DEF MapperInv, RefInv, n
  <2>3. \A i \in 1..n, e \in Elements : Idx'[i][e] # InvalidFileIndex =>
          Idx'[i][e].offset >= 0 /\ Idx'[i][e].write \in 1..(writes + 1)
    BY <1>1, <1>12, <1>13, <2>2
  <2>4. ASSUME NEW i \in 1..n, NEW e \in Elements PROVE Idx[i][e].write # writes + 1
    <3>1. Idx[i][e].write \in 1..writes \/ Idx[i][e].write = 0
      BY <1>12, <2>2
    <3> QED
      BY <1>1, <3>1
  <2>5. ASSUME NEW i \in 1..n, NEW j \in 1..n, NEW e \in Elements,
               NEW g \in Elements, Idx'[i][e] # InvalidFileIndex,
               Idx'[i][e].write = Idx'[j][g].write
        PROVE  i = j /\ e = g
    <3>1. CASE i = at /\ e = "second"
      <4>1. Idx'[j][g].write = writes + 1
        BY <1>12, <1>13, <2>5, <3>1
      <4>2. j = at /\ g = "second"
        BY <1>13, <2>4, <4>1
      <4> QED
        BY <3>1, <4>2
    <3>2. CASE ~(i = at /\ e = "second")
      <4>1. Idx'[i][e] = Idx[i][e] /\ Idx[i][e].write \in 1..writes
        BY <1>13, <2>2, <2>5, <3>2
      <4>2. ~(j = at /\ g = "second")
        BY <1>1, <1>12, <1>13, <2>5, <4>1
      <4>3. Idx'[j][g] = Idx[j][g]
        BY <1>13, <4>2
      <4> QED
        BY <2>5, <4>1, <4>3 DEF MapperInv, RefInv, n
    <3> QED
      BY <3>1, <3>2
  <2> QED
    BY <1>2, <1>8, <2>1, <2>3, <2>5 DEF RefInv
<1>16. OrderInv'
  <2> SUFFICES ASSUME NEW i \in 1..n, NEW j \in 1..n, i < j,
                      DataAt(Dat', Idx'[i].first) # Torn
               PROVE  Idx'[i].first.offset + Size[DataAt(Dat', Idx'[i].first)]
                        <= Idx'[j].first.offset
    BY <1>8 DEF OrderInv
  <2>1. "first" \in Elements
    BY DEF Elements
  <2>2. DataAt(Dat', Idx'[i].first) = DataAt(Dat, Idx[i].first)
    BY <1>11, <1>14, <2>1
  <2> QED
    BY <1>14, <2>2 DEF MapperInv, OrderInv, n
<1>17. SavedInv'
  <2>1. /\ DOMAIN saved = 1..Len(saved) /\ Len(saved) \in Nat
        /\ Len(saved) <= Len(disk["index"]) /\ Len(disk["index"]) <= n
        /\ Len(disk["index"]) \in Nat
    BY <1>1 DEF MapperInv, SavedInv, ViewFacts, n
  <2>2. ASSUME NEW i \in 1..Len(saved), NEW e \in Elements, saved[i][e] # None
        PROVE  /\ Idx'[i][e] # InvalidFileIndex
               /\ DataAt(disk'["data"], Idx'[i][e]) = DataAt(Dat', Idx'[i][e])
    <3>1. i \in 1..n
      BY <1>1, <2>1
    <3>2. /\ Idx[i][e] # InvalidFileIndex
          /\ DataAt(disk["data"], Idx[i][e]) = DataAt(Dat, Idx[i][e])
      BY <2>2 DEF MapperInv, SavedInv
    <3>3. ~(i = at /\ e = "second")
      BY <1>3, <3>2
    <3>4. Idx'[i][e] = Idx[i][e]
      BY <1>13, <3>1, <3>3
    <3> QED
      BY <1>11, <3>1, <3>2, <3>4
  <2> QED
    BY <1>2, <1>8, <2>1, <2>2 DEF SavedInv
<1>18. Array!Next
  <2>1. /\ arr \in Seq(Range(arr)) /\ Len(arr) = n /\ DOMAIN arr = 1..n
        /\ \A i \in 1..n : arr[i] = [first  |-> DataAt(Dat, Idx[i].first),
                                    second |-> DataAt(Dat, Idx[i].second)]
    BY <1>1 DEF ViewFacts, n
  <2>2. /\ arr' \in Seq(Range(arr')) /\ Len(arr') = n /\ DOMAIN arr' = 1..n
        /\ \A i \in 1..n : arr'[i] = [first  |-> DataAt(Dat', Idx'[i].first),
                                     second |-> DataAt(Dat', Idx'[i].second)]
    BY <1>8, <1>10 DEF ViewFacts
  <2> HIDE DEF arr
  <2>3. ASSUME NEW i \in 1..n, i # at PROVE arr'[i] = arr[i]
    <3>1. "first" \in Elements /\ "second" \in Elements
      BY DEF Elements
    <3>2. /\ DataAt(Dat', Idx'[i].first) = DataAt(Dat, Idx[i].first)
          /\ DataAt(Dat', Idx'[i].second) = DataAt(Dat, Idx[i].second)
      BY <1>8, <1>11, <2>3, <3>1
    <3> QED
      BY <2>1, <2>2, <3>2
  <2>4. arr'[at] = [arr[at] EXCEPT !.second = v]
    <3>1. "first" \in Elements
      BY DEF Elements
    <3>2. DataAt(Dat', Idx'[at].first) = DataAt(Dat, Idx[at].first)
      BY <1>3, <1>11, <1>14, <3>1
    <3>3. DataAt(Dat', Idx'[at].second) = v
      BY <1>7, <1>8, <1>11
    <3>4. arr'[at] = [first |-> DataAt(Dat, Idx[at].first), second |-> v]
      BY <1>3, <2>2, <3>2, <3>3
    <3>5. arr[at] = [first |-> DataAt(Dat, Idx[at].first),
                     second |-> DataAt(Dat, Idx[at].second)]
      BY <1>3, <2>1
    <3> QED
      BY <3>4, <3>5
  <2>5. arr = [i \in 1..n |-> arr[i]] /\ arr' = [i \in 1..n |-> arr'[i]]
    BY <2>1, <2>2
  <2>6. arr' = [arr EXCEPT ![at].second = v]
    BY <1>3, <2>1, <2>2, <2>3, <2>4, <2>5
  <2> QED
    BY <1>2, <1>3, <2>1, <2>6 DEF Array!Next, Array!Supply
<1> QED
  BY <1>9, <1>15, <1>16, <1>17, <1>18 DEF MapperInv

(* What lies on disk can be read there like everywhere.                    *)
LEMMA OnDisk ==
  ASSUME NEW c \in Seq(Cell), NEW d \in Seq(Cell), NEW ref, Proper(ref),
         Len(c) <= Len(d), \A k \in 1..Len(c) : c[k] = d[k],
         DataAt(d, ref) # Torn => ref.offset + Size[DataAt(d, ref)] <= Len(c)
  PROVE  DataAt(c, ref) = DataAt(d, ref)
<1>1. CASE DataAt(d, ref) = Torn
  BY <1>1, PartData
<1>2. CASE DataAt(d, ref) # Torn
  <2>1. DataAt(d, ref) \in Value
    BY <1>2, DataCases
  <2>2. Whole(d, ref, DataAt(d, ref))
    BY <2>1, DataCases
  <2> QED
    BY <1>2, <2>1, <2>2, PartData
<1> QED
  BY <1>1, <1>2

(* The first element of a record is replaced.                              *)
LEMMA AmendStep ==
  ASSUME MapperInv, NEW v \in Value, NEW at \in DOMAIN Index, Amend(at, v)
  PROVE  MapperInv' /\ Array!Next
<1> DEFINE ref  == Idx[at].first
           old  == DataAt(Dat, ref)
           cell == Element(ref.write, v)[1]
           n    == Len(Idx)
<1>1. ViewFacts /\ writes \in Nat /\ n \in Nat /\ Len(Dat) \in Nat
  <2>1. ViewFacts
    BY Views DEF MapperInv
  <2> QED
    BY <2>1 DEF MapperInv, TypeInv, ViewFacts
<1>2. /\ process' = "writing" /\ writes' = writes + 1 /\ saved' = saved
      /\ process \in {"open", "writing"} /\ Idx = Index /\ Dat = Data
  BY DEF Amend, CanWrite, Idx, Dat
<1>3. at \in 1..n
  BY <1>1, <1>2, LenProperties DEF ViewFacts
<1>4. Size[v] = 1 /\ old \in Value /\ Size[old] = 1
  BY <1>2 DEF Amend
<1>5. /\ disk' = [disk EXCEPT !["data"] = InPlaceDisk(disk["data"], mapper["data"], ref.offset, cell)]
      /\ mapper' = [mapper EXCEPT !["data"] = InPlaceMapper(mapper["data"], ref.offset, cell)]
  BY <1>2 DEF Amend
<1>6. Proper(ref) /\ ref.write \in 1..writes /\ ref.offset \in Nat
  BY <1>3, RefsAreProper DEF Proper, Ref
<1>7. Whole(Dat, ref, old)
  BY <1>1, <1>4, <1>6, DataCases DEF ViewFacts
<1>8. ref.offset < Len(Dat)
  BY <1>1, <1>4, <1>6, <1>7 DEF Whole
<1>9. cell \in Cell
  <2>1. ref.write \in Nat /\ 1 \in 1..Size[v]
    BY <1>1, <1>4, <1>6
  <2>2. cell = [write |-> ref.write, value |-> v, part |-> 1]
    BY <2>1 DEF Element
  <2> QED
    BY <2>1, <2>2 DEF Cell
<1> HIDE DEF ref, old, cell, n
<1>10. /\ DOMAIN disk' = Files /\ DOMAIN mapper' = Files
       /\ disk'["index"] = disk["index"] /\ mapper'["index"] = mapper["index"]
       /\ disk'["data"] = InPlaceDisk(disk["data"], mapper["data"], ref.offset, cell)
       /\ mapper'["data"] = InPlaceMapper(mapper["data"], ref.offset, cell)
  BY <1>5 DEF MapperInv, TypeInv, Files
<1>11. Idx' = Idx
  BY <1>2, <1>10 DEF Idx, Index
<1>12. /\ Fits(Cell, disk'["data"], mapper'["data"])
       /\ Len(disk'["data"]) = Len(disk["data"])
       /\ Len(Dat') = Len(Dat) /\ Dat'[ref.offset + 1] = cell
       /\ \A k \in 1..Len(Dat) : k # ref.offset + 1 => Dat'[k] = Dat[k]
  <2> DEFINE d == disk["data"]
             m == mapper["data"]
             k == ref.offset
             d2 == disk'["data"]
             m2 == mapper'["data"]
  <2>1. Fits(Cell, d, m) /\ Dat = Cells(d, m)
    BY <1>1, <1>2 DEF ViewFacts, Data
  <2>2. Dat' = Cells(d2, m2)
    BY <1>2 DEF Dat, Data
  <2>3. k \in Nat /\ k < Len(Cells(d, m))
    BY <1>6, <1>8, <2>1
  <2>4. d2 = InPlaceDisk(d, m, k, cell) /\ m2 = InPlaceMapper(m, k, cell)
    BY <1>10
  <2> HIDE DEF d, m, k, d2, m2
  <2>5. /\ Fits(Cell, d2, m2) /\ Len(d2) = Len(d)
        /\ Len(Cells(d2, m2)) = Len(Cells(d, m))
        /\ Cells(d2, m2)[k + 1] = cell
        /\ \A j \in 1..Len(Cells(d, m)) : j # k + 1 => Cells(d2, m2)[j] = Cells(d, m)[j]
    BY <1>9, <2>1, <2>3, <2>4, InPlaceCells
  <2> QED
    BY <2>1, <2>2, <2>5, Zenon DEF d2, m2, d, k
<1>13. Fits(Entry, disk["index"], mapper["index"])
  BY <1>1, <1>2 DEF ViewFacts
<1>14. TypeInv' /\ MapInv'
  <2>1. TypeInv'
    BY <1>1, <1>2, <1>10, <1>12, <1>13 DEF TypeInv, Fits
  <2>2. MapInv'
    BY <1>2, <1>10, <1>12, <1>13 DEF MapInv, Fits, Files
  <2> QED
    BY <2>1, <2>2
<1>15. ViewFacts'
  BY <1>14, Views, PTL
<1>16. /\ DataAt(Dat', ref) = v
       /\ \A r : Proper(r) /\ r.write # ref.write => DataAt(Dat', r) = DataAt(Dat, r)
  <2>1. Dat \in Seq(Cell) /\ Dat' \in Seq(Cell)
    BY <1>1, <1>15 DEF ViewFacts
  <2>2. Dat'[ref.offset + 1] = Element(ref.write, v)[1]
    BY <1>12 DEF cell
  <2> QED
    BY <1>4, <1>6, <1>7, <1>12, <2>1, <2>2, AmendedData
<1>17. ASSUME NEW i \in 1..n, NEW e \in Elements, ~(i = at /\ e = "first")
       PROVE  DataAt(Dat', Idx[i][e]) = DataAt(Dat, Idx[i][e])
  <2>1. CASE Idx[i][e] = InvalidFileIndex
    BY <2>1 DEF DataAt
  <2>2. CASE Idx[i][e] # InvalidFileIndex
    <3>1. Proper(Idx[i][e])
      BY <2>2, RefsAreProper DEF n
    <3>2. "first" \in Elements /\ Idx[at]["first"] = ref
      BY DEF Elements, ref
    <3>3. Idx[i][e].write # ref.write
      BY <1>3, <1>17, <2>2, <3>2 DEF MapperInv, RefInv, n
    <3> QED
      BY <1>16, <3>1, <3>3
  <2> QED
    BY <2>1, <2>2
<1>18. RefInv'
  <2>1. \A i \in 1..n, e \in Elements :
          Idx[i][e] # InvalidFileIndex => Idx[i][e].offset >= 0 /\ Idx[i][e].write \in 1..writes
    BY DEF MapperInv, RefInv, n
  <2>2. \A i \in 1..n, e \in Elements :
          Idx[i][e] # InvalidFileIndex =>
            Idx[i][e].offset >= 0 /\ Idx[i][e].write \in 1..(writes + 1)
    BY <1>1, <2>1
  <2> QED
    BY <1>2, <1>11, <2>2 DEF MapperInv, RefInv, n
<1>19. \A i \in 1..n :
         /\ DataAt(Dat', Idx[i].first) # Torn => DataAt(Dat, Idx[i].first) # Torn
         /\ DataAt(Dat', Idx[i].first) # Torn =>
              Size[DataAt(Dat', Idx[i].first)] = Size[DataAt(Dat, Idx[i].first)]
  <2> TAKE i \in 1..n
  <2>1. CASE i = at
    BY <1>4, <1>16, <2>1, ValueAssumption DEF ref, old
  <2>2. CASE i # at
    BY <1>17, <2>2 DEF Elements
  <2> QED
    BY <2>1, <2>2
<1>20. OrderInv'
  BY <1>11, <1>19 DEF MapperInv, OrderInv, n
<1>21. SavedInv'
  <2>1. /\ DOMAIN saved = 1..Len(saved) /\ Len(saved) \in Nat
        /\ Len(saved) <= Len(disk["index"]) /\ Len(disk["index"]) <= n
        /\ Len(disk["index"]) \in Nat
    BY <1>1 DEF MapperInv, SavedInv, ViewFacts, n
  <2>2. /\ disk["data"] \in Seq(Cell) /\ disk'["data"] \in Seq(Cell)
        /\ Dat \in Seq(Cell) /\ Dat' \in Seq(Cell)
        /\ Len(disk'["data"]) <= Len(Dat')
        /\ \A k \in 1..Len(disk'["data"]) : disk'["data"][k] = Dat'[k]
    BY <1>1, <1>14, <1>15 DEF ViewFacts, TypeInv, MapperInv
  <2>3. ASSUME NEW i \in 1..Len(saved), NEW e \in Elements, saved[i][e] # None
        PROVE  /\ Idx[i][e] # InvalidFileIndex
               /\ DataAt(disk'["data"], Idx[i][e]) = DataAt(Dat', Idx[i][e])
    <3> DEFINE r == Idx[i][e]
    <3>1. i \in 1..n
      BY <1>1, <2>1
    <3>2. /\ r # InvalidFileIndex
          /\ DataAt(disk["data"], r) = DataAt(Dat, r)
      BY <2>3 DEF MapperInv, SavedInv
    <3>3. Proper(r)
      BY <3>1, <3>2, RefsAreProper DEF n
    <3>4. DataAt(Dat', r) # Torn => /\ DataAt(Dat, r) # Torn
                                    /\ Size[DataAt(Dat', r)] = Size[DataAt(Dat, r)]
      <4>1. CASE i = at /\ e = "first"
        <5>1. r = ref
          BY <4>1 DEF ref
        <5>2. DataAt(Dat', r) = v /\ DataAt(Dat, r) = old
          BY <1>16, <5>1 DEF old
        <5> QED
          BY <1>4, <5>2, ValueAssumption
      <4>2. CASE ~(i = at /\ e = "first")
        <5>1. DataAt(Dat', r) = DataAt(Dat, r)
          BY <1>17, <3>1, <4>2
        <5> QED
          BY <5>1
      <4> QED
        BY <4>1, <4>2
    <3> HIDE DEF r
    <3>5. ASSUME DataAt(Dat', r) # Torn
          PROVE  r.offset + Size[DataAt(Dat', r)] <= Len(disk'["data"])
      <4>1. DataAt(disk["data"], r) \in Value
        BY <2>2, <3>2, <3>3, <3>4, <3>5, DataCases
      <4>2. Whole(disk["data"], r, DataAt(disk["data"], r))
        BY <2>2, <3>3, <4>1, DataCases
      <4>3. r.offset + Size[DataAt(Dat, r)] <= Len(disk["data"])
        BY <3>2, <4>2 DEF Whole
      <4> QED
        BY <1>12, <3>4, <3>5, <4>3
    <3>6. DataAt(disk'["data"], r) = DataAt(Dat', r)
      BY <2>2, <3>3, <3>5, OnDisk
    <3> QED
      BY <3>2, <3>6 DEF r
  <2> QED
    BY <1>2, <1>10, <1>11, <2>1, <2>3 DEF SavedInv
<1>22. Array!Next
  <2>1. /\ arr \in Seq(Range(arr)) /\ Len(arr) = n /\ DOMAIN arr = 1..n
        /\ \A i \in 1..n : arr[i] = [first  |-> DataAt(Dat, Idx[i].first),
                                    second |-> DataAt(Dat, Idx[i].second)]
    BY <1>1 DEF ViewFacts, n
  <2>2. /\ arr' \in Seq(Range(arr')) /\ Len(arr') = n /\ DOMAIN arr' = 1..n
        /\ \A i \in 1..n : arr'[i] = [first  |-> DataAt(Dat', Idx[i].first),
                                     second |-> DataAt(Dat', Idx[i].second)]
    BY <1>11, <1>15 DEF ViewFacts, n
  <2> HIDE DEF arr
  <2>3. ASSUME NEW i \in 1..n, i # at PROVE arr'[i] = arr[i]
    <3>1. "first" \in Elements /\ "second" \in Elements
      BY DEF Elements
    <3>2. /\ DataAt(Dat', Idx[i].first) = DataAt(Dat, Idx[i].first)
          /\ DataAt(Dat', Idx[i].second) = DataAt(Dat, Idx[i].second)
      BY <1>17, <2>3, <3>1
    <3> QED
      BY <2>1, <2>2, <3>2
  <2>4. arr'[at] = [arr[at] EXCEPT !.first = v] /\ arr[at].first = old
    <3>1. "second" \in Elements /\ "second" # "first"
      BY DEF Elements
    <3>2. DataAt(Dat', Idx[at].second) = DataAt(Dat, Idx[at].second)
      BY <1>3, <1>17, <3>1
    <3>3. DataAt(Dat', Idx[at].first) = v /\ DataAt(Dat, Idx[at].first) = old
      BY <1>16 DEF ref, old
    <3>4. arr'[at] = [first |-> v, second |-> DataAt(Dat, Idx[at].second)]
      BY <1>3, <2>2, <3>2, <3>3
    <3>5. arr[at] = [first |-> old, second |-> DataAt(Dat, Idx[at].second)]
      BY <1>3, <2>1, <3>3
    <3> QED
      BY <3>4, <3>5
  <2>5. arr = [i \in 1..n |-> arr[i]] /\ arr' = [i \in 1..n |-> arr'[i]]
    BY <2>1, <2>2
  <2>6. arr' = [arr EXCEPT ![at].first = v]
    BY <1>3, <2>1, <2>2, <2>3, <2>4, <2>5
  <2>7. arr[at].first # Torn
    BY <1>4, <2>4, ValueAssumption
  <2> QED
    BY <1>2, <1>3, <2>1, <2>6, <2>7 DEF Array!Next, Array!Amend
<1> QED
  BY <1>14, <1>18, <1>20, <1>21, <1>22 DEF MapperInv

-----------------------------------------------------------------------------
(* Steps after which there are fewer records, or fewer elements to read.   *)
LEMMA Shrunk ==
  ASSUME MapperInv, writes' = writes, Len(Idx') \in Nat, Len(Idx') <= Len(Idx),
         \A i \in 1..Len(Idx') : Idx'[i] = Idx[i],
         \A i \in 1..Len(Idx') : DataAt(Dat', Idx[i].first) \in {DataAt(Dat, Idx[i].first), Torn}
  PROVE  RefInv' /\ OrderInv'
<1>1. Len(Idx) \in Nat
  BY Views DEF MapperInv, ViewFacts
<1>2. \A i \in 1..Len(Idx') : i \in 1..Len(Idx)
  BY <1>1
<1>3. RefInv'
  BY <1>2 DEF MapperInv, RefInv
<1>4. OrderInv'
  <2> SUFFICES ASSUME NEW i \in 1..Len(Idx'), NEW j \in 1..Len(Idx'), i < j,
                      DataAt(Dat', Idx'[i].first) # Torn
               PROVE  Idx'[i].first.offset + Size[DataAt(Dat', Idx'[i].first)]
                        <= Idx'[j].first.offset
    BY DEF OrderInv
  <2>1. DataAt(Dat', Idx'[i].first) = DataAt(Dat, Idx[i].first) /\ Idx'[i] = Idx[i]
        /\ Idx'[j] = Idx[j]
    OBVIOUS
  <2> QED
    BY <1>2, <2>1 DEF MapperInv, OrderInv
<1> QED
  BY <1>3, <1>4

(* A closed mapper is a mapper of an empty file.                           *)
LEMMA ClosedMapper ==
  ASSUME NEW S PROVE Closed \in Mapper(S)
BY EmptySeq DEF Closed, Mapper

(* Opening and flushing change nothing that can be read.                   *)
LEMMA OpenStep ==
  ASSUME MapperInv, Open
  PROVE  MapperInv' /\ UNCHANGED <<arr, saved>>
<1>1. /\ process = "none" /\ process' = "open"
      /\ UNCHANGED <<disk, saved, writes>>
      /\ mapper' = [f \in Files |-> OpenFile(disk[f])]
  BY DEF Open
<1>2. ASSUME NEW S, NEW d \in Seq(S) PROVE OpenFile(d) \in Mapper(S)
  BY <1>2, LenProperties, EmptySeq DEF OpenFile, Mapper
<1>3. TypeInv'
  BY <1>1, <1>2 DEF MapperInv, TypeInv, Files
<1>4. MapInv'
  <2>1. \A f \in Files : /\ mapper'[f].fileEnd = Len(disk[f])
                         /\ mapper'[f].buffer = << >>
                         /\ mapper'[f].writePos = Len(disk[f])
    BY <1>1 DEF OpenFile
  <2>2. \A f \in Files : Len(disk[f]) \in Nat
    BY LenProperties DEF MapperInv, TypeInv, Files
  <2>3. Len(<< >>) = 0
    BY EmptySeq
  <2>4. ASSUME NEW f \in Files
        PROVE  mapper'[f].writePos = Len(disk[f]) + Len(mapper'[f].buffer)
    <3>1. Len(mapper'[f].buffer) = 0
      BY <2>1, <2>3, Zenon
    <3> QED
      BY <2>1, <2>2, <3>1
  <2> QED
    BY <1>1, <2>1, <2>4 DEF MapInv
<1>5. ViewFacts /\ ViewFacts'
  <2>1. ViewFacts
    BY Views DEF MapperInv
  <2>2. ViewFacts'
    BY <1>3, <1>4, Views, PTL
  <2> QED
    BY <2>1, <2>2
<1>6. Idx' = Idx /\ Dat' = Dat
  BY <1>1, <1>5 DEF ViewFacts
<1>7. RefInv' /\ OrderInv'
  BY <1>1, <1>5, <1>6, Shrunk DEF ViewFacts
<1>8. SavedInv'
  BY <1>1, <1>6 DEF MapperInv, SavedInv
<1>9. arr' = arr
  BY <1>6 DEF arr, Idx, Dat
<1> QED
  BY <1>1, <1>3, <1>4, <1>7, <1>8, <1>9 DEF MapperInv

(* Flushing the index changes nothing that can be read.                    *)
LEMMA CloseIndexStep ==
  ASSUME MapperInv, CloseIndex
  PROVE  MapperInv' /\ UNCHANGED <<arr, saved>>
<1> DEFINE d == disk["index"]
           m == mapper["index"]
<1>1. /\ process \in {"open", "writing"} /\ process' = "closing"
      /\ UNCHANGED <<saved, writes>>
      /\ disk' = [disk EXCEPT !["index"] = Flushed(d, m)]
      /\ mapper' = [mapper EXCEPT !["index"] = ClearBuffer(m)]
  BY DEF CloseIndex
<1>2. ViewFacts
  BY Views DEF MapperInv
<1>3. Fits(Entry, d, m) /\ Fits(Cell, disk["data"], mapper["data"]) /\ Idx = Cells(d, m)
  BY <1>1, <1>2 DEF ViewFacts, Idx, Index
<1> HIDE DEF d, m
<1>4. /\ DOMAIN disk' = Files /\ DOMAIN mapper' = Files
      /\ disk'["index"] = Flushed(d, m) /\ mapper'["index"] = ClearBuffer(m)
      /\ disk'["data"] = disk["data"] /\ mapper'["data"] = mapper["data"]
  BY <1>1 DEF MapperInv, TypeInv, Files
<1>5. /\ Flushed(d, m) = Cells(d, m) /\ ClearBuffer(m).buffer = << >>
      /\ Fits(Entry, Flushed(d, m), ClearBuffer(m))
      /\ Cells(Flushed(d, m), ClearBuffer(m)) = Cells(d, m)
  BY <1>3, FlushedCells
<1>6. Fits(Entry, disk'["index"], mapper'["index"]) /\ mapper'["index"].buffer = << >>
      /\ Fits(Cell, disk'["data"], mapper'["data"])
  BY <1>3, <1>4, <1>5, Zenon
<1>7. TypeInv'
  BY <1>1, <1>4, <1>6 DEF TypeInv, Fits, MapperInv
<1>8. MapInv'
  BY <1>1, <1>6 DEF MapInv, Fits, Files
<1>9. ViewFacts'
  BY <1>7, <1>8, Views, PTL
<1>10. Idx' = Idx
  <2>1. Idx' = Cells(disk'["index"], mapper'["index"])
    BY <1>1 DEF Idx, Index
  <2> QED
    BY <1>3, <1>4, <1>5, <2>1, Zenon
<1>11. Dat' = Dat
  BY <1>1, <1>4 DEF Dat, Data
<1>12. RefInv' /\ OrderInv'
  BY <1>1, <1>2, <1>10, <1>11, Shrunk DEF ViewFacts
<1>13. SavedInv'
  <2>1. Len(disk["index"]) <= Len(disk'["index"])
    BY <1>2, <1>3, <1>4, <1>5 DEF ViewFacts, d
  <2>2. Len(saved) <= Len(disk'["index"])
    BY <1>2, <1>9, <2>1 DEF MapperInv, SavedInv, ViewFacts
  <2> QED
    BY <1>1, <1>4, <1>10, <1>11, <2>2 DEF MapperInv, SavedInv
<1>14. arr' = arr
  BY <1>1, <1>10, <1>11 DEF arr, Idx, Dat
<1> QED
  BY <1>1, <1>7, <1>8, <1>12, <1>13, <1>14 DEF MapperInv

(* Closed files: everything is on disk.                                    *)
LEMMA ClosedFiles ==
  ASSUME process' = "none", writes' \in Nat, DOMAIN disk' = Files,
         disk'["index"] \in Seq(Entry), disk'["data"] \in Seq(Cell),
         mapper' = [f \in Files |-> Closed]
  PROVE  /\ TypeInv' /\ MapInv' /\ ViewFacts'
         /\ Idx' = disk'["index"] /\ Dat' = disk'["data"]
<1>1. TypeInv'
  BY ClosedMapper DEF TypeInv, Files
<1>2. MapInv'
  BY DEF MapInv
<1>3. ViewFacts'
  BY <1>1, <1>2, Views, PTL
<1> QED
  BY <1>1, <1>2, <1>3 DEF ViewFacts

(* What closed files hold is what was saved.                               *)
LEMMA JustSaved ==
  ASSUME ViewFacts', process' = "none", saved' = arr', RefInv'
  PROVE  SavedInv'
<1>1. /\ DOMAIN saved' = 1..Len(saved') /\ Len(saved') \in Nat
      /\ Len(saved') <= Len(disk'["index"]) /\ Idx' = disk'["index"] /\ Dat' = disk'["data"]
  BY DEF ViewFacts
<1>2. ASSUME NEW i \in 1..Len(saved'), NEW e \in Elements, saved'[i][e] # None
      PROVE  Idx'[i][e] # InvalidFileIndex
  <2>1. saved'[i][e] = DataAt(Dat', Idx'[i][e])
    BY DEF ViewFacts, Elements
  <2> QED
    BY <1>2, <2>1 DEF DataAt
<1> QED
  BY <1>1, <1>2 DEF SavedInv

(* Flushing the data settles the array.                                    *)
LEMMA CloseDataStep ==
  ASSUME MapperInv, CloseData
  PROVE  MapperInv' /\ Array!Next
<1> DEFINE d == disk["data"]
           m == mapper["data"]
<1>1. /\ process = "closing" /\ process' = "none" /\ saved' = arr /\ writes' = writes
      /\ disk' = [disk EXCEPT !["data"] = Flushed(d, m)]
      /\ mapper' = [f \in Files |-> Closed]
  BY DEF CloseData
<1>2. ViewFacts
  BY Views DEF MapperInv
<1>3. Fits(Cell, d, m) /\ Dat = Cells(d, m) /\ Idx = disk["index"]
  BY <1>1, <1>2 DEF ViewFacts, Dat, Data
<1> HIDE DEF d, m
<1>4. Flushed(d, m) = Cells(d, m)
  BY <1>3, FlushedCells
<1>5. /\ DOMAIN disk' = Files /\ disk'["index"] = Idx /\ disk'["data"] = Dat
  BY <1>1, <1>3, <1>4 DEF MapperInv, TypeInv, Files
<1>6. Idx \in Seq(Entry) /\ Dat \in Seq(Cell) /\ Len(Idx) \in Nat /\ writes \in Nat
  BY <1>2 DEF ViewFacts, MapperInv, TypeInv
<1>7. TypeInv' /\ MapInv' /\ ViewFacts' /\ Idx' = Idx /\ Dat' = Dat
  BY <1>1, <1>5, <1>6, ClosedFiles
<1>8. RefInv' /\ OrderInv'
  BY <1>1, <1>6, <1>7, Shrunk
<1>9. arr' = arr
  BY <1>7 DEF arr, Idx, Dat
<1>10. SavedInv'
  BY <1>1, <1>7, <1>8, <1>9, JustSaved
<1> QED
  BY <1>1, <1>7, <1>8, <1>9, <1>10 DEF MapperInv, Array!Next, Array!Settle

(* A killed process leaves the disk: a first part of the records, each     *)
(* with its elements or without those that were not written out.           *)
LEMMA KillStep ==
  ASSUME MapperInv, Kill
  PROVE  MapperInv' /\ Array!Next
<1>1. /\ process' = "none" /\ UNCHANGED <<disk, saved, writes>>
      /\ mapper' = [f \in Files |-> Closed]
  BY DEF Kill
<1>2. ViewFacts /\ writes \in Nat /\ DOMAIN disk = Files
      /\ disk["index"] \in Seq(Entry) /\ disk["data"] \in Seq(Cell)
  BY Views DEF MapperInv, TypeInv
<1>3. TypeInv' /\ MapInv' /\ ViewFacts' /\ Idx' = disk["index"] /\ Dat' = disk["data"]
  BY <1>1, <1>2, ClosedFiles
<1>4. /\ Len(Idx') \in Nat /\ Len(Idx') <= Len(Idx) /\ Len(Idx) \in Nat
      /\ \A i \in 1..Len(Idx') : Idx'[i] = Idx[i]
      /\ Dat \in Seq(Cell) /\ Len(disk["data"]) <= Len(Dat)
      /\ \A k \in 1..Len(disk["data"]) : disk["data"][k] = Dat[k]
  BY <1>2, <1>3 DEF ViewFacts
<1>5. ASSUME NEW i \in 1..Len(Idx'), NEW e \in Elements
      PROVE  DataAt(Dat', Idx[i][e]) \in {DataAt(Dat, Idx[i][e]), Torn}
  <2>1. CASE Idx[i][e] = InvalidFileIndex
    BY <2>1 DEF DataAt
  <2>2. CASE Idx[i][e] # InvalidFileIndex
    <3>1. i \in 1..Len(Idx)
      BY <1>4
    <3>2. Proper(Idx[i][e])
      BY <2>2, <3>1, RefsAreProper
    <3> QED
      BY <1>2, <1>3, <1>4, <3>2, PartData
  <2> QED
    BY <2>1, <2>2
<1>6. RefInv' /\ OrderInv'
  <2>1. "first" \in Elements
    BY DEF Elements
  <2>2. \A i \in 1..Len(Idx') :
          DataAt(Dat', Idx[i].first) \in {DataAt(Dat, Idx[i].first), Torn}
    BY <1>5, <2>1
  <2> QED
    BY <1>1, <1>4, <2>2, Shrunk
<1>7. /\ Len(saved) \in Nat /\ Len(saved) <= Len(Idx') /\ DOMAIN saved = 1..Len(saved)
      /\ \A i \in 1..Len(saved), e \in Elements : saved[i][e] # None =>
           /\ Idx[i][e] # InvalidFileIndex
           /\ DataAt(Dat', Idx[i][e]) = DataAt(Dat, Idx[i][e])
  BY <1>3 DEF MapperInv, SavedInv
<1>8. SavedInv'
  <2>1. \A i \in 1..Len(saved) : i \in 1..Len(Idx') /\ Idx'[i] = Idx[i]
    BY <1>4, <1>7
  <2> QED
    BY <1>1, <1>3, <1>7, <2>1 DEF SavedInv
<1>9. Array!Next
  <2>1. /\ Len(arr) = Len(Idx) /\ Len(arr') = Len(Idx') /\ DOMAIN arr' = 1..Len(Idx')
    BY <1>2, <1>3 DEF ViewFacts
  <2>2. /\ \A i \in 1..Len(Idx) : arr[i] = [first  |-> DataAt(Dat, Idx[i].first),
                                          second |-> DataAt(Dat, Idx[i].second)]
        /\ \A i \in 1..Len(Idx') : arr'[i] = [first  |-> DataAt(Dat', Idx'[i].first),
                                            second |-> DataAt(Dat', Idx'[i].second)]
    BY <1>2, <1>3 DEF ViewFacts
  <2> HIDE DEF arr
  <2>3. \A i \in 1..Len(Idx'), e \in Elements :
          /\ arr[i][e] = DataAt(Dat, Idx[i][e])
          /\ arr'[i][e] = DataAt(Dat', Idx[i][e])
    <3> TAKE i \in 1..Len(Idx'), e \in Elements
    <3>1. i \in 1..Len(Idx) /\ Idx'[i] = Idx[i]
      BY <1>4
    <3>2. arr'[i] = [first  |-> DataAt(Dat', Idx[i].first),
                     second |-> DataAt(Dat', Idx[i].second)]
      BY <2>2, <3>1
    <3>3. arr[i] = [first  |-> DataAt(Dat, Idx[i].first),
                    second |-> DataAt(Dat, Idx[i].second)]
      BY <2>2, <3>1
    <3>4. CASE e = "first"
      BY <3>2, <3>3, <3>4
    <3>5. CASE e = "second"
      BY <3>2, <3>3, <3>5
    <3> QED
      BY <3>4, <3>5 DEF Elements
  <2>4. ASSUME NEW i \in DOMAIN arr', NEW e \in {"first", "second"}
        PROVE  /\ arr'[i][e] \in {arr[i][e], Torn}
               /\ i <= Len(saved) /\ saved[i][e] # None => arr'[i][e] = arr[i][e]
    <3>1. i \in 1..Len(Idx') /\ e \in Elements
      BY <2>1 DEF Elements
    <3>2. i <= Len(saved) => i \in 1..Len(saved)
      BY <1>4, <1>7, <3>1
    <3> QED
      BY <1>5, <1>7, <2>3, <3>1, <3>2
  <2>5. Len(arr') \in Len(saved)..Len(arr)
    BY <1>4, <1>7, <2>1
  <2> QED
    BY <1>1, <2>4, <2>5 DEF Array!Next, Array!Lose
<1> QED
  BY <1>3, <1>6, <1>8, <1>9 DEF MapperInv

-----------------------------------------------------------------------------
(* The first cells of a file that is cut.                                  *)
LEMMA FirstPart ==
  ASSUME NEW S, NEW d \in Seq(S), NEW t \in Nat, t <= Len(d)
  PROVE  /\ TruncatedDisk(d, t) \in Seq(S) /\ Len(TruncatedDisk(d, t)) = t
         /\ \A k \in 1..t : TruncatedDisk(d, t)[k] = d[k]
<1>1. TruncatedDisk(d, t) = SubSeq(d, 1, t) /\ Len(d) \in Nat
  BY LenProperties DEF TruncatedDisk
<1>2. \A k \in 1..t : d[k] \in S
  BY <1>1, ElementOfSeq
<1>3. /\ SubSeq(d, 1, t) \in Seq(S)
      /\ Len(SubSeq(d, 1, t)) = IF 1 <= t THEN t - 1 + 1 ELSE 0
      /\ \A k \in 1..(t - 1 + 1) : SubSeq(d, 1, t)[k] = d[1 + k - 1]
  BY <1>2, SubSeqProperties
<1>4. (IF 1 <= t THEN t - 1 + 1 ELSE 0) = t /\ t - 1 + 1 = t
  OBVIOUS
<1>5. \A k \in 1..t : 1 + k - 1 = k
  OBVIOUS
<1> QED
  BY <1>1, <1>3, <1>4, <1>5

(* Elements that end before the cut stay, and zeros put behind a file that *)
(* is too short complete no element.                                       *)
LEMMA CutData ==
  ASSUME NEW d \in Seq(Cell), NEW t \in Nat
  PROVE  /\ TruncatedDisk(d, t) \in Seq(Cell)
         /\ \A ref : Proper(ref) /\ ref.write # 0 =>
              /\ DataAt(TruncatedDisk(d, t), ref) \in {DataAt(d, ref), Torn}
              /\ (DataAt(d, ref) # Torn => ref.offset + Size[DataAt(d, ref)] <= t) =>
                   DataAt(TruncatedDisk(d, t), ref) = DataAt(d, ref)
<1> DEFINE c == TruncatedDisk(d, t)
<1>0. Len(d) \in Nat
  BY LenProperties
<1>1. CASE t <= Len(d)
  <2>1. c \in Seq(Cell) /\ Len(c) = t /\ \A k \in 1..t : c[k] = d[k]
    BY <1>1, FirstPart
  <2> HIDE DEF c
  <2>2. ASSUME NEW ref, Proper(ref)
        PROVE  /\ DataAt(c, ref) \in {DataAt(d, ref), Torn}
               /\ (DataAt(d, ref) # Torn => ref.offset + Size[DataAt(d, ref)] <= t) =>
                    DataAt(c, ref) = DataAt(d, ref)
    <3>1. DataAt(c, ref) \in {DataAt(d, ref), Torn}
      BY <1>1, <2>1, <2>2, PartData
    <3>2. (DataAt(d, ref) # Torn => ref.offset + Size[DataAt(d, ref)] <= Len(c)) =>
                    DataAt(c, ref) = DataAt(d, ref)
      BY <1>1, <2>1, <2>2, OnDisk
    <3> QED
      BY <2>1, <3>1, <3>2
  <2> QED
    BY <2>1, <2>2 DEF c
<1>2. CASE ~(t <= Len(d))
  <2> DEFINE z == [i \in 1..(t - Len(d)) |-> Zero]
  <2>1. c = d \o z
    BY <1>2 DEF TruncatedDisk
  <2>2. t - Len(d) \in Nat /\ Zero \in Cell
    BY <1>0, <1>2 DEF Zero, Cell
  <2>3. z \in Seq(Cell) /\ Len(z) = t - Len(d) /\ \A k \in 1..(t - Len(d)) : z[k] = Zero
    BY <2>2
  <2> HIDE DEF c, z
  <2>4. /\ d \o z \in Seq(Cell) /\ Len(d \o z) = Len(d) + Len(z)
        /\ \A k \in 1..(Len(d) + Len(z)) :
             (d \o z)[k] = IF k <= Len(d) THEN d[k] ELSE z[k - Len(d)]
    BY <2>3, ConcatProperties
  <2>5. c \in Seq(Cell) /\ Len(c) = t /\ \A k \in 1..t :
             c[k] = IF k <= Len(d) THEN d[k] ELSE z[k - Len(d)]
    <3>1. Len(d) + Len(z) = t
      BY <1>0, <2>3
    <3> QED
      BY <2>1, <2>4, <3>1, Zenon
  <2>6. \A k \in 1..Len(d) : d[k] = c[k]
    BY <1>0, <1>2, <2>5
  <2>7. ASSUME NEW k \in 1..Len(c), k > Len(d) PROVE c[k].write = 0
    <3>1. k - Len(d) \in 1..(t - Len(d)) /\ k \in 1..t /\ ~(k <= Len(d))
      BY <1>0, <2>5, <2>7
    <3>2. c[k] = Zero
      BY <2>3, <2>5, <3>1
    <3> QED
      BY <3>2 DEF Zero
  <2>8. ASSUME NEW ref, Proper(ref), ref.write # 0 PROVE DataAt(c, ref) = DataAt(d, ref)
    <3>1. \A k \in 1..Len(c) : k > Len(d) => c[k].write # ref.write
      BY <2>7, <2>8
    <3>2. Len(d) <= Len(c)
      BY <1>0, <1>2, <2>5
    <3> QED
      BY <2>5, <2>6, <2>8, <3>1, <3>2, GrownData
  <2> QED
    BY <2>5, <2>8 DEF c
<1> QED
  BY <1>1, <1>2

(* Files that were cut and closed hold the first records: the first        *)
(* elements of them, and the second ones unless they were cut off.         *)
LEMMA CutArray ==
  ASSUME MapperInv, process' = "none", mapper' = [f \in Files |-> Closed],
         writes' = writes, DOMAIN disk' = Files,
         NEW size \in Nat, size < Len(Idx), disk'["data"] \in Seq(Cell),
         disk'["index"] = TruncatedDisk(Idx, size), saved' = arr',
         \A i \in 1..size :
           /\ DataAt(disk'["data"], Idx[i].first) = DataAt(Dat, Idx[i].first)
           /\ DataAt(disk'["data"], Idx[i].second) \in {DataAt(Dat, Idx[i].second), Torn}
  PROVE  MapperInv' /\ Array!Next
<1>1. ViewFacts /\ writes \in Nat
  BY Views DEF MapperInv, TypeInv
<1>2. Idx \in Seq(Entry) /\ Len(Idx) \in Nat
  BY <1>1 DEF ViewFacts
<1>3. /\ disk'["index"] \in Seq(Entry) /\ Len(disk'["index"]) = size
      /\ \A i \in 1..size : disk'["index"][i] = Idx[i]
  BY <1>2, FirstPart
<1>4. TypeInv' /\ MapInv' /\ ViewFacts' /\ Idx' = disk'["index"] /\ Dat' = disk'["data"]
  BY <1>1, <1>3, ClosedFiles
<1>5. Len(Idx') = size /\ \A i \in 1..size : Idx'[i] = Idx[i]
  BY <1>3, <1>4
<1>6. RefInv' /\ OrderInv'
  BY <1>2, <1>4, <1>5, Shrunk
<1>7. SavedInv'
  BY <1>4, <1>6, JustSaved
<1>8. Array!Next
  <2>1. Len(arr) = Len(Idx) /\ Len(arr') = size /\ DOMAIN arr' = 1..size
    BY <1>1, <1>4, <1>5 DEF ViewFacts
  <2>2. /\ \A i \in 1..Len(Idx) : arr[i] = [first  |-> DataAt(Dat, Idx[i].first),
                                          second |-> DataAt(Dat, Idx[i].second)]
        /\ \A i \in 1..size : arr'[i] = [first  |-> DataAt(Dat', Idx'[i].first),
                                       second |-> DataAt(Dat', Idx'[i].second)]
    BY <1>1, <1>4, <1>5 DEF ViewFacts
  <2> HIDE DEF arr
  <2>3. ASSUME NEW i \in 1..size
        PROVE  arr'[i].first = arr[i].first /\ arr'[i].second \in {arr[i].second, Torn}
    <3>1. i \in 1..Len(Idx) /\ Idx'[i] = Idx[i]
      BY <1>2, <1>5
    <3>2. arr'[i] = [first  |-> DataAt(Dat', Idx[i].first),
                     second |-> DataAt(Dat', Idx[i].second)]
      BY <2>2, <3>1
    <3>3. arr[i] = [first  |-> DataAt(Dat, Idx[i].first),
                    second |-> DataAt(Dat, Idx[i].second)]
      BY <2>2, <3>1
    <3> QED
      BY <1>4, <3>2, <3>3
  <2> QED
    BY <2>1, <2>3 DEF Array!Next, Array!Cut
<1> QED
  BY <1>4, <1>6, <1>7, <1>8 DEF MapperInv

(* Truncation, done or killed between the files.                           *)
LEMMA TruncateStep ==
  ASSUME MapperInv, NEW size \in Nat, Truncate(size)
  PROVE  MapperInv' /\ Array!Next
<1> DEFINE t == TruncateSize(size)
<1>1. /\ process = "open" /\ size < Len(disk["index"]) /\ process' = "none"
      /\ mapper' = [f \in Files |-> Closed] /\ writes' = writes
      /\ saved' = Contents(disk'["index"], disk'["data"])
      /\ \/ disk' = [index |-> TruncatedDisk(disk["index"], size),
                     data |-> TruncatedDisk(disk["data"], t)]
         \/ disk' = [disk EXCEPT !["index"] = TruncatedDisk(disk["index"], size)]
  BY DEF Truncate
<1>2. ViewFacts /\ DOMAIN disk = Files
  BY Views DEF MapperInv, TypeInv
<1>3. /\ Idx = disk["index"] /\ Dat = disk["data"] /\ Len(Idx) \in Nat /\ Dat \in Seq(Cell)
  BY <1>1, <1>2 DEF ViewFacts
<1>4. size + 1 \in 1..Len(Idx) /\ \A i \in 1..size : i \in 1..Len(Idx) /\ i < size + 1
  BY <1>1, <1>3
<1>5. t \in Nat /\ t = Idx[size + 1].first.offset
  <2>1. Proper(Idx[size + 1].first)
    BY <1>4, RefsAreProper
  <2>2. t = Idx[size + 1].first.offset
    BY <1>3 DEF TruncateSize
  <2> QED
    BY <2>1, <2>2 DEF Proper, Ref
<1> HIDE DEF t
<1>6. /\ DOMAIN disk' = Files /\ disk'["index"] = TruncatedDisk(Idx, size)
      /\ disk'["data"] \in {Dat, TruncatedDisk(Dat, t)}
  BY <1>1, <1>2, <1>3 DEF Files
<1>7. /\ TruncatedDisk(Dat, t) \in Seq(Cell)
      /\ \A ref : Proper(ref) /\ ref.write # 0 =>
           /\ DataAt(TruncatedDisk(Dat, t), ref) \in {DataAt(Dat, ref), Torn}
           /\ (DataAt(Dat, ref) # Torn => ref.offset + Size[DataAt(Dat, ref)] <= t) =>
                DataAt(TruncatedDisk(Dat, t), ref) = DataAt(Dat, ref)
  BY <1>3, <1>5, CutData
<1>8. ASSUME NEW i \in 1..size
      PROVE  /\ DataAt(disk'["data"], Idx[i].first) = DataAt(Dat, Idx[i].first)
             /\ DataAt(disk'["data"], Idx[i].second) \in {DataAt(Dat, Idx[i].second), Torn}
  <2>1. DataAt(TruncatedDisk(Dat, t), Idx[i].first) = DataAt(Dat, Idx[i].first)
    <3>1. Proper(Idx[i].first) /\ Idx[i].first.write # 0
      <4>1. Proper(Idx[i].first) /\ Idx[i].first.write \in 1..writes
        BY <1>4, RefsAreProper
      <4> QED
        BY <4>1 DEF MapperInv, TypeInv
    <3>2. DataAt(Dat, Idx[i].first) # Torn =>
            Idx[i].first.offset + Size[DataAt(Dat, Idx[i].first)] <= t
      BY <1>4, <1>5 DEF MapperInv, OrderInv
    <3> QED
      BY <1>7, <3>1, <3>2
  <2>2. DataAt(TruncatedDisk(Dat, t), Idx[i].second) \in {DataAt(Dat, Idx[i].second), Torn}
    <3>1. CASE Idx[i].second = InvalidFileIndex
      BY <3>1 DEF DataAt
    <3>2. CASE Idx[i].second # InvalidFileIndex
      <4>1. "second" \in Elements /\ i \in 1..Len(Idx)
        BY <1>4 DEF Elements
      <4>2. Proper(Idx[i].second) /\ Idx[i].second.write \in 1..writes
        BY <3>2, <4>1, RefsAreProper
      <4>3. Idx[i].second.write # 0
        BY <4>2 DEF MapperInv, TypeInv
      <4> QED
        BY <1>7, <4>2, <4>3
    <3> QED
      BY <3>1, <3>2
  <2> QED
    BY <1>6, <2>1, <2>2
<1>9. saved' = arr'
  BY <1>1 DEF arr
<1>10. disk'["data"] \in Seq(Cell) /\ size < Len(Idx)
  BY <1>1, <1>3, <1>6, <1>7
<1> QED
  BY <1>1, <1>6, <1>8, <1>9, <1>10, CutArray

-----------------------------------------------------------------------------
(* Nothing is written before the first process opens the files.            *)
LEMMA MapperInit == Init => MapperInv /\ Array!Init
<1> SUFFICES ASSUME Init PROVE MapperInv /\ Array!Init
  OBVIOUS
<1>1. /\ disk = [f \in Files |-> << >>] /\ mapper = [f \in Files |-> Closed]
      /\ process = "none" /\ saved = << >> /\ writes = 0
  BY DEF Init
<1>2. DOMAIN disk = Files /\ disk["index"] = << >> /\ disk["data"] = << >>
  BY <1>1 DEF Files
<1>3. \A S : << >> \in Seq(S)
  BY EmptySeq
<1>4. TypeInv
  BY <1>1, <1>2, <1>3, ClosedMapper, Zenon DEF TypeInv, Files
<1>5. MapInv
  BY <1>1 DEF MapInv
<1>6. Idx = << >> /\ Dat = << >> /\ Len(<< >>) = 0 /\ DOMAIN << >> = 1..0
  <2>1. Idx = << >> /\ Dat = << >>
    BY <1>1, <1>2 DEF Idx, Dat
  <2> QED
    BY <2>1, EmptySeq
<1>7. 1..Len(Idx) = {}
  BY <1>6
<1>8. RefInv /\ OrderInv
  BY <1>7 DEF RefInv, OrderInv
<1>9. SavedInv
  BY <1>1, <1>2, <1>6 DEF SavedInv
<1>10. arr = << >>
  <2>1. arr = [i \in DOMAIN << >> |-> [first  |-> DataAt(<< >>, << >>[i].first),
                                      second |-> DataAt(<< >>, << >>[i].second)]]
    BY <1>1, <1>2, Zenon DEF arr, Contents
  <2>2. DOMAIN arr = {}
    BY <1>6, <2>1
  <2>3. Len(arr) = 0 /\ arr \in Seq({})
    BY <2>1, <1>6
  <2> QED
    BY <2>3, EmptySeq
<1> QED
  BY <1>1, <1>4, <1>5, <1>8, <1>9, <1>10 DEF MapperInv, Array!Init

(* Every step of the mappers keeps the invariant and is a step of the      *)
(* array or changes nothing of it.                                         *)
LEMMA MapperStep ==
  MapperInv /\ [Next]_vars => MapperInv' /\ [Array!Next]_<<arr, saved>>
<1> SUFFICES ASSUME MapperInv, [Next]_vars
             PROVE  MapperInv' /\ [Array!Next]_<<arr, saved>>
  OBVIOUS
<1>1. ASSUME NEW v \in Value, WriteNew(v)
      PROVE  MapperInv' /\ [Array!Next]_<<arr, saved>>
  BY <1>1, WriteNewStep
<1>2. ASSUME NEW v \in Value, NEW i \in DOMAIN Index, WriteUpdate(i, v)
      PROVE  MapperInv' /\ [Array!Next]_<<arr, saved>>
  BY <1>2, WriteUpdateStep
<1>3. ASSUME NEW v \in Value, NEW i \in DOMAIN Index, Amend(i, v)
      PROVE  MapperInv' /\ [Array!Next]_<<arr, saved>>
  BY <1>3, AmendStep
<1>4. CASE Open
  BY <1>4, OpenStep
<1>5. CASE CloseIndex
  BY <1>5, CloseIndexStep
<1>6. CASE CloseData
  BY <1>6, CloseDataStep
<1>7. ASSUME NEW size \in 0..MaxWrites, Truncate(size)
      PROVE  MapperInv' /\ [Array!Next]_<<arr, saved>>
  <2>1. size \in Nat
    BY BoundAssumption
  <2> QED
    BY <1>7, <2>1, TruncateStep
<1>8. CASE Kill
  BY <1>8, KillStep
<1>9. CASE UNCHANGED vars
  <2>1. /\ disk' = disk /\ mapper' = mapper /\ process' = process
        /\ saved' = saved /\ writes' = writes
    BY <1>9 DEF vars
  <2>2. Idx' = Idx /\ Dat' = Dat /\ arr' = arr
    BY <2>1 DEF Idx, Dat, Index, Data, arr
  <2>3. TypeInv' /\ MapInv'
    BY <2>1 DEF MapperInv, TypeInv, MapInv
  <2>4. RefInv' /\ OrderInv' /\ SavedInv'
    BY <2>1, <2>2 DEF MapperInv, RefInv, OrderInv, SavedInv
  <2> QED
    BY <2>1, <2>2, <2>3, <2>4 DEF MapperInv
<1>10. CASE Done
  BY <1>9, <1>10 DEF Done
<1> QED
  BY <1>1, <1>2, <1>3, <1>4, <1>5, <1>6, <1>7, <1>8, <1>9, <1>10 DEF Next

(* The mapped files stay as MapperInv describes them: a mapper maps all of *)
(* its file and buffers what comes behind it, no two offsets come from one *)
(* write, first elements lie in the order of their records, and what was   *)
(* there when the files were last closed is on disk and not in a buffer.   *)
THEOREM MapperInvariance == Spec => []MapperInv
<1>1. Init => MapperInv
  BY MapperInit
<1>2. MapperInv /\ [Next]_vars => MapperInv'
  BY MapperStep
<1> QED
  BY <1>1, <1>2, PTL DEF Spec

(* The pair of mapped files is the array of records it stands for: writes, *)
(* in-place changes, flushes of a full buffer, truncation and a process    *)
(* that is killed at any moment do to what can be read exactly what        *)
(* RecordArray allows.                                                     *)
THEOREM FilesAreRecordArray == Spec => ImplementsRecordArray
<1>1. Init => Array!Init
  BY MapperInit
<1>2. MapperInv /\ [Next]_vars => [Array!Next]_<<arr, saved>>
  BY MapperStep
<1> QED
  BY <1>1, <1>2, MapperInvariance, PTL DEF Spec, ImplementsRecordArray, Array!Spec
=============================================================================
