----------------------------- MODULE FileMapper -----------------------------
(***************************************************************************)
(* IndexedFileMapper<readwrite>: an index file of offsets into a data file *)
(* of elements of different sizes, both a SimpleFileMapper: a mapped part  *)
(* that is written in place and a buffer of what comes behind it.          *)
(*                                                                         *)
(* A file is a sequence of cells.  A cell carries the number of the write  *)
(* it comes from, and so does an offset, to tell an element that is read   *)
(* back from another one that happens to lie at its offset.                *)
(***************************************************************************)
EXTENDS Integers, Sequences, FiniteSets

CONSTANTS Value, None, Torn,
          Size,           \* Size[v]: the cells an element takes
          MaxBufferSize,  \* cells
          MaxWrites, MaxRuns, MaxKills  \* bounds of the model

ASSUME ValueAssumption == None \notin Value /\ Torn \notin Value /\ None # Torn
ASSUME SizeAssumption == Size \in [Value -> Nat \ {0}]
ASSUME BoundAssumption == {MaxBufferSize, MaxWrites, MaxRuns, MaxKills} \subseteq Nat

Files == {"data", "index"}
InvalidFileIndex == [offset |-> -1, write |-> 0]
Zero == [write |-> 0, value |-> None, part |-> 0]

VARIABLES
  disk,     \* disk[f]: the cells of file f
  mapper,   \* mapper[f]: fileEnd, buffer and writePos of its SimpleFileMapper
  process,  \* "none", "open", "writing", "closing"
  saved,    \* the array when the files were last closed
  writes, runs, kills

vars == <<disk, mapper, process, saved, writes, runs, kills>>

Closed == [fileEnd |-> 0, buffer |-> <<>>, writePos |-> 0]

(***************************************************************************)
(* SimpleFileMapper.  Nothing in the repository seeks, so that writePos is *)
(* never inside what is already there.                                     *)
(***************************************************************************)
OpenFile(d) == [fileEnd |-> Len(d), buffer |-> <<>>, writePos |-> Len(d)]
SizeOf(m) == m.fileEnd + Len(m.buffer)
Cells(d, m) == SubSeq(d, 1, m.fileEnd) \o m.buffer

Flushed(d, m) == IF m.buffer = <<>> THEN d ELSE Cells(d, m)
ClearBuffer(m) == [m EXCEPT !.fileEnd = @ + Len(m.buffer), !.buffer = <<>>]

Buffered(m, cells) ==
  [m EXCEPT !.buffer = @ \o cells, !.writePos = @ + Len(cells)]
BufferFull(m) == Len(m.buffer) > MaxBufferSize

WrittenDisk(d, m, cells) ==
  IF BufferFull(Buffered(m, cells)) THEN Flushed(d, Buffered(m, cells)) ELSE d
WrittenMapper(m, cells) ==
  IF BufferFull(Buffered(m, cells)) THEN ClearBuffer(Buffered(m, cells)) ELSE Buffered(m, cells)

(* A cell is overwritten where it is: in the mapped file or in the buffer. *)
InPlaceDisk(d, m, at, cell) == IF at < m.fileEnd THEN [d EXCEPT ![at + 1] = cell] ELSE d
InPlaceMapper(m, at, cell) ==
  IF at < m.fileEnd THEN m ELSE [m EXCEPT !.buffer[at - m.fileEnd + 1] = cell]

(* truncate of a mapper that was just opened, whose buffer is empty: an    *)
(* offset beyond the end makes the file longer.                            *)
TruncatedDisk(d, size) ==
  IF size <= Len(d) THEN SubSeq(d, 1, size)
  ELSE d \o [i \in 1..(size - Len(d)) |-> Zero]

(***************************************************************************)
(* IndexedFileMapper.                                                      *)
(***************************************************************************)
Element(w, v) == [p \in 1..Size[v] |-> [write |-> w, value |-> v, part |-> p]]

(* What getDataAtOffset leads to.                                          *)
DataAt(cells, ref) ==
  IF ref = InvalidFileIndex THEN None
  ELSE LET v == IF ref.offset < Len(cells) THEN cells[ref.offset + 1].value ELSE None
       IN  IF /\ v # None
              /\ ref.offset + Size[v] <= Len(cells)
              /\ \A p \in 1..Size[v] : /\ cells[ref.offset + p].write = ref.write
                                       /\ cells[ref.offset + p].part = p
           THEN v ELSE Torn

Index == Cells(disk["index"], mapper["index"])
Data == Cells(disk["data"], mapper["data"])

(* The records as a process with open mappers reads them, and as the next  *)
(* one will.                                                               *)
Contents(index, data) ==
  [i \in DOMAIN index |-> [first |-> DataAt(data, index[i].first),
                           second |-> DataAt(data, index[i].second)]]
arr == IF process = "none" THEN Contents(disk["index"], disk["data"])
                           ELSE Contents(Index, Data)

Init ==
  /\ disk = [f \in Files |-> <<>>]
  /\ mapper = [f \in Files |-> Closed]
  /\ process = "none"
  /\ saved = <<>>
  /\ writes = 0 /\ runs = 0 /\ kills = 0

Open ==
  /\ process = "none" /\ runs < MaxRuns
  /\ process' = "open"
  /\ mapper' = [f \in Files |-> OpenFile(disk[f])]
  /\ runs' = runs + 1
  /\ UNCHANGED <<disk, saved, writes, kills>>

Write(cells) ==
  /\ disk' = [f \in Files |-> WrittenDisk(disk[f], mapper[f], cells[f])]
  /\ mapper' = [f \in Files |-> WrittenMapper(mapper[f], cells[f])]
  /\ writes' = writes + 1
  /\ process' = "writing"
  /\ UNCHANGED <<saved, runs, kills>>

Offset_MappedEnd == mapper["data"].fileEnd
Offset == mapper["data"].writePos
WriteOffset == [offset |-> Offset, write |-> writes + 1]

CanWrite == process \in {"open", "writing"} /\ writes < MaxWrites

WriteNew(v) ==
  /\ CanWrite
  /\ Write([index |-> <<[first |-> WriteOffset, second |-> InvalidFileIndex]>>,
            data |-> Element(writes + 1, v)])

(* The offset is put where the index entry is, on disk if it is mapped,    *)
(* while the element goes to the end of the data.                          *)
WriteUpdate(i, v) ==
  /\ CanWrite /\ i \in DOMAIN Index /\ Index[i].second = InvalidFileIndex
  /\ LET entry == [Index[i] EXCEPT !.second = WriteOffset]
         element == Element(writes + 1, v)
     IN  /\ disk' = [index |-> InPlaceDisk(disk["index"], mapper["index"], i - 1, entry),
                     data |-> WrittenDisk(disk["data"], mapper["data"], element)]
         /\ mapper' = [index |-> InPlaceMapper(mapper["index"], i - 1, entry),
                       data |-> WrittenMapper(mapper["data"], element)]
  /\ writes' = writes + 1
  /\ process' = "writing"
  /\ UNCHANGED <<saved, runs, kills>>

(* The parser amends the first element of a script that is revealed or     *)
(* spent: getDataAtIndex gives a pointer to it.                            *)
Amend(i, v) ==
  /\ CanWrite /\ i \in DOMAIN Index /\ Size[v] = 1
  /\ LET ref == Index[i].first
         old == DataAt(Data, ref)
     IN  /\ old \in Value \ {v} /\ Size[old] = 1
         /\ disk' = [disk EXCEPT !["data"] =
              InPlaceDisk(@, mapper["data"], ref.offset, Element(ref.write, v)[1])]
         /\ mapper' = [mapper EXCEPT !["data"] =
              InPlaceMapper(@, ref.offset, Element(ref.write, v)[1])]
  /\ writes' = writes + 1
  /\ process' = "writing"
  /\ UNCHANGED <<saved, runs, kills>>

(* ~IndexedFileMapper: the index file, declared last, is written first.    *)
CloseIndex ==
  /\ process \in {"open", "writing"}
  /\ disk' = [disk EXCEPT !["index"] = Flushed(@, mapper["index"])]
  /\ mapper' = [mapper EXCEPT !["index"] = ClearBuffer(@)]
  /\ process' = "closing"
  /\ UNCHANGED <<saved, writes, runs, kills>>

CloseData ==
  /\ process = "closing"
  /\ disk' = [disk EXCEPT !["data"] = Flushed(@, mapper["data"])]
  /\ mapper' = [f \in Files |-> Closed]
  /\ process' = "none"
  /\ saved' = arr
  /\ UNCHANGED <<writes, runs, kills>>

(* rollbackTransactions and AddressWriter truncate mappers they have just  *)
(* opened and destroy them; killed between the two files, they leave the   *)
(* data of records that the index does not have any more.                  *)
TruncateSize(size) == disk["index"][size + 1].first.offset
Truncate(size) ==
  /\ process = "open" /\ size < Len(disk["index"])
  /\ \/ /\ disk' = [index |-> TruncatedDisk(disk["index"], size),
                    data |-> TruncatedDisk(disk["data"], TruncateSize(size))]
        /\ UNCHANGED kills
     \/ /\ kills < MaxKills
        /\ disk' = [disk EXCEPT !["index"] = TruncatedDisk(@, size)]
        /\ kills' = kills + 1
  /\ mapper' = [f \in Files |-> Closed]
  /\ process' = "none"
  /\ saved' = Contents(disk'["index"], disk'["data"])
  /\ UNCHANGED <<writes, runs>>

Kill ==
  /\ process # "none" /\ kills < MaxKills
  /\ mapper' = [f \in Files |-> Closed]
  /\ process' = "none"
  /\ kills' = kills + 1
  /\ UNCHANGED <<disk, saved, writes, runs>>

Done == process = "none" /\ runs = MaxRuns /\ UNCHANGED vars

Next ==
  \/ Open \/ CloseIndex \/ CloseData \/ Kill \/ Done
  \/ \E v \in Value : WriteNew(v)
  \/ \E v \in Value, i \in DOMAIN Index : WriteUpdate(i, v) \/ Amend(i, v)
  \/ \E size \in 0..MaxWrites : Truncate(size)

Spec == Init /\ [][Next]_vars

(* The mappers are an array of records: whatever mixture of buffered and   *)
(* mapped cells holds them, records read back what was last written to     *)
(* them, truncation leaves the records before it alone (but may cut off a  *)
(* second element written later than the record at the cut), and a process *)
(* that is killed takes with it only what was written since files were     *)
(* closed.                                                                 *)
Array == INSTANCE RecordArray
ImplementsRecordArray == Array!Spec
=============================================================================
