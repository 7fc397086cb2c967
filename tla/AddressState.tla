---------------------------- MODULE AddressState ----------------------------
(***************************************************************************)
(* How addresses get their numbers (AddressState: a Bloom filter before a  *)
(* map of the addresses used more than once before a database) and how the *)
(* records of their scripts are written (AddressWriter), by two threads of *)
(* BlockProcessor::addNewBlocks that both meet the transactions in order.  *)
(*                                                                         *)
(* The scripts of a transaction are a sequence of nodes, in the order in   *)
(* which both threads walk them: an input is followed by the script output *)
(* it wraps and the input of that, a multisig output by its keys.          *)
(***************************************************************************)
EXTENDS Naturals, Sequences, FiniteSets

CONSTANTS
  Hash,      \* address hashes
  BitsOf,    \* BitsOf[h]: the positions in the Bloom filter that stand for h
  MaxItems,  \* MaxItems[k]: the size of the filter of kind k
  TxShapes,  \* transactions: sequences of nodes io, type, hash, up
  MaxTxs, MaxRestarts, \* bounds of the model
  Never      \* txFirstSpent of a script nobody spent

DedupType ==
  [PUBKEY |-> "PUBKEY", PUBKEYHASH |-> "PUBKEY", WITNESS_PUBKEYHASH |-> "PUBKEY",
   MULTISIG_PUBKEY |-> "PUBKEY", SCRIPTHASH |-> "SCRIPTHASH",
   WITNESS_SCRIPTHASH |-> "SCRIPTHASH", MULTISIG |-> "MULTISIG",
   NONSTANDARD |-> "NONSTANDARD", NULL_DATA |-> "NULL_DATA"]
Kind == {DedupType[t] : t \in DOMAIN DedupType}
Equived == {"PUBKEY", "SCRIPTHASH", "MULTISIG"}
Spendable(type) == DedupType[type] # "NULL_DATA"

(* The column of the database: the exampleType of an address type, and     *)
(* the one HashIndex::getColumn has for a kind.                            *)
ExampleType(type) ==
  IF type = "MULTISIG_PUBKEY" THEN "PUBKEY"
  ELSE IF DedupType[type] = "PUBKEY" THEN "PUBKEYHASH" ELSE DedupType[type]
Column(kind) == IF kind = "PUBKEY" THEN "PUBKEYHASH" ELSE kind
Columns == {Column(k) : k \in Equived} \cup {"PUBKEY"}

ASSUME FilterAssumption ==
  DOMAIN BitsOf = Hash /\ DOMAIN MaxItems = Equived /\ \A k \in Equived : MaxItems[k] \in Nat
ASSUME ShapeAssumption ==
  TxShapes \subseteq Seq([io : {"in", "out"}, type : DOMAIN DedupType, hash : Hash, up : Nat])

(* The inputs of the transaction itself, and the one around a node: the    *)
(* last that comes before it or is it.                                     *)
Inputs(shape) == {i \in DOMAIN shape : shape[i].io = "in" /\ shape[i].up = 0}
IsAround(shape, j, i) == j <= i /\ \A k \in (j + 1)..i : k \notin Inputs(shape)
Around(shape, i) == CHOOSE j \in Inputs(shape) : IsAround(shape, j, i)

(* Inputs come before outputs.  An input wraps nothing or the script       *)
(* output after it, a multisig output is followed by its keys, and an      *)
(* input that is wrapped has the script of the output that it points to.   *)
IsScriptHashInput(n) == n.io = "in" /\ DedupType[n.type] = "SCRIPTHASH"
KeysOf(s, i) == {j \in DOMAIN s : s[j].io = "out" /\ s[j].up = i}
IsTree(shape) ==
  \A i \in DOMAIN shape :
    LET n == shape[i] IN
    /\ n.up < i
    /\ n.io = "in" =>
         /\ n.type # "MULTISIG_PUBKEY"
         /\ n.up # 0 =>
              LET o == shape[n.up] IN o.io = "out" /\ o.type = n.type /\ o.hash = n.hash
         /\ \E j \in Inputs(shape) : IsAround(shape, j, i)
         /\ \A j \in 1..(i - 1) : shape[j].io = "out" => shape[j].up # 0
    /\ IsScriptHashInput(n) => i < Len(shape) /\ shape[i + 1].io = "out" /\ shape[i + 1].up = i
    /\ n.type = "MULTISIG_PUBKEY" =>
         n.up # 0 /\ shape[n.up].io = "out" /\ shape[n.up].type = "MULTISIG"
    /\ n.io = "out" /\ n.type = "MULTISIG" =>
         \E c \in 0..Len(shape) : KeysOf(shape, i) = (i + 1)..(i + c)

(* A script hash is the hash of one script.                                *)
ASSUME TreeAssumption ==
  /\ \A shape \in TxShapes : IsTree(shape)
  /\ \A s, t \in TxShapes : \A i \in DOMAIN s, j \in DOMAIN t :
       IsScriptHashInput(s[i]) /\ IsScriptHashInput(t[j]) /\ s[i].hash = t[j].hash =>
         s[i + 1].hash = t[j + 1].hash
ASSUME BoundAssumption == MaxTxs \in Nat /\ MaxRestarts \in Nat /\ Never \notin Nat

VARIABLES
  open,           \* is there an AddressState?
  restarts,       \* how often there was one
  rolledBack,     \* has there been a rollback?
  db,             \* db[column]: map from hash to number
  multi,          \* multiAddressMaps
  bloom, added,   \* the bits of the filters, and what was added to them
  scriptIndexes,
  disk,           \* the files that ~AddressState writes
  answer,         \* what resolve returned last
  nodes,          \* scripts of the transactions so far, with tx and spends
  res,            \* scriptNum and isNew of the nodes that are resolved
  written,        \* nodes that AddressWriter has handled
  unspent,        \* nodes that are unspent outputs
  file            \* file[k]: records of hash, seen, spent, data and segwit

book == <<db, multi, bloom, added, scriptIndexes, answer>>
scripts == <<nodes, unspent>>
vars == <<open, restarts, rolledBack, book, disk, scripts, res, written, file>>

Init ==
  /\ open = FALSE /\ restarts = 0 /\ rolledBack = FALSE
  /\ db = [c \in Columns |-> << >>]
  /\ multi = [k \in Equived |-> << >>]
  /\ bloom = [k \in Equived |-> {}] /\ added = [k \in Equived |-> 0]
  /\ scriptIndexes = [k \in Kind |-> 1]
  /\ disk = [multi |-> multi, added |-> added, scriptIndexes |-> scriptIndexes]
  /\ answer = [kind |-> "none"]
  /\ nodes = << >> /\ res = << >> /\ written = 0 /\ unspent = {}
  /\ file = [k \in Kind |-> << >>]

-----------------------------------------------------------------------------
(* The constructor reads what the destructor wrote.  The filters' bits are *)
(* in a mapped file and the database writes at once.                       *)
Open ==
  /\ ~open /\ restarts < MaxRestarts
  /\ open' = TRUE /\ restarts' = restarts + 1
  /\ multi' = disk.multi /\ added' = disk.added
  /\ scriptIndexes' = disk.scriptIndexes
  /\ UNCHANGED <<rolledBack, db, bloom, disk, answer, scripts, res, written, file>>

Idle == open /\ Len(res) = Len(nodes) /\ written = Len(nodes)

Close ==
  /\ Idle
  /\ open' = FALSE
  /\ disk' = [multi |-> multi, added |-> added, scriptIndexes |-> scriptIndexes]
  /\ UNCHANGED <<restarts, rolledBack, book, scripts, res, written, file>>

(* The next transaction.  Its inputs spend different outputs, and what is  *)
(* wrapped in an input is spent with the same output.                      *)
AddTx ==
  /\ open /\ Len(res) = Len(nodes)
  /\ LET tx == IF nodes = << >> THEN 0 ELSE nodes[Len(nodes)].tx + 1
     IN  /\ tx < MaxTxs
         /\ \E shape \in TxShapes : \E spent \in [Inputs(shape) -> unspent] :
              /\ \A i \in Inputs(shape) :
                   /\ shape[i].type = nodes[spent[i]].type
                   /\ shape[i].hash = nodes[spent[i]].hash
                   /\ \A j \in Inputs(shape) : spent[i] = spent[j] => i = j
              /\ nodes' = nodes \o
                   [i \in DOMAIN shape |->
                      [io |-> shape[i].io, type |-> shape[i].type, hash |-> shape[i].hash,
                       up |-> IF shape[i].up = 0 THEN 0 ELSE Len(nodes) + shape[i].up,
                       spends |-> IF shape[i].io = "in" THEN spent[Around(shape, i)] ELSE 0,
                       tx |-> tx]]
              /\ unspent' = (unspent \ {spent[i] : i \in Inputs(shape)}) \cup
                   {Len(nodes) + i : i \in {i \in DOMAIN shape :
                      shape[i].io = "out" /\ shape[i].up = 0 /\ Spendable(shape[i].type)}}
  /\ UNCHANGED <<open, restarts, rolledBack, book, disk, res, written, file>>

-----------------------------------------------------------------------------
(* AddressState::findAddress: 0 is "not found", also in the database.      *)
PossiblyContains(k, h) == BitsOf[h] \subseteq bloom[k]

Lookup(type, h) ==
  LET column == db[ExampleType(type)] IN IF h \in DOMAIN column THEN column[h] ELSE 0

Put(map, h, n) == [g \in DOMAIN map \cup {h} |-> IF g = h THEN n ELSE map[g]]
Insert(map, h, n) == IF h \in DOMAIN map THEN map ELSE Put(map, h, n)

AddressNum(type, h) ==
  LET k == DedupType[type]
  IN  IF ~PossiblyContains(k, h) THEN 0
      ELSE IF h \in DOMAIN multi[k] THEN multi[k][h]
      ELSE Lookup(type, h)

(* resolveAddress for an address that was found: the map of addresses used *)
(* more than once learns of it if it came from the database.               *)
Found(type, h) ==
  LET k == DedupType[type] IN
  /\ multi' = [multi EXCEPT ![k] = Insert(@, h, AddressNum(type, h))]
  /\ answer' = [kind |-> k, hash |-> h, num |-> AddressNum(type, h), isNew |-> FALSE]
  /\ UNCHANGED <<db, bloom, added, scriptIndexes>>

(* reloadBloomFilter: the addresses of the kind's column, and no others.   *)
FilterOf_Reset(column) == {}      \* mutant: reset, and nothing added

FilterOf(column) == UNION {BitsOf[h] : h \in DOMAIN column}

(* ... and for one that was not.  A full filter is built anew, of the same *)
(* size, so that from then on it is built anew for every address.          *)
NotFound(type, h) ==
  LET k == DedupType[type]
      full == added[k] + 1 >= MaxItems[k] IN
  /\ scriptIndexes' = [scriptIndexes EXCEPT ![k] = @ + 1]
  /\ db' = [db EXCEPT ![ExampleType(type)] = Put(@, h, scriptIndexes[k])]
  /\ bloom' = [bloom EXCEPT ![k] = IF full THEN FilterOf(db'[Column(k)]) ELSE @ \cup BitsOf[h]]
  /\ added' = [added EXCEPT ![k] = IF full THEN Cardinality(DOMAIN db'[Column(k)]) ELSE @ + 1]
  /\ answer' = [kind |-> k, hash |-> h, num |-> scriptIndexes[k], isNew |-> TRUE]
  /\ UNCHANGED multi

(* findAddress and resolveAddress for a kind that is not deduplicated.     *)
NonDedup(k, h) ==
  /\ scriptIndexes' = [scriptIndexes EXCEPT ![k] = @ + 1]
  /\ answer' = [kind |-> k, hash |-> h, num |-> scriptIndexes[k], isNew |-> TRUE]
  /\ UNCHANGED <<db, multi, bloom, added>>

(* The keys of a multisig script that is not new are not resolved, and an  *)
(* input has no number of its own.                                         *)
Skipped(n) == n.io = "in" \/ (n.type = "MULTISIG_PUBKEY" /\ ~res[n.up].isNew)

Skip ==
  /\ Len(res) < Len(nodes) /\ Skipped(nodes[Len(res) + 1])
  /\ res' = Append(res, [scriptNum |-> 0, isNew |-> FALSE])
  /\ UNCHANGED <<open, restarts, rolledBack, book, disk, scripts, written, file>>

(* ScriptOutput::resolve, for one node of processAddresses.                *)
Resolve ==
  /\ Len(res) < Len(nodes)
  /\ LET n == nodes[Len(res) + 1] IN
       /\ ~Skipped(n)
       /\ IF DedupType[n.type] \notin Equived THEN NonDedup(DedupType[n.type], n.hash)
          ELSE IF AddressNum(n.type, n.hash) = 0 THEN NotFound(n.type, n.hash)
          ELSE Found(n.type, n.hash)
  /\ res' = Append(res, [scriptNum |-> answer'.num, isNew |-> answer'.isNew])
  /\ UNCHANGED <<open, restarts, rolledBack, disk, scripts, written, file>>

-----------------------------------------------------------------------------
(* AddressWriter.  What a new script has by its getData, its record ...    *)
NewData(i) ==
  CASE nodes[i].type \in {"PUBKEY", "MULTISIG_PUBKEY"} -> <<"key">>
    [] nodes[i].type = "MULTISIG" ->
         [m \in 1..Cardinality(KeysOf(nodes, i)) |-> res[i + m].scriptNum]
    [] OTHER -> << >>

NewRecord(i) ==
  LET n == nodes[i] IN
  [hash |-> n.hash, seen |-> n.tx, spent |-> Never, data |-> NewData(i),
   segwit |-> n.type = "WITNESS_SCRIPTHASH"]

(* ... and what serializeImp adds to the record of one that is not.        *)
Known(n, r) ==
  CASE n.type = "PUBKEY" -> [r EXCEPT !.data = <<"key">>]
    [] n.type = "WITNESS_SCRIPTHASH" -> [r EXCEPT !.segwit = TRUE]
    [] OTHER -> r

WriteOutput_OnlyOuter(i) ==       \* mutant: visitWrapped left out
  LET k == DedupType[nodes[i].type] IN
  file' = IF res[i].isNew /\ nodes[i].type # "MULTISIG_PUBKEY"
            THEN [file EXCEPT ![k] = Append(@, NewRecord(i))] ELSE file

WriteOutput(i) ==
  LET n == nodes[i]
      k == DedupType[n.type] IN
  file' = IF res[i].isNew THEN [file EXCEPT ![k] = Append(@, NewRecord(i))]
          ELSE IF Skipped(n) THEN file
          ELSE [file EXCEPT ![k][res[i].scriptNum] = Known(n, @)]

(* An input has the number of the output it spends, a wrapped input that   *)
(* of the script output before it.  What it reveals is kept the first      *)
(* time: a key, a script, or the address that is wrapped.                  *)

Reveals(i, r) ==
  LET n == nodes[i] IN
  CASE n.type \in {"PUBKEYHASH", "WITNESS_PUBKEYHASH"} -> [r EXCEPT !.data = <<"key">>]
    [] n.type \in {"SCRIPTHASH", "WITNESS_SCRIPTHASH"} ->
         [r EXCEPT !.data = <<nodes[i + 1].type, res[i + 1].scriptNum>>]
    [] n.type = "NONSTANDARD" -> [r EXCEPT !.data = <<"script">>]
    [] OTHER -> r

Spend_KeepSeen(i, r) ==           \* mutant: isNewerFirstSeen not considered
  IF r.spent = Never THEN Reveals(i, [r EXCEPT !.spent = nodes[i].tx]) ELSE r

Spend(i, r) ==
  LET n == nodes[i]
      out == nodes[n.spends].tx
      s == [r EXCEPT !.seen = IF out < @ THEN out ELSE @]
  IN  IF r.spent = Never THEN Reveals(i, [s EXCEPT !.spent = n.tx]) ELSE s

InputNum(i) == res[IF nodes[i].up = 0 THEN nodes[i].spends ELSE nodes[i].up].scriptNum

WriteInput(i) ==
  file' = [file EXCEPT ![DedupType[nodes[i].type]][InputNum(i)] = Spend(i, @)]

(* serializeAddressess gets a transaction when all of it is resolved.      *)
Serialize ==
  /\ written < Len(res)
  /\ \A i \in (Len(res) + 1)..Len(nodes) : nodes[i].tx > nodes[written + 1].tx
  /\ IF nodes[written + 1].io = "out" THEN WriteOutput(written + 1)
     ELSE WriteInput(written + 1)
  /\ written' = written + 1
  /\ UNCHANGED <<open, restarts, rolledBack, book, disk, scripts, res>>

-----------------------------------------------------------------------------
(* rollbackTransactions opens an AddressState, rolls it back to the counts *)
(* of a State, one for each kind and none above the size of the file, and  *)
(* closes it, and truncates the files.  The transactions in hand are gone. *)
Below(map, n) == [h \in {g \in DOMAIN map : map[g] < n} |-> map[h]]

Rollback ==
  /\ ~open /\ restarts < MaxRestarts
  /\ \E counts \in [Kind -> UNION {0..Len(file[k]) : k \in Kind}] :
       /\ \A k \in Kind : counts[k] <= Len(file[k])
       /\ multi' = [k \in Equived |-> Below(disk.multi[k], counts[k])]
       /\ db' = [c \in Columns |->
                   IF \E k \in Equived : Column(k) = c
                     THEN Below(db[c], counts[CHOOSE k \in Equived : Column(k) = c])
                     ELSE db[c]]
       /\ scriptIndexes' = counts
       /\ file' = [k \in Kind |-> SubSeq(file[k], 1, counts[k])]
  /\ bloom' = [k \in Equived |-> FilterOf(db'[Column(k)])]
  /\ added' = [k \in Equived |-> Cardinality(DOMAIN db'[Column(k)])]
  /\ disk' = [multi |-> multi', added |-> added', scriptIndexes |-> scriptIndexes']
  /\ answer' = [kind |-> "none"]
  /\ nodes' = << >> /\ res' = << >> /\ written' = 0 /\ unspent' = {}
  /\ rolledBack' = TRUE /\ restarts' = restarts + 1
  /\ UNCHANGED open

Next == Open \/ Close \/ AddTx \/ Skip \/ Resolve \/ Serialize \/ Rollback

Spec == Init /\ [][Next]_vars

-----------------------------------------------------------------------------
(* AddressState implements the address book, as long as no key of a        *)
(* multisig script was met and no rollback to a count of zero made 0 a     *)
(* number: filter, map and database together never forget an address,      *)
(* confuse two, or give a number twice, across reloads of a full filter,   *)
(* restarts and rollbacks.                                                 *)
Book == INSTANCE AddressBook WITH
  book  <- [k \in Equived |-> db[Column(k)]],
  count <- IF open THEN scriptIndexes ELSE disk.scriptIndexes

KeysMet == db["PUBKEY"] # << >>
ZeroGiven == \E c \in Columns : \E h \in DOMAIN db[c] : db[c][h] = 0

ImplementsAddressBook ==
  Book!Init /\ [][Book!Next \/ KeysMet' \/ ZeroGiven \/ ZeroGiven']_(Book!vars)

(* A script number leads to the record of its script, although one thread  *)
(* gives out the numbers and another appends the records, for scripts that *)
(* are wrapped in others too.                                              *)
RecordsMatchNumbers ==
  ~rolledBack =>
    \A i \in 1..written :
      res[i].scriptNum # 0 =>
        LET f == file[DedupType[nodes[i].type]]
        IN  res[i].scriptNum \in DOMAIN f /\ f[res[i].scriptNum].hash = nodes[i].hash

(* A script hash that was spent names the record of the script it wraps, a *)
(* public key hash that was spent has its key, and the numbers in a        *)
(* multisig record are those of its keys.                                  *)
SpentScriptsAreRevealed ==
  ~rolledBack =>
    \A i \in 1..written :
      LET n == nodes[i]
          r == file[DedupType[n.type]][InputNum(i)]
      IN  IF n.io = "in" /\ DedupType[n.type] = "SCRIPTHASH"
            THEN (i < written) =>
                   /\ Len(r.data) = 2
                   /\ file[DedupType[r.data[1]]][r.data[2]].hash = nodes[i + 1].hash
          ELSE IF n.io = "in" /\ DedupType[n.type] = "PUBKEY" THEN r.data = <<"key">>
          ELSE n.type = "MULTISIG" /\ res[i].isNew /\ written = Len(nodes) =>
                 \A j \in DOMAIN nodes :
                   nodes[j].type = "MULTISIG_PUBKEY" /\ nodes[j].up = i =>
                     \E m \in DOMAIN file["MULTISIG"][res[i].scriptNum].data :
                       file["PUBKEY"][file["MULTISIG"][res[i].scriptNum].data[m]].hash
                         = nodes[j].hash

(* A record says when its script was first seen and first spent: also when *)
(* it was first seen wrapped in a script hash, whose output is older than  *)
(* the first output that showed the script itself.                         *)
FirstSeenIsEarliest ==
  ~rolledBack /\ written = Len(nodes) =>
    \A i \in DOMAIN nodes :
      LET n == nodes[i] IN
      /\ n.io = "out" /\ n.up = 0 =>
           file[DedupType[n.type]][res[i].scriptNum].seen <= n.tx
      /\ n.io = "in" =>
           LET r == file[DedupType[n.type]][InputNum(i)]
           IN  r.seen <= nodes[n.spends].tx /\ r.spent <= n.tx

(* The records tell the history of their scripts, in what they reveal and  *)
(* in when: the two parts above, for AddressWriter's updates in place.     *)
RecordsMatchHistory == SpentScriptsAreRevealed /\ FirstSeenIsEarliest
=============================================================================
