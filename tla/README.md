# A verification project for BlockSci

BlockSci turns the block files of a full node into a compact database that an
analysis library maps into memory. Everything the library answers depends on
files whose records carry no keys: the position of a record is its identity.
The *parser* (`src/parser`) writes these files with nine threads, updates them
incrementally, and rolls them back when the chain is reorganised; two *indexes*
follow it at their own pace; *readers* have the files mapped meanwhile; and the
*clusterer* links scripts with several threads. These TLA+ modules model the
whole way, from the bytes of a block file to the answers of a query.

Paths below are relative to the directories `src/` and `clustering/src/` of the
repository, lines refer to its files, and `tlc -config X.cfg M` in this
directory runs a configuration. `PROJECT.json` maps every definition to the
lines it translates, lists every component with its status and the hazards of
the code line by line, and gives a mutant for every property: a plausible
error in the code that the property finds. Operators that take operators
(`MapReduce`, `Filter`, `Total`, ...) are not in the map; their comments name the code.

## 1. Inventory

| Component | State | Operations | Hard behaviour | What makes it correct |
|---|---|---|---|---|
| Block processor pipeline (`parser/block_processor.cpp`) | bounded queues, `isDone` flags, `RawTransaction` objects, mapped block files, output files | importer, eight `ProcessStep` threads, caller that joins them | every interleaving; failure of any thread; recycling of objects and unmapping of files while others use them | records in transaction order; complete on return; ends; one owner per object; files mapped while needed |
| Block index (`parser/chain_index.*`) | `blockList` with heights, `newestBlock`, saved copy | `update` (a thread per file), height computation, `generateChain` | the node writes meanwhile; half-written blocks; threads whose exceptions nobody sees; killed parser | no block missed; resume position sound; longest chain; never shrinks; every block indexed in the end |
| Chain update, rollback, UTXO maps (`parser/main.cpp`, `serializable_map.hpp`, `utxo_*`) | block, transaction and link files, maps, saved copies | split point, `rollbackState`, truncation, adding in batches, back-linking, saving | reorganisations, repeated rollbacks | files equal the chosen chain; maps equal the unspent outputs; links agree both ways; no missing key |
| Address state and writer (`parser/address_state.*`, `address_writer.*`, `script_*`) | Bloom filter, multi-use map, database, next numbers, script files | find, resolve, roll back, append, update in place | three stores answer one question; numbers and records are produced by different threads; scripts reveal scripts | one number per address; number n leads to record n; a record says what the history says |
| File mappers (`blocksci/util/file_mapper.*`) | mapped part, write buffer, index and data file | open, write, update, truncate, flush | a record half in the buffer; truncation; kill between two flushes | behaves like an array of records |
| Parser indexes (`parser/parser_index.hpp`, `hash_index_creator.cpp`, `address_db.cpp`, `blocksci/index`) | RocksDB columns, `latestState` | update from `latestState`, roll back, queries for equivalent addresses | kills; rollback; what later transactions reveal | the index equals one built anew; equivalence is symmetric |
| Chain reader (`blocksci/chain/chain_access.*`) | mapped files, last loaded block | open, reload, reorg check, lookups | reload while the parser cuts and appends | never mixes two chains; complete if the parser rests |
| Queries and heuristics (`blocksci/chain`, `address`, `heuristics`) | none | balances, ages, links, change and mixing heuristics, segmented map, reduce, filter | `blocksIgnored`; boundaries of ages and heights; the same thing computed by different loops | sums and links agree; heuristics agree; segments partition the chain |
| Clusterer (`clusterer`) | union-find, cluster files | segments of work, unite, find, numbering, files, queries | threads on one lock-free structure; numbers shifted between types | clusters are the components of the links; the files agree |
| Raw transactions, scripts, strings (`parser/preproccessed_block.cpp`, `safe_mem_reader.hpp`, `blocksci/scripts`, `parser/script_output.cpp`, base58, bech32) | none | parsing, classification, signature hashes, encodings | boundaries of length encodings, truncated input | agreement with a reference definition |
| Mempool recorder, taint tracking, block replayer, Python interface, notebooks, build files | – | – | – | not modelled, see section 6 |

How they interact: `updateChain` loads the block index, updates and saves it,
takes the longest chain from it, finds where it splits from the chain on disk,
rolls back, and calls `addNewBlocks` and `backUpdateTxes` for each batch.
Inside `addNewBlocks` the eight steps share nothing but the queues; each owns
its files and maps. Afterwards the parser indexes catch up, and readers that
have the files mapped reload them. The clusterer is a reader that computes.

## 2. Modules

| Module | Models | Uses |
|---|---|---|
| `OrderedSteps` | what `addNewBlocks` promises: the processing functions applied as if by one thread | |
| `Pipeline` | `addNewBlocks`: importer, steps, queues, recycling, file mapping, failures, joining | refines `OrderedSteps` |
| `PipelineInv` | the inductive invariant of `Pipeline` | `Pipeline` |
| `ChainIndex` | `ChainIndex<FileTag>::update`, `generateChain`, load and save | |
| `ChainUpdate` | `updateChain`: split point, rollback, adding, links, saving, addresses | relies on what the two above show |
| `AddressBook` | what `AddressState` promises: a map from hashes to numbers | |
| `AddressState` | filter, multi-use map, database, counts; the script records | refines `AddressBook` |
| `RecordArray` | what an indexed file promises: an array of records | |
| `FileMapper` | `SimpleFileMapper` and `IndexedFileMapper`, read-write | refines `RecordArray` |
| `ChainReader` | `ChainAccess` next to a parser that updates its files | |
| `ParserIndex` | `ParserIndex`, `HashIndexCreator`, `AddressDB`, and the queries of `AddressIndex` | |
| `Ledger` | the chain as a query reads it; queries of `Transaction`, `Output`, `Block`, `Address` | |
| `Heuristics` | change heuristics and classifications of transactions | `Ledger` |
| `Segments` | cutting a range for threads, and putting results together | |
| `Analysis` | all queries computed on every chain that grows | `Heuristics`, `Segments` |
| `Clustering` | the clusterer, its files, `ClusterManager` and `Cluster` | `Heuristics`, `Segments` |
| `Scripts` | `CScript`, `CScriptView`, `CScriptNum`, `extractScriptData` | |
| `RawTx` | `SafeMemReader`, `RawTransaction`, `TransactionHeader`, signature hashes | `Scripts` |
| `Encodings` | Base58, Bech32, SegWit addresses, hexadecimal | |
| `Codecs` | scripts, transactions and strings written step by step and read back | `RawTx`, `Encodings` |
| `PipelineProofs`, `PipelineSafety` | proofs: order; ownership, completeness, mapping, refinement | `PipelineInv`, TLAPS |
| `ChainIndexProofs` | proofs: resume position and completeness; the longest chain | `ChainIndex`, TLAPS |
| `ChainUpdateProofs` | proofs: block files, UTXO maps, links, script numbers | `ChainUpdate`, TLAPS |
| `ChainReaderProofs` | proofs: a reader sees one chain | `ChainReader`, TLAPS |
| `AddressProofs` | proofs: the address book; numbers, records and what they tell | `AddressState`, TLAPS |
| `ParserIndexProofs` | proofs: the columns of both indexes, equivalent addresses | `ParserIndex`, TLAPS |
| `FileMapperProofs` | proofs: the array of records | `FileMapper`, TLAPS |
| `MC...` | small instances for TLC | the above |

Modules compose by contract. `ChainIndex` shows that the index is complete and
its chain a longest one; `ChainUpdate` starts from any longest chain of a growing
set of known blocks (`Discover`, `Chains`). `Pipeline` implements `OrderedSteps`;
`ChainUpdate` takes a transaction through all processing functions in one step,
in order, which `OrderedSteps` permits because step i sees transactions in the
same order as step i - 1 and the state of the steps is disjoint.
`AddressState` looks into two of those steps and implements `AddressBook`, the map
that `ChainUpdate` calls `addressDb`; `FileMapper` implements `RecordArray`, which the
script files of both are. `ParserIndex` and `ChainReader` take an update of the
chain as given and interleave with it.

### Pipeline

Thread 0 is the importer, thread i the i-th `ProcessStep`, `queue[i]` its
input queue, and `queue[NumSteps + 1]` is `finished_transaction_queue`.

* A step's loop reads the producer's flag (`CheckPrevDone`), pops until the
  queue is empty (`Pop`, `QueueEmpty`), works (`Process`) and pushes (`Push`);
  a full queue makes it look at its consumer's flag (`PushFull`, `NextDone`,
  `Retry`, `GiveUp`). Each access to shared memory is a step of its own.
* The importer takes the next block (`NextBlock`), takes an object back
  (`Recycle`, which unmaps the files `receivedFinishedTx` unmaps) or allocates
  one (`Allocate`), reads the transaction into it (`Parse`) and pushes it.
* The last step keeps the object if the queue has room (`ProcessAndKeep`) and
  deletes it otherwise (`ProcessAndDelete`).
* `ImportFails` and `StepFails` are exceptions in a thread's own work;
  `NextQueueFinishedEarlyException` is `GiveUp`. `Exit` is the
  `CompletionGuard`, and the destruction of the reader if the importer throws.
* The caller gets the futures in order (`GetFuture`), deletes what is left and
  returns (`Return`), or waits for the other threads while its exception
  unwinds (`Rethrow`).

What a processing function writes is abstracted to the transaction's number in
`out[i]`.

### ChainIndex

The node appends blocks to the last file and opens new ones (`NodeBegins`,
`NodeEnds`); a block in between is half written. `Start` takes the resume
position from `newestBlock`; `Spawn` starts a thread per file up to
`maxBlockFileNum`, waiting while more than `ThreadLimit` are active. A thread
reads (`Enter`, `Scan`), throws at a half-written block (`ScanFails`: the
exception stays in its future), sets `newestBlock` if its file is the last
(`Leave`) and merges under the lock (`Merge`). `Visit` is one round of the
height computation. `GenerateChain` takes the chain and opens the index file for
writing, which empties it (`torn`); `Save` writes it. `Crash` forgets what is not
saved; between the two it leaves a file that boost's archive rejects, and every
later start throws (`StartThrows`). If `newestBlock` was never assigned, the value read from it is any
position (`ResumePoints`): an uninitialised read.

### ChainUpdate

`Start` is everything before the rollback; `UndoTx` is one round of the loop in
`rollbackState`, `SaveUndone` its end; `Truncate` and `RollbackAddresses` are
the rest of `rollbackTransactions`. `AddTx` takes one transaction through the
processing functions, one definition for each of those with state (`ConnectUTXOs`,
`ProcessAddresses`, `RecordAddresses`, `SerializeTransaction`,
`SerializeAddresses`). `EndBlock` writes the block record and ends a batch,
`BackUpdateTxes` writes the links, `Save` saves the maps and the counts. Erasing a
key that is not in its map throws `MissingKeyException`: `Throw` ends the program
in phase "failed", from which nothing leads on, so that TLC reports a missing key
as a deadlock. The new scripts of a transaction are numbered and written by their
rank among its new outputs (`NewOuts`, `NewBefore`, `NewScripts`). Addresses are of two kinds, one that is
deduplicated and `NULL_DATA`, which is not and cannot be spent: this is the
distinction the code's tables `equived` and `spendable` make.

### AddressState and AddressBook

A transaction is the sequence of scripts that two steps of the pipeline walk:
an input, the output it wraps, the input of that, the keys of a multisig. The
resolver (`Resolve`, `Skip`) asks the filter, the multi-use map and the database
(`PossiblyContains`, `Lookup`, `AddressNum`, `Found`, `NotFound`), and rebuilds a
full filter from the database (`FilterOf`). The writer (`Serialize`) comes after
it at its own pace: `WriteOutput`, `WriteInput`, with what an input reveals.
A transaction has any number of inputs, each of which spends another output.
`Open` and `Close` load and save; `Rollback` is `AddressState::rollback` with one
count per kind, as often as there are runs. Which counts `rollbackState` finds
depends on the deleted transactions; the model takes any that the files allow, and
goes on without the transactions it had.
The book of `AddressBook` is the database; filter and multi-use map must not make
the answers differ from it. The refinement has two stated exceptions, in which
the code does not provide it: once keys of multisig scripts are met, whose
database column is left out of rebuilt filters and rollbacks (`KeysMet`), and
once a rollback to no scripts has made 0 a number (`ZeroGiven`).

### FileMapper and RecordArray

A file is a sequence of cells on disk; a `SimpleFileMapper` maps it, writes in
place within the mapped part and buffers what comes behind. Every cell and
offset carries the number of the write it comes from, so that an offset that
leads to someone else's bytes shows. `WriteNew` appends a record, `WriteUpdate`
its second element, `Amend` writes in place, `Truncate` cuts, `CloseIndex` and
`CloseData` flush in the order of the destructors, `Kill` loses the buffers.

### ChainReader

`StartUpdate` finds the split point from the top, as the code does (`SplitPoint`),
and the sizes to cut to before anything is cut (`Rollback`). The parser cuts
one file after the other (`CutFile`, in the order of `rollbackTransactions`)
and appends to each through a stream of its own (`AppendTo`). The reader maps one file per step (`MapFile`), in the order of the
constructor or of `reload`, and then runs `setup`. Mapped files show what is on
disk, up to the size they had. A call is several steps: `GetBlock`, `GetTxHash` and
`GetTransaction` run `reorgCheck` (`Check`) and hand out pointers; `Probe` is one
comparison of the binary search in `getBlockHeight`; `Read` is an access through
a pointer, at any later time and as often as the caller likes; `Forget` ends the
call. The parser moves between any two of them, and `updates` counts the updates
that were under way since the check. `Missing` is what lies beyond the end.

### ParserIndex

The core adds transactions and rolls back; each index starts from its
`latestState` (`StartUpdate`), takes transactions and scripts one by one
(`ProcessTx`, `ProcessScript`), saves (`FinishUpdate`), or is killed (`Kill`). The
rollback of `HashIndexCreator` and that of `AddressDB` are as written: the
latter never writes its batch. The visitor of an input goes on behind a script hash
within a script hash (`VisitedInside`). The queries (`GetOutputPointers`, `Up`, `Down`,
`EquivAddress`) are closures over the columns and the script files.

### Ledger, Heuristics, Segments, Analysis

`Ledger` keeps transactions and blocks as the files do: both ends of a link in
`Inout` records. Its queries take the number of loaded blocks as an argument,
because `blocksIgnored` hides blocks that the links on disk know of.
`Heuristics` has the change heuristics, `IsCoinjoin` and its relatives with the
search `SumCount`, peeling chains, keyset changes and change-over transactions.
`Segments` has `segmentChain`, `segmentChainIndexes`, `segmentBlocks`, `segmentWork`
and the recursive `mapReduceBlocksImp`. `Analysis` grows every small chain.

### Clustering

After the chain is grown, threads unite the pairs in their queues: first the
wrapped scripts (`ScriptHashQueues`, cut by `SegmentWork`), then the transactions
(`TransactionQueues`, cut by `SegmentChain`). `Find` reads the two roots, `Unite`
attaches one by a compare-and-swap that may fail: the union-find is a submodule
and modelled as the code uses it. `RemapClusterIds`, `Position`, `ClusterOffsets`
and `Files` are the numbering and the three files; `GetClusterNum` and the others
are `ClusterManager` and `Cluster`. `Start` counts the scripts of each type as `main`
does; a type may have none, and then shares its entry of `TypeIndexes`.

### Scripts, RawTx, Encodings, Codecs

Operators on byte sequences, translated from the readers and writers in the code
and compared in `Codecs` with reference definitions over tokens, records and
byte strings. `Wire` is the format of the node; SHA256 is a parameter or left
out (what is hashed is compared, not the hash). `RawInput` cuts output numbers to 16
bits, as the code does. The check that a segwit flag is 1 is an `assert`, which
the documented build type, Release, leaves out: any flag is accepted. `Configs` has
the prefixes of all chains that `DataConfiguration` knows, and
`GetAddressFromString` tells what it looks up, that there is no address, or the
exception; a `Get` of fewer than 20 bytes ends with what lies in memory behind them.

## 3. Runs

| Run | Instance | States | Shows |
|---|---|---|---|
| `pipeline` | two steps, queues of one, four transactions in three blocks of two alternating files, any thread may throw anywhere | 291 k | `InOrder`, `SingleOwner`, `FilesStayMapped`, `CompleteOnReturn`, `NoLeakOnReturn`, `NextDoneOfLastStepUnread`, `Termination`, `OrderedSpec` (refinement), and `TypeOK` and `IInv`, the invariant behind the proofs |
| `chain_index` | four blocks on two branches over up to three files, failing scans, kills, also during the save | 180 k | `IndexComplete`, `ResumesFromProcessedBlock`, `ChainIsLongest`, `ChainNeverShrinks`, `EventuallyIndexed` |
| `chain_update` | three branches that part by one block each and share transactions; any number of runs with `--max-block` 0, -1, 1 or 2 | 11 k | `BlocksFollowChain`, `UtxoMatches`, `LinksMatch`, `ScriptsMatch`; no deadlock, that is no missing key |
| `address_state` | two keys that share a bit of the filter, script hashes around a multisig and a key, data; three transactions of up to two inputs, three starts or rollbacks | 1.1 M | `ImplementsAddressBook`, `RecordsMatchNumbers`, `RecordsMatchHistory` |
| `file_mapper` | elements of one and two cells, buffer of two, four writes, three runs, one kill | 96 k | `ImplementsRecordArray` |
| `chain_reader` | two chains that part after the first block, three runs of the parser, any number of opens, reloads and calls | 3.1 M | `NeverAnotherChain`, `CompleteIfQuiet` |
| `parser_index` | four transactions over a key, a multisig of two keys, a witness script hash around it and script hashes around that; updates, a kill, rollbacks | 63 k | `IndexesMatchRebuild`, `HashesNameTheirTx`, `EquivalenceIsSymmetric` |
| `analysis` | every chain of up to five transactions from three kinds of payments | 16 k | `ValuesAddUp`, `IgnoredBlocksAreInvisible`, `ChangeHeuristicsAgree`, `SumCountIsExact`, `SegmentsPartitionTheChain` |
| `clustering` | every chain of up to five transactions from two kinds of payments, two threads | 60 k | `ClustersAreComponents`, `ClusterFilesAgree` |
| `codecs` | scripts of two tokens after seven beginnings, transactions of five parts, strings of four bytes, the prefixes of five chains | 15 k | `ScriptsReadAsWritten`, `OutputsHaveTheTypeOfTheirForm`, `TransactionsReadAsWritten`, `SignaturesSignTheModifiedCopy`, `AddressStringsAreReadBack` |

Runs that are expected to fail, each with a finding in `PROJECT.json`:

| Run | What the counterexample shows |
|---|---|
| `chain_update_deep_reorg` | the search for the split point stops at the highest differing block: a reorganisation of two blocks leaves a stale one (the README's advice to stay six blocks behind the head makes this rare, not impossible) |
| `parser_index_rollback` | after a rollback `latestState` is written back as it was: the transactions that take the deleted numbers never get into the hash index |

Some properties hold only in part, and say so in their statement: `ScriptsMatch`,
`RecordsMatchNumbers`, `RecordsMatchHistory` and `IndexesMatchRebuild` while
nothing was rolled back, `BlocksFollowChain` where a reorganisation replaces one
block, `FilesStayMapped` while no thread failed, `EventuallyIndexed` unless the
parser was killed while it saved, `NeverAnotherChain` while a second check would
succeed and no more than one update was under way, `CompleteIfQuiet` without the
sequence numbers of a reloaded chain, `ClustersAreComponents` with all links of
script hashes only where `segmentWork` does not cut them, `ClusterFilesAgree` with
the lists of scripts only for types that do not start where an empty one does,
`TransactionsReadAsWritten` with 16 bits of output numbers,
`AddressStringsAreReadBack` with no address found for Zcash. The models go on
beyond these conditions; section 5 says what happens there.

### Bounds

* Pipeline. Two steps give a first and a last one; a middle step differs from
  the first only in its producer, and the proofs hold for any number. Queues of
  one fill and drain at every step; four transactions make objects come back
  and be reused, and alternating files make the importer map a file again.
  `Obj` has as many addresses as can be in use.
* ChainIndex. Three files let the resume position be in a file before the
  last, with another file opened during the scan. `ThreadLimit = 1` makes the
  spawn loop wait. `QuietFirst` keeps the node from writing during the very
  first update (see section 5 for what happens otherwise).
* ChainUpdate. The transactions include one in three blocks, one that spends
  two outputs of the same transaction, one that spends across blocks and
  batches, addresses that repeat within a transaction, and `OP_RETURN`s before
  other outputs. `BatchTxs = 2` ends batches inside an update. `--max-block` is
  never so low that it deletes every block.
* AddressState. Filters of one and two items fill up within a transaction, and
  `BitsOf` gives false positives; one transaction spends a key and, in the same
  script hash as another, that key again. FileMapper. A buffer of two cells overflows
  with the second element. ParserIndex. Three levels of wrapping are as deep as
  the code's types go, and one script hash is inside another.
* ChainReader. Two branches of one block each, of one and two transactions, are
  enough for a rollback under a call; three runs let the chain go away and come
  back between the check and a read.
* Ledger. Five transactions in any cut into blocks give a spend of a spend,
  two inputs from one transaction, outputs of one block spent in it, three
  equal outputs of two addresses, and unspent ones; values of 0 to 3 give equal,
  smaller and larger ones; `Word`
  is the width of the code's `uint64_t`. SkippedBlocks, Concurrency and
  WorkSegments are 10, the number of cores and 8 in the code: smaller here, so
  that chains of a few blocks are cut. In `clustering` the nonstandard script,
  whose type comes first, may stay unpaid: then its type is empty.
* Codecs. Pushes of 75, 76 and 256 bytes and script lengths of 252 and 253 lie
  on both sides of the changes of form; the push with four length bytes occurs
  cut off only, and integers of 65535, 65536 and 2^24 on their own. Output
  numbers are 65535, 65536, 258 and 0xFFFFFFFF. A script is also read cut off
  within the first six bytes of its last token and before its last byte; a
  transaction of up to 110 bytes at every length, a longer one at six. Bech32
  strings are changed in every place, to one of four characters.

Where a run says `CHECK_DEADLOCK FALSE`, the model stops at its bound.

### Fairness

`Termination` assumes weak fairness of each thread and of the caller:
`std::async(std::launch::async)` threads are scheduled, and no step waits
other than by polling. Failing is never required to happen, and never
prevented. `EventuallyIndexed` assumes that the node finishes the block it
writes, that the parser is run again and again (the cron job of the README),
and that its threads are scheduled; the property itself supposes that the
parser is killed only finitely often, and excepts the case that it was once killed
while it saved the index: from then on every start throws, for ever.

## 4. Proofs

Each theorem holds for every value of the constants that satisfies the
assumptions (`ASSUME`) of the module it is about, and for unbounded runs: the
bounds of the models are constants, too. TLC checked every inductive invariant
on the instance of the run before it was proved.

| Module | Theorem | Statement |
|---|---|---|
| `PipelineProofs` | `TypeCorrect` | `Spec => []TypeOK`, the queue bound included |
| | `OrderInvariance`, `RecordsInOrder` | `Spec => []OrderInv`, `Spec => []InOrder` |
| | `LastStepNeverBlocked` | `Spec => []NextDoneOfLastStepUnread` |
| `PipelineSafety` | `Invariance` | `Spec => []IInv` |
| | `ReturnIsComplete`, `ReturnFreesAll` | `Spec => []CompleteOnReturn`, `Spec => []NoLeakOnReturn` |
| | `FilesMapped`, `OneOwner` | `Spec => []FilesStayMapped`, `Spec => []SingleOwner` |
| | `PipelineIsOrdered` | `Spec => OrderedSpec` (refinement of `OrderedSteps`) |
| `ChainIndexProofs` | `IndexInvariance` | `QuietFirst => (Spec => []IndexInv)` |
| | `ResumeIsSound`, `IndexIsComplete` | `QuietFirst => (Spec => []ResumesFromProcessedBlock)`, `... []IndexComplete` |
| | `LongestInvariance`, `ChosenChainIsLongest` | `Spec => []LongestInv`, `Spec => []ChainIsLongest` |
| | `ChainsGrow` | `Spec => ChainNeverShrinks` (action property) |
| `AddressProofs` | `BookInvariance` | `Spec => []BookInv` |
| | `StateIsAddressBook` | `Spec => ImplementsAddressBook` (refinement of `AddressBook`) |
| | `RecordInvariance`, `NumbersFindRecords` | `Spec => []RecordInv`, `Spec => []RecordsMatchNumbers` |
| | `HistoryInvariance`, `RecordsTellHistory` | `Spec => []HistoryInv`, `Spec => []RecordsMatchHistory` |
| `ParserIndexProofs` | `HashInvariance` | `Spec => []HashInv` |
| | `HashesLeadToTheirTx`, `TxsAreRebuilt` | `Spec => []HashesNameTheirTx`, `Spec => []TxsMatchRebuild` |
| | `ColumnInvariance`, `IndexesAreRebuilt` | `Spec => []ColumnInv`, `Spec => []IndexesMatchRebuild` |
| | `EquivalentBothWays` | `Spec => []EquivalenceIsSymmetric` |
| `ChainUpdateProofs` | `BlockInvariance`, `FilesHoldTheChain` | `ShallowForks => (Spec => []BlockInv)`, `... []BlocksFollowChain` |
| | `UpdateInvariance` | `ShallowForks /\ OnceEach => (Spec => []UpdateInv)` |
| | `UtxoStateIsTheChains`, `LinksAgree` | `ShallowForks /\ OnceEach => (Spec => []UtxoMatches)`, `... []LinksMatch` |
| | `UpdatesComplete` | with `ValidSpends` as well: `Spec => []NoThrow` (`pc` is never "failed") |
| | `ScriptInvariance`, `ScriptNumbersAgree` | `ShallowForks /\ OnceEach => (Spec => []ScriptInv)`, `... []ScriptsMatch` |
| `ChainReaderProofs` | `ViewInvariance` | `ShallowForks => (Spec => []ViewInv)` |
| | `ReaderSeesOneChain`, `QuietReaderSeesAll` | `ShallowForks => (Spec => []NeverAnotherChain)`, `... []CompleteIfQuiet` |
| `FileMapperProofs` | `MapperInvariance` | `Spec => []MapperInv` |
| | `FilesAreRecordArray` | `Spec => ImplementsRecordArray` (refinement of `RecordArray`) |

### Pipeline

The assumptions are those of `Pipeline`: at least one step and one block,
capacities of at least one, first transaction numbers that do not decrease,
`None` not an object, `MayThrow` a set of threads.

`InOrder` is not inductive: that the next record is right depends on what the
step has in hand, that on its queue, that on the thread before, and that the
importer does not overwrite an object in use depends on all of them. The
argument: at any time the transactions read so far are cut into consecutive
intervals: those a step is done with, the one in its hands, those in its input
queue, the one in the hands of the thread before, and so on.
`Todo`, `Sent` and `Wanted` are the cuts. `HeldInv` and `QueueInv` say that each
place holds its interval, `ChainInv` that the cuts are ordered, `FinishedInv`
that the objects sent back have numbers below every cut in increasing order, and
`FreshInv` that the object being filled is nobody else's. A thread that failed
keeps its object, so failures do not disturb the cut. Two objects in different
places have different numbers, hence are different (`PoppedApart`,
`FinishedApart`): this replaces a statement about pairs of places, and makes it
possible to prove that popping, deleting and recycling leave the other places
alone. There is one lemma per action that moves an object and one (`OrderQuiet`)
for those that move none.

`PipelineSafety` adds the other parts of `IInv`. `ImportInv` ties the block the
importer is at to the number of the transaction it reads. `ExitInv` says that a
flag is set exactly when its thread has ended, and that a step returns only after
it saw its producer's flag *and then* found its queue empty. With the intervals,
`CompleteInv` follows: if all threads up to a step returned, nothing is left
between the importer and that step, so it has recorded all. `JoinInv` carries this
to the caller, which takes the futures in order. `HeapInv` (what is allocated is
held or queued) makes the caller's final loop free everything. `MapInv` says that
the files of all transactions the last step has not passed on are mapped: a file
is dropped only when a transaction above all that were needed from it came back,
and the intervals put everything in flight above that one.
`OneOwner` needs no more than the intervals: objects at
two places would have two numbers. For the refinement `OrderedSteps` takes the
records and the end of the call; only the processing functions and the caller's
return or exception change them, and `InOrder` and `CompleteOnReturn` are just
what the abstract steps require.

### ChainIndex

`QuietFirst` is a constant of the model and a hypothesis of the theorems: the
node does not write during the very first update. Without it they are false
(section 5, `newestBlock` unassigned). `IndexInv` says that the saved index has
every block up to its `newestBlock` (`SavedInv`, with `Covers`), that what each
thread has read is a part of its file, and all of it if the node has moved on to
another file (`ReadInv`), that only the thread of the last file can have failed,
because only there a half-written block can be (`ThreadInv`), and that
`newestBlock` is the loaded one until the thread of the last file has merged
(`NewestInv`). So the update that sets `newestBlock` has read everything before
it, which is what the next one relies on: completeness and the resume position
are one induction, over updates and kills.

The longest chain needs neither `QuietFirst` nor completeness: whatever blocks
the index has, `LongestInv` says of it that a height is -1 or the block's place on
its branch, and then all its ancestors are in the index (`HeightInv`); that
during the traversal every block with all its ancestors in the index has its
height or waits for an ancestor on the stack (`StackInv`), so that at the end none
is without; and that an index that is not empty has the genesis block
(`GenesisInv`: only a thread that is alone can fail to read it), without which
`generateChain` would have no chain. Induction along a branch is by a least
counterexample. Blocks are never removed, so chains grow. That `Ancestry` is what
its recursive definition says is an assumption (`AncestryAssumption`), which TLC
evaluates.

### AddressState

The assumptions: any filter functions and sizes (`FilterAssumption`), any set of
transactions, each a sequence of scripts of the known types (`ShapeAssumption`)
in the order in which `p2shGenerate` and `visitWrapped` nest them: any number of
inputs, each followed by what it wraps, then the outputs; a script
hash wraps one script only (`TreeAssumption`; hashes do not collide). Each input
spends an output of its own.
For the address book, `BookInv` has the filter a superset of its column (`FilterInv`, the
one thing a Bloom filter must be) and the multi-use map a part of the database
(`MultiInv`); both survive rebuilding the filter and rolling back, except in the
two cases the refinement names, `KeysMet` and `ZeroGiven`. Every answer of the
three stores is then the answer of the book.

`RecordsMatchNumbers` relates two threads. `PendingInv`: the scripts that have a
new number and no record yet carry, in the order in which they will be written,
exactly the numbers that follow the last record. `NameInv`: a number in `res`, in
the map or in the database belongs to the hash of the record it leads to, or of
the pending script that will be that record and comes no later. Hence, when the
writer has reached a script, its number is that of a record with its hash.

`RecordsMatchHistory` is about updates in place. `LayoutInv` is the shape of all
scripts so far: an input comes after the output that has its script, what a script
hash wraps and the keys of a multisig come right after it, in the same
transaction. `NumberedInv`: only inputs, and the keys of a multisig script that is
not new, have no number. `RecordsInv`: a record was first seen no later than where
the writer is, and if it is spent then by some input it has met. `OutInv` and
`InInv` say of every output and input met so far what its record has: the latter
that a script hash that was spent names what the *first* input of its hash
wrapped, which is needed since later inputs leave the data alone. The writer
preserves them because a record only evolves in one direction (`Evolves`):
`seen` goes down, `spent` is set once, a key is never lost, and the data of a
multisig or a spent script hash stays. That the writer waits for the whole
transaction (`WholeTx`) is what makes the numbers of the keys and of the wrapped
script known when the record is made.

### ParserIndex

For the transaction column: no transaction is in the chain twice, every entry
comes from the chain (`UpperInv`, which a rollback keeps because the index is
rolled back with the chain), and until a rollback every transaction below
`latestState` has its entry, while an update is under way those it has passed as
well (`LowerInv`). A killed update leaves entries above `latestState`, which the
next one writes again.

The other columns hold script numbers, and what a transaction adds to them
depends on the script files and on who spent a script first. `ColumnInv` therefore
says first that no script is in the files twice and that they have every script
a transaction pays, spends or finds inside those, keys of a multisig script
included (`FilesInv`); then, column by column, that it has what the transactions
and scripts up to `latestState`, and up to where the running update is, add to
it, and nothing else (`WitnessInv`, `OutputInv`, `NestedInv`). It is kept because
the files only grow: a number stays (`NumKept`), and so does the first to reveal
a script (`FirstKept`), so that a transaction adds tomorrow what it adds today.
That a script comes with everything inside it (`InsideClosed`, `InsideNests`) and
what `FlattenSeq` and `SetToSeq` return is proved by a least counterexample. The
assumptions: addresses have types of their script's kind, transactions have
finitely many spends, and no script is inside itself (`InsideAssumption`, the
unfolding of the recursive function `Inside`); TLC evaluates them.

Equivalence: the search down reads the records of scripts, the search up the
nested column. An index that has caught up has an entry for exactly the script
hashes that were spent (`EntriesOfSpent`): the first transaction to spend a script
visits it, because whatever wraps it was not spent before either
(`VisitedWhenRevealed`). A link down is then undone by one up from the address
that is wrapped, and a link up by one down to any address of the script, so
that a path can be turned round (`UpReversed`, `DownReversed`); the searches find
the ends of paths of at most `MaxDepth` links (`ClosurePaths`).

### ChainUpdate

`ShallowForks`: no two branches of the block tree differ at more than one height.
It is the case in which the code's search for the split point is right; without
it the claim is false, as run `chain_update_deep_reorg` shows. The chosen
chain is the lower part of a branch (`BranchInv`), blocks tile the transaction
file without gaps (`TileInv`), each with its own transactions (`ContentInv`); the
blocks below the split point are those of the chain (`AgreeInv`); and `PhaseInv`
says where the two files end in each phase: above the split point while rolling
back, at a block boundary otherwise, within the next block while adding. That a
branch is a sequence of blocks is an assumption (`AncestryAssumption`), which TLC
evaluates: `Ancestry` is a recursive function, and proving it takes induction.

For maps and links, `OnceEach` says that no branch has a transaction twice (BIP
30; the code keys its maps by transaction hash). `UpdateInv` (`ShapeInv`,
`StateInv`) is about the transactions that are *live*: in the file and, during a
rollback, not yet undone. An output of a live transaction is in `utxoState` with
its number, or a live transaction spends it and is linked with it, and never
both; while transactions are added, links back are there before the links
forth, which `BackUpdateTxes` makes of the pending ones. A rollback undoes the
last live transaction and so keeps this; it never throws, even where
`ValidSpends` is not assumed. `ValidSpends`, that transactions spend what exists
and is unspent on their branch, is needed for `UpdatesComplete` only: without it
`AddTx` may meet a missing key, and rightly stop. TLC evaluates all three
hypotheses on the instance of the run (`HypothesesHold`).

Script numbers: `ScriptInv` says that the next number of a kind is that of its next
record (`IndexInv`), that an address in the book has a record under its number
(`BookInv`), that the outputs in the file carry these numbers (`OutputInv`), inputs
those of the outputs they spend (`SpendInv`), and `utxoScriptState` those of the
unspent outputs and nothing of transactions to come (`MapNumberInv`). The step
that adds a transaction gives its i-th new script of a kind the next number plus
its rank among the new ones, and the writer appends the records by rank: the
two agree because the first occurrence of an address in a transaction is the
only one that is new.

### ChainReader

`ViewInv` says that there is a chain of which every file holds a first part, also
between two cuts of a rollback and while streams reach the disk in any order:
the cuts go down to the split point, below which the old and the new chain agree
(`ShallowForks` again: the search is the same as in `ChainUpdate`). A mapped
file shows what is on disk, and the check in `reorgCheck`, that the last loaded
block is still in its place, puts every block and transaction below it in place,
because a block determines its chain. That holds at the moment of the check; what
is read later may be of another chain. `ReaderSeesOneChain` says when the reader can
still rely on it: the check would succeed again, and at most one update was under
way meanwhile. `CallInv` says of a call with at most one update that either the
last loaded block has not been touched since the check, so that everything read
is of its chain and the binary search still has the block it looks for between
its bounds (`Kept`), or it has been cut and the update that cut it does not bring it
back (`Gone`), so that a check fails. This needs that a rollback cuts no block
that the new chain has, and cuts the blocks last (`KeepInv`). With two
updates the claim is false: the chain may go away, be read, and come back. That
`Chain` and `Txes` are what their recursive definitions say, and that `Missing` and
`Unread` are not entries, are assumptions that TLC evaluates (`ChainAssumption`,
`AnswerAssumption`).

### FileMapper

What can be read depends on file and buffer together. `MapInv`: a mapper maps its
whole file and writes behind its buffer, so that the disk is a first part of what
is shown, and flushing moves the border but changes nothing (`FlushedCells`,
`WrittenCells`, `InPlaceCells`). `RefInv`: no two offsets come from one write, so
that an in-place change of one element changes no other (`AmendedData`), and
cells put behind a file complete no torn element (`GrownData`). `OrderInv`: the
first elements that can be read lie in the order of their records. This is what
makes `truncate` right: cutting the data at the first element of the first
deleted record leaves the first elements of all kept ones (not the second ones,
as `RecordArray` says). `SavedInv`: what was there when files were last closed is on
disk, which is why a kill cannot lose it. `None` and `Torn` are not values
(`ValueAssumption`). Each action is then a step of the array or changes nothing
that can be read.

### Only model-checked

* Liveness (`Termination`, `EventuallyIndexed`): fairness and `ENABLED` are out of
  the prover's reach.
* `Heuristics` and `Scripts`, and with them `Analysis`, `Clustering`, `RawTx` and
  `Codecs`, use `RECURSIVE` operators; the properties of `Ledger`, `Segments` and
  `Encodings` are about sums and folds.

## 5. Observations

What the models had to follow although it is hardly meant. Two are findings
with a run of their own (section 3); the others are built into the models, as
conditions of the properties or as inputs left out.

* Block index. `update` numbers the genesis block 1 (`chain_index.cpp:177`), where
  `chain_index.hpp:54` says 0; nothing depends on it. If the last file holds no
  complete block during the first update, `newestBlock` stays unassigned
  (`chain_index.cpp:147`), is saved, and the next update resumes anywhere. A
  failed scan never decrements `activeThreads`: after 21 the spawn loop waits
  for ever. The index file is emptied before it is written (`main.cpp:193`): a kill
  in between makes every later start throw.
* Rollback. Script numbers of deleted `OP_RETURN` outputs stay in
  `utxoScriptState` (`main.cpp:89`) and are given to later inputs. Counts of kept
  scripts are used as next numbers (`address_state.cpp:108`): the last number is
  given out again, and number 0, which `script_output.hpp:39` asserts against,
  for a type without scripts. A kill during `rollbackState` leaves links cleared
  (`main.cpp:105`) and maps unsaved (`main.cpp:269`). The loop in `main.cpp:77`
  cannot end at transaction 0.
* Addresses. `exampleType` of `MULTISIG_PUBKEY` is `PUBKEY` (`address_info.hpp:48`), so
  that the database column of those keys is neither read into a rebuilt filter
  nor rolled back. A full filter is rebuilt with the size it had.
* Files. `IndexedFileMapper::truncate` (`file_mapper.hpp:477`) cuts the data at the
  first element of the first deleted record and may take second elements of
  kept records along; `SimpleFileMapper::truncate` leaves the write position
  alone, so that mappers are to be closed after it; the index is flushed before
  the data it points to.
* Reader. The check for a reorganisation comes before the access
  (`chain_access.hpp:66-74`): what a call returns may be of another chain, and two
  updates may hide it. `getTx` does not look for a reorganisation (`chain_access.hpp:76`);
  `reload` leaves out the sequence file (`chain_access.cpp:52`).
* Indexes. `latestState` does not follow a rollback (`parser_index.hpp:53`);
  `AddressDB::rollback` compares transaction numbers with a script count and never
  writes its batch (`address_db.cpp:62-77`). `getTxIndex` takes index 0, the first
  transaction, for "not found" (`transaction.cpp:49`).
* Queries. With `blocksIgnored`, `getBlockHeight` throws for spenders in ignored
  blocks that a query did not cut off (`chain_access.cpp:66`). `segmentChain` reads
  the block at the end iterator, does not advance if a segment is less than one
  transaction, and may return more segments than asked for
  (`blockchain.cpp:42-47`); `segmentBlocks` counts from 0 wherever its range
  begins (`blockchain.hpp:75`). `mapReduceBlocksImp` adds the second half first
  (`blockchain.hpp:53-56`), so that `filter` returns results out of chain order.
* Heuristics. `isPossibleCoinjoin` compares with a goal that is still 0, so that a
  fee above the value wraps around (`tx_identification.cpp:300`). A `DetailedType`
  whose subtype is unknown does not equal itself (`tx_identification.cpp:387`).
  `changeByOptimalChange` and `changeByAddressType` read input 0 of a coinbase,
  which has none (`change_address.cpp:126, 151`).
* Clusterer. `segmentWork` does not shift segment ends by its start
  (`main.cpp:66`). A type without scripts shares its key in `typeIndexes`
  with the next one (`main.cpp:174`), and which of the two the map keeps depends on
  the order of an unordered map: scripts of the one may be listed as scripts of
  the other. `clusterCount()` is one more than there are clusters, and the last
  one is empty (`cluster_manager.cpp:25`). The last ten
  blocks are left out, and a chain of fewer gives a negative range
  (`main.cpp:142`).
* Codecs. An output number is cut to 16 bits (`preproccessed_block.cpp:46`), which
  makes 65535 of a coinbase's 0xFFFFFFFF, and 0 of 65536. `SetString` takes one
  byte as the version (`bitcoin_base58.hpp:95`), so that no Zcash address, whose
  prefix has two (`data_configuration.cpp:57`), is found by its string; `Get` copies
  20 bytes of however many there are (`bitcoin_base58.cpp:224`). `getHash` with `SIGHASH_SINGLE` reads past the outputs if the input has no
  output of its number (`preproccessed_block.cpp:321`). Values from RPC are
  truncated after a multiplication in floating point
  (`preproccessed_block.cpp:187`). `readVariableLengthInteger` drops the upper half
  of 64-bit counts, as a comment there says (`safe_mem_reader.hpp:60`).
* Mempool recorder. `lastHeight` never advances (`main.cpp:89`): every recording
  writes the blocks since the start once more; and the padding after a restart
  is one short (`main.cpp:54`).

## 6. Not modelled

* After a failure the importer's mapped files are gone while steps still read
  them; `FilesStayMapped` is stated for executions without failure.
* The RPC variants `update<RPCTag>` and `BlockFileReader<RPCTag>`: they ask the node
  for a chain instead of reading files. `addNewBlocksSingle`, a build option that
  calls the same functions from one thread. `findSplitPointIndex` and the block
  replayer: nothing calls them.
* In `ChainUpdate`: `utxoAddressState`, which holds copies of the data of multisig
  outputs; the sequence and coinbase files, which are truncated with the others
  (`ChainReader` has them); a kill, from which the code does not recover.
* How the bytes of an input are taken apart to find what it reveals:
  `AddressState` chooses the chain of wrapped scripts.
* Torn saves other than that of the block index: every other save of a file or a
  map is one step.
* Hash functions, RocksDB, the file system, the union-find: external.
* Text output, logging and command lines; tagged clusters; taint tracking
  (experimental scans with fixed constants); the mempool recorder (one loop around
  an RPC client; its faults are in section 5).
* The Python interface, package and notebooks: bindings and scripts without
  state of their own. Vendored libraries and build files.

## 7. Plan

1. Proofs about `Segments` and `Ledger` in modules that reach no `RECURSIVE` operator.
2. Models still to come: the RPC variants as a second environment of
   `ChainIndex`, `utxoAddressState`, the mempool recorder.
