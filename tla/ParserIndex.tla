---------------------------- MODULE ParserIndex ----------------------------
(***************************************************************************)
(* The two indexes of the parser, HashIndexCreator and AddressDB, each a   *)
(* ParserIndex that remembers how far it got (latestState), the databases  *)
(* behind them and the questions that the library asks AddressIndex.       *)
(*                                                                         *)
(* A script is numbered in the order in which the chain meets scripts of   *)
(* its kind; an address is a type and a number.  That the numbers go wrong *)
(* in a rollback is the subject of AddressState and ChainUpdate: here they *)
(* always follow the chain.                                                *)
(***************************************************************************)
EXTENDS Naturals, Sequences, FiniteSets, SequencesExt

CONSTANTS
  Tx,       \* transactions, which stand for their hashes
  Outs,     \* Outs[t]: sequence of outputs, with type and script
  Spends,   \* Spends[t]: the addresses its inputs spend, with type and script
  Script, Kind,
  Wrapped,  \* Wrapped[s]: type and script inside a script hash
  Keys,     \* Keys[s]: the keys of a multisig script
  MaxTxs, MaxUpdates, MaxKills  \* bounds of the model

Kinds == {"PUBKEY", "SCRIPTHASH", "MULTISIG"}
EquivAddressTypes(k) ==
  IF k = "SCRIPTHASH" THEN {"SCRIPTHASH", "WITNESS_SCRIPTHASH"}
  ELSE IF k = "MULTISIG" THEN {"MULTISIG"}
  ELSE {"PUBKEY", "PUBKEYHASH", "MULTISIG_PUBKEY", "WITNESS_PUBKEYHASH"}

(* An address: a script, and one of the types of its kind.                 *)
IsAddress(a) == a.script \in Script /\ a.type \in EquivAddressTypes(Kind[a.script])

ASSUME ScriptAssumption ==
  /\ Kind \in [Script -> Kinds] /\ IsFiniteSet(Script)
  /\ \A s \in Script :
       /\ Kind[s] = "SCRIPTHASH" => IsAddress(Wrapped[s])
       /\ Kind[s] = "MULTISIG" => /\ Keys[s] \subseteq {k \in Script : Kind[k] = "PUBKEY"}
                                 /\ IsFiniteSet(Keys[s])
ASSUME TxAssumption ==
  \A t \in Tx :
    /\ Outs[t] \in Seq(Range(Outs[t])) /\ \A a \in Range(Outs[t]) : IsAddress(a)
    /\ IsFiniteSet(Spends[t]) /\ \A a \in Spends[t] : IsAddress(a)
ASSUME BoundAssumption == {MaxTxs, MaxUpdates, MaxKills} \subseteq Nat

Indexes == {"hash", "address"}

VARIABLES
  chain,
  scripts,  \* scripts[k]: the file of the scripts of kind k
  latest,   \* latest[ix]: txCount and multisigs of latestState, as saved
  run,      \* the running update: ix, tx, multisig, and txCount and multisigs to reach
  txs,      \* HashIndex, column T: hash and number
  wsh,      \* HashIndex, column WITNESS_SCRIPTHASH: hash and number
  outputs,  \* AddressIndex, output columns
  nested,   \* AddressIndex, nested columns
  cut,      \* has there been a rollback?
  updates, kills

db == <<txs, wsh, outputs, nested>>
vars == <<chain, scripts, latest, run, db, cut, updates, kills>>

Idle == [ix |-> "none"]

(***************************************************************************)
(* Scripts.                                                                *)
(***************************************************************************)
Inside[s \in Script] ==
  IF Kind[s] = "SCRIPTHASH" THEN <<Wrapped[s].script>> \o Inside[Wrapped[s].script]
  ELSE IF Kind[s] = "MULTISIG" THEN SetToSeq(Keys[s])
  ELSE <<>>

(* No script is inside itself.                                             *)
ASSUME InsideAssumption ==
  \A s \in Script :
    /\ Inside[s] \in Seq(Script)
    /\ Kind[s] = "SCRIPTHASH" => Inside[s] = <<Wrapped[s].script>> \o Inside[Wrapped[s].script]
    /\ Kind[s] = "MULTISIG" => Inside[s] = SetToSeq(Keys[s])
    /\ Kind[s] = "PUBKEY" => Inside[s] = <<>>

Met(t) ==
  FlattenSeq([i \in 1..Cardinality(Spends[t]) |-> Inside[SetToSeq(Spends[t])[i].script]])
  \o FlattenSeq([i \in DOMAIN Outs[t] |->
       IF Kind[Outs[t][i].script] = "SCRIPTHASH" THEN <<Outs[t][i].script>>
       ELSE <<Outs[t][i].script>> \o Inside[Outs[t][i].script]])

(* Where a script of kind k comes up that the file does not have.          *)
FirstMet(file, k, met) ==
  {i \in DOMAIN met : Kind[met[i]] = k /\ met[i] \notin Range(file)
                      /\ \A j \in 1..(i - 1) : met[j] # met[i]}

(* The new scripts follow in the order in which they come up.              *)
WithNew(file, k, met) ==
  LET new == FirstMet(file, k, met)
  IN  file \o [n \in 1..Cardinality(new) |->
        met[CHOOSE i \in new : Cardinality({j \in new : j < i}) = n - 1]]

(* The script files after one more transaction.                            *)
AfterTx(files, t) == [k \in Kinds |-> WithNew(files[k], k, Met(t))]

Num(s) == CHOOSE n \in DOMAIN scripts[Kind[s]] : scripts[Kind[s]][n] = s
Address(a) == <<a.type, Num(a.script)>>

Reveals(t) == UNION {{a.script} \cup Range(Inside[a.script]) : a \in Spends[t]}
IsRevealed(s) == \E i \in DOMAIN chain : s \in Reveals(chain[i])
TxRevealed(s) == CHOOSE i \in DOMAIN chain : s \in Reveals(chain[i])
                   /\ \A j \in 1..(i - 1) : s \notin Reveals(chain[j])

(***************************************************************************)
(* What one transaction adds to the databases.                             *)
(***************************************************************************)
(* The scripts that visit reaches: down from a script hash, as long as the *)
(* transaction is the first to spend it.                                   *)
VisitedFrom(i, s) ==
  LET path == <<s>> \o Inside[s]
      visited(r) == Kind[r] = "SCRIPTHASH" /\ TxRevealed(r) = i
  IN  {path[j] : j \in {j \in DOMAIN path : \A l \in 1..j : visited(path[l])}}
NestedOf(i) ==
  {<<Address(Wrapped[s]), "SCRIPTHASH", Num(s)>> :
     s \in UNION {VisitedFrom(i, a.script) : a \in Spends[chain[i]]}}
OutputsOf(i) == {<<Address(Outs[chain[i]][k]), i, k>> : k \in DOMAIN Outs[chain[i]]}

TxOf(i) == {<<chain[i], i - 1>>}
(* The addresses that the visitor of an input meets behind a script hash,  *)
(* and behind one inside that.                                             *)
VisitedInside(a) ==
  LET path == <<a.script>> \o Inside[a.script]
      type(l) == IF l = 1 THEN a.type ELSE Wrapped[path[l - 1]].type
  IN  {Wrapped[path[j]] : j \in {j \in DOMAIN path :
         Kind[path[j]] = "SCRIPTHASH" /\ \A l \in 1..j : type(l) = "SCRIPTHASH"}}
WitnessScripts(t) ==
  {a.script : a \in {b \in (UNION {VisitedInside(c) : c \in Spends[t]}) \cup Range(Outs[t]) :
                      b.type = "WITNESS_SCRIPTHASH"}}
WitnessesOf(i) == {<<s, Num(s)>> : s \in WitnessScripts(chain[i])}

(* AddressDB::processScript, for the multisig script with a number.        *)
MultisigOf(n) ==
  {<<<<"MULTISIG_PUBKEY", Num(k)>>, "MULTISIG", n>> :
     k \in Keys[scripts["MULTISIG"][n]]}

(* A put replaces what the database has for the key.                       *)
Put(map, entries) == {e \in map : \A f \in entries : f[1] # e[1]} \cup entries

Init ==
  /\ chain = <<>>
  /\ scripts = [k \in Kinds |-> <<>>]
  /\ latest = [ix \in Indexes |-> [txCount |-> 0, multisigs |-> 0]]
  /\ run = Idle
  /\ txs = {} /\ wsh = {} /\ outputs = {} /\ nested = {}
  /\ cut = FALSE /\ updates = 0 /\ kills = 0

(* Programs run one after the other: a core update, which may cut the      *)
(* chain before it adds to it, or the update of an index.                  *)
AddTx(t) ==
  /\ run = Idle /\ Len(chain) < MaxTxs /\ t \notin Range(chain)
  /\ \A a \in Spends[t] : \E i \in DOMAIN chain : a \in Range(Outs[chain[i]])
  /\ chain' = Append(chain, t)
  /\ scripts' = AfterTx(scripts, t)
  /\ UNCHANGED <<latest, run, db, cut, updates, kills>>

(* rollbackState lowers the count of the script files to the number of the *)
(* first output script it deletes.                                         *)
KeptScriptHashes(n) ==
  LET deleted == UNION {{o.script : o \in Range(Outs[chain[i]])} : i \in (n + 1)..Len(chain)}
      new == {s \in deleted : Kind[s] = "SCRIPTHASH" /\ \A i \in 1..n : s \notin Range(Met(chain[i]))}
      counts == {Len(scripts["SCRIPTHASH"])} \cup {Num(s) : s \in new}
  IN  CHOOSE m \in counts : \A o \in counts : m <= o

DeletedTx_Beyond(n) == {e \in txs : e[2] > n}
DeletedTx(n) == {e \in txs : e[2] >= n}

(* AddressDB::rollback collects what to delete and never writes it; both   *)
(* indexes save the latestState that they had.                             *)
Rollback(n) ==
  /\ run = Idle /\ ~cut
  /\ chain' = SubSeq(chain, 1, n)
  /\ scripts' = [k \in DOMAIN scripts |-> SelectSeq(scripts[k],
       LAMBDA s : \E i \in 1..n : s \in Range(Met(chain[i])))]
  /\ txs' = txs \ DeletedTx(n)
  /\ wsh' = {e \in wsh : e[2] < KeptScriptHashes(n)}
  /\ cut' = TRUE
  /\ UNCHANGED <<latest, run, outputs, nested, updates, kills>>

StartUpdate_SavesFirst(ix) ==     \* mutant: latestState saved before the work is done
  /\ run = Idle /\ updates < MaxUpdates
  /\ run' = [ix |-> ix, tx |-> latest[ix].txCount, multisig |-> latest[ix].multisigs,
             txCount |-> Len(chain), multisigs |-> Len(scripts["MULTISIG"])]
  /\ latest' = [latest EXCEPT ![ix] =
       [txCount |-> Len(chain), multisigs |-> Len(scripts["MULTISIG"])]]
  /\ updates' = updates + 1
  /\ UNCHANGED <<chain, scripts, db, cut, kills>>

StartUpdate(ix) ==
  /\ run = Idle /\ updates < MaxUpdates
  /\ run' = [ix |-> ix, tx |-> latest[ix].txCount, multisig |-> latest[ix].multisigs,
             txCount |-> Len(chain), multisigs |-> Len(scripts["MULTISIG"])]
  /\ updates' = updates + 1
  /\ UNCHANGED <<chain, scripts, latest, db, cut, kills>>

ProcessTx ==
  /\ run # Idle /\ run.tx < run.txCount
  /\ LET i == run.tx + 1 IN
     IF run.ix = "hash"
     THEN /\ txs' = Put(txs, TxOf(i))
          /\ wsh' = Put(wsh, WitnessesOf(i))
          /\ UNCHANGED <<outputs, nested>>
     ELSE /\ outputs' = outputs \cup OutputsOf(i)
          /\ nested' = nested \cup NestedOf(i)
          /\ UNCHANGED <<txs, wsh>>
  /\ run' = [run EXCEPT !.tx = @ + 1]
  /\ UNCHANGED <<chain, scripts, latest, cut, updates, kills>>

ProcessScript ==
  /\ run # Idle /\ run.ix = "address"
  /\ run.tx >= run.txCount /\ run.multisig < run.multisigs
  /\ nested' = nested \cup MultisigOf(run.multisig + 1)
  /\ run' = [run EXCEPT !.multisig = @ + 1]
  /\ UNCHANGED <<chain, scripts, latest, txs, wsh, outputs, cut, updates, kills>>

(* The destructor saves latestState.                                       *)
FinishUpdate ==
  /\ run # Idle /\ run.tx >= run.txCount
  /\ run.ix = "address" => run.multisig >= run.multisigs
  /\ latest' = [latest EXCEPT ![run.ix] =
       [txCount |-> run.txCount, multisigs |-> run.multisigs]]
  /\ run' = Idle
  /\ UNCHANGED <<chain, scripts, db, cut, updates, kills>>

(* What was put into the database stays, latestState is not saved.         *)
Kill ==
  /\ run # Idle /\ kills < MaxKills
  /\ run' = Idle
  /\ kills' = kills + 1
  /\ UNCHANGED <<chain, scripts, latest, db, cut, updates>>

Done == run = Idle /\ updates = MaxUpdates /\ UNCHANGED vars

Next ==
  \/ \E t \in Tx : AddTx(t)
  \/ \E n \in 0..(Len(chain) - 1) : Rollback(n)
  \/ \E ix \in Indexes : StartUpdate(ix)
  \/ ProcessTx \/ ProcessScript \/ FinishUpdate \/ Kill \/ Done

Spec == Init /\ [][Next]_vars

(***************************************************************************)
(* What the library asks AddressIndex, the address a being <<type, num>>.  *)
(***************************************************************************)
EquivType(type) ==
  IF type \in {"SCRIPTHASH", "WITNESS_SCRIPTHASH"} THEN "SCRIPTHASH"
  ELSE IF type = "MULTISIG" THEN "MULTISIG" ELSE "PUBKEY"
SameScript(a) == {<<t, a[2]>> : t \in EquivAddressTypes(EquivType(a[1]))}

GetOutputPointers(a) == {<<o[2], o[3]>> : o \in {p \in outputs : p[1] = a}}
CheckIfExists(a) == GetOutputPointers(a) # {} \/ \E e \in nested : e[1] = a
GetIncludingMultisigs(a) ==
  IF EquivType(a[1]) # "PUBKEY" THEN {}
  ELSE {<<"MULTISIG", e[3]>> : e \in {f \in nested : f[1] = <<"MULTISIG_PUBKEY", a[2]>>}}

(* The wrapped address in the record of a script, once it is revealed.     *)
ScriptOf(a) == scripts[EquivType(a[1])][a[2]]
WrappedAddress(a) ==
  IF EquivType(a[1]) = "SCRIPTHASH" /\ IsRevealed(ScriptOf(a))
  THEN {Address(Wrapped[ScriptOf(a)])} ELSE {}

(* The searches follow one kind of link until they find nothing new.       *)
MaxDepth == Cardinality(Script)
Closure(a, links) ==
  LET reach[n \in 0..MaxDepth] ==
        IF n = 0 THEN {a} ELSE reach[n - 1] \cup UNION {links[b] : b \in reach[n - 1]}
  IN  reach[MaxDepth]
Down(a) == UNION {SameScript(w) : w \in WrappedAddress(a)}
Up_AsIs(a) == {<<"SCRIPTHASH", e[3]>> : e \in {f \in nested : f[1] = a /\ f[2] = "SCRIPTHASH"}}
Up(a) == UNION {SameScript(<<e[2], e[3]>>) :
                  e \in {f \in nested : f[1] = a /\ f[2] = "SCRIPTHASH"}}
Addresses == UNION {EquivAddressTypes(k) \X DOMAIN scripts[k] : k \in Kinds}
GetPossibleNestedEquivalent(a) ==
  Closure(a, [b \in Addresses |-> Up(b)]) \cup Closure(a, [b \in Addresses |-> Down(b)])

EquivAddress(a) ==
  {b \in UNION {GetPossibleNestedEquivalent(c) : c \in SameScript(a)} : CheckIfExists(b)}

(***************************************************************************)
(* Properties.                                                             *)
(***************************************************************************)
TxEntries(n) == UNION {TxOf(i) : i \in 1..n}
WitnessEntries(n) == UNION {WitnessesOf(i) : i \in 1..n}
OutputEntries(n) == UNION {OutputsOf(i) : i \in 1..n}
NestedEntries(n, m) ==
  (UNION {NestedOf(i) : i \in 1..n}) \cup (UNION {MultisigOf(i) : i \in 1..m})
Between(low, set, high) == low \subseteq set /\ set \subseteq high

(* While the chain only grows, an index has at least what a rebuild up to  *)
(* its latestState would give and at most what one of the whole chain      *)
(* would, however its updates were interleaved with core updates and       *)
(* wherever they were killed: the hashes of transactions.                  *)
TxsMatchRebuild ==
  ~cut => Between(TxEntries(latest["hash"].txCount), txs, TxEntries(Len(chain)))

(* The same for all columns of the hash index and of the address database. *)
IndexesMatchRebuild ==
  /\ TxsMatchRebuild
  /\ ~cut =>
       /\ Between(WitnessEntries(latest["hash"].txCount), wsh, WitnessEntries(Len(chain)))
       /\ Between(OutputEntries(latest["address"].txCount), outputs, OutputEntries(Len(chain)))
       /\ Between(NestedEntries(latest["address"].txCount, latest["address"].multisigs), nested,
                  NestedEntries(Len(chain), Len(scripts["MULTISIG"])))

(* A hash that is found leads to the transaction that has it, after a      *)
(* rollback too.                                                           *)
HashesNameTheirTx ==
  \A e \in txs : e[2] + 1 \in DOMAIN chain /\ chain[e[2] + 1] = e[1]

(* Two addresses that the index knows are equivalent both ways or not at   *)
(* all, although one way is read from the index and the other one from the *)
(* records of the scripts, once the index has caught up with the chain.    *)
UpToDate ==
  /\ run = Idle /\ ~cut
  /\ latest["address"] = [txCount |-> Len(chain),
                          multisigs |-> Len(scripts["MULTISIG"])]
KnownAddresses == {o[1] : o \in outputs} \cup {e[1] : e \in nested}
EquivalenceIsSymmetric ==
  UpToDate => \A a, b \in KnownAddresses : b \in EquivAddress(a) <=> a \in EquivAddress(b)

(* What the parser offers as "Update indexes to latest chain state": an    *)
(* update of the hash index leaves no transaction of the chain out.        *)
HashIndexFollowsChain ==
  run = Idle /\ latest["hash"].txCount = Len(chain) => TxEntries(Len(chain)) \subseteq txs
=============================================================================
