------------------------------- MODULE FanOut -------------------------------
(***************************************************************************)
(* A query of all stores (stores:"all" of mcp-server.ts): the entries of   *)
(* the directory are asked one after the other, the next one is looked up  *)
(* in the live Map after each answer, and the results are merged rank by   *)
(* rank (merge-store-results.ts), qualified by their store (retrieval.ts)  *)
(* and noted in the audit log (query-audit.ts).  Operators change the      *)
(* registry at any time (rag-store-runtime.ts), which rewrites the Map.    *)
(* A Map is iterated in the order of insertion, by the stamps of its keys; *)
(* a key that is deleted and set again gets a new one, behind all others.  *)
(***************************************************************************)
EXTENDS Naturals, Sequences, SequencesExt, FiniteSetsExt, Filtering

CONSTANTS
  StoreNames,      \* names a store may have in the registry
  StoreFiles,      \* the persistence files: what a store is, whatever its name
  HitsOf,          \* the nodes that match in a file, best first
  FirstStores,     \* the registry at first: <<name, file>> in order, the default first
  MaxRegistryEdits,
  MaxQueries,
  AuditSize        \* how many entries the audit log keeps

ASSUME FanOutAssumption ==
  /\ \A f \in StoreFiles : HitsOf[f] \in Seq(ToSet(HitsOf[f]))
  /\ FirstStores \in Seq(StoreNames \X StoreFiles) /\ Len(FirstStores) >= 1
  /\ \A i, j \in DOMAIN FirstStores : FirstStores[i][1] = FirstStores[j][1] => i = j
  /\ AuditSize \in Nat \ {0}

VARIABLES
  directory,       \* the Map: [name, file, stamp] in order
  default,         \* the name of the default store
  fan,             \* [phase, cursor, asked, per, quiet] of the query under way
  fanAnswer,       \* [ok, results, citations, contexts]
  audit,           \* the audit log, oldest first
  registryEdits, queries

fanVars == <<directory, default, fan, fanAnswer, audit, registryEdits, queries>>

NoFan == [phase |-> "idle", cursor |-> 0, asked |-> <<>>, per |-> <<>>, quiet |-> TRUE]
NothingFound == [ok |-> FALSE, results |-> <<>>, citations |-> <<>>, contexts |-> <<>>]

FanInit ==
  /\ directory = [i \in DOMAIN FirstStores |-> [name |-> FirstStores[i][1], file |-> FirstStores[i][2], stamp |-> i]]
  /\ default = FirstStores[1][1]
  /\ fan = NoFan
  /\ fanAnswer = NothingFound
  /\ audit = <<>>
  /\ registryEdits = 0 /\ queries = 0

(***************************************************************************)
(* The registry.                                                           *)
(***************************************************************************)
\* The highest stamp there is; the entry the query came to last may have gone.
LastStamp == IF Last(directory).stamp > fan.cursor THEN Last(directory).stamp ELSE fan.cursor

\* liveMap.set of keys that are not in the Map.
SetBehind(kept, more) ==
  kept \o [i \in DOMAIN more |-> [name |-> more[i].name, file |-> more[i].file, stamp |-> LastStamp + i]]

EntriesOf(names) == Filtered(directory, {e \in ToSet(directory) : e.name \in names})
NonDefault == EntriesOf(StoreNames \ {default})
FreeNames == StoreNames \ {directory[i].name : i \in DOMAIN directory}
FreeFiles == StoreFiles \ {directory[i].file : i \in DOMAIN directory}

RegistryEdit ==
  /\ registryEdits < MaxRegistryEdits
  /\ registryEdits' = registryEdits + 1
  /\ fan' = [fan EXCEPT !.quiet = FALSE]
  /\ UNCHANGED <<fanAnswer, audit, queries>>

\* syncLiveToLoaded after hotApply, hotRemove or hotRename: the default stays, the others are made anew.
Synced(others) == directory' = SetBehind(EntriesOf({default}), others) /\ UNCHANGED default

HotAddStore(name, file) ==
  /\ RegistryEdit
  /\ name \in FreeNames /\ file \in FreeFiles
  /\ Synced(Append(NonDefault, [name |-> name, file |-> file]))

HotRemoveStore(name) ==
  /\ RegistryEdit
  /\ name # default
  /\ Synced(EntriesOf(StoreNames \ {default, name}))

HotRenameStore(from, to) ==
  /\ RegistryEdit
  /\ from # default /\ to \in FreeNames
  /\ Synced([i \in DOMAIN NonDefault |-> [NonDefault[i] EXCEPT !.name = IF @ = from THEN to ELSE @]])

\* hotSetDefault: the entries stay where they are.
HotSetDefault(name) ==
  /\ RegistryEdit
  /\ default' = name
  /\ UNCHANGED directory

\* hotRenameDefault: the entry is keyed anew.
HotRenameDefault(to) ==
  /\ RegistryEdit
  /\ to \in FreeNames
  /\ directory' = SetBehind(NonDefault, <<[name |-> to, file |-> EntriesOf({default})[1].file]>>)
  /\ default' = to

(***************************************************************************)
(* The query.                                                              *)
(***************************************************************************)
FanStart ==
  /\ fan.phase = "idle" /\ queries < MaxQueries
  /\ queries' = queries + 1
  /\ fan' = [NoFan EXCEPT !.phase = "visit"]
  /\ UNCHANGED <<directory, default, fanAnswer, audit, registryEdits>>

\* What the iterator of the Map has not come to yet.
Ahead == {i \in DOMAIN directory : directory[i].stamp > fan.cursor}

FanVisit ==
  /\ fan.phase = "visit"
  /\ \E i \in Ahead :
       /\ \A j \in Ahead : i <= j
       /\ fan' = [fan EXCEPT !.phase = "await", !.cursor = directory[i].stamp, !.asked = directory[i]]
  /\ UNCHANGED <<directory, default, fanAnswer, audit, registryEdits, queries>>

\* The engine answers, or throws and the store is skipped.
FanAnswered(ok) ==
  /\ fan.phase = "await"
  /\ fan' = [fan EXCEPT !.phase = "visit",
                        !.per = Append(@, [name |-> fan.asked.name, file |-> fan.asked.file, ok |-> ok])]
  /\ UNCHANGED <<directory, default, fanAnswer, audit, registryEdits, queries>>

\* The default store to the front: the first answer under its name.
DefaultFirst(per) ==
  LET named == {i \in DOMAIN per : per[i].name = default}
  IN IF named = {} THEN per ELSE <<per[Min(named)]>> \o RemoveAt(per, Min(named))

\* The items of a rank, store by store; an item is stamped with its store.
AtRank(per, r) ==
  LET having == Filtered(per, {p \in ToSet(per) : r <= Len(HitsOf[p.file])})
  IN [i \in DOMAIN having |-> [node |-> HitsOf[having[i].file][r], rank |-> r, store |-> having[i].name]]

\* A mutation: each store's results behind those of the store before.
Interleaved_ByStore(per) ==
  LET merged[k \in 0..Len(per)] ==
        IF k = 0 THEN <<>>
        ELSE merged[k - 1] \o [r \in DOMAIN HitsOf[per[k].file] |-> [node |-> HitsOf[per[k].file][r], rank |-> r, store |-> per[k].name]]
  IN merged[Len(per)]

\* mergeStoreResults: rank by rank, as long as a store has an item of that rank.
Interleaved(per) ==
  LET merged[r \in 0..Max({0} \cup {Len(HitsOf[p.file]) : p \in ToSet(per)})] ==
        IF r = 0 THEN <<>> ELSE merged[r - 1] \o AtRank(per, r)
  IN merged[Max({0} \cup {Len(HitsOf[p.file]) : p \in ToSet(per)})]

\* One citation per node, with the store of its first appearance.
Citations(items) ==
  LET cited[k \in 0..Len(items)] ==
        IF k = 0 THEN <<>>
        ELSE IF \E c \in ToSet(cited[k - 1]) : c.node = items[k].node THEN cited[k - 1]
        ELSE Append(cited[k - 1], [node |-> items[k].node, store |-> items[k].store])
  IN cited[Len(items)]

Remembered(log, x) == IF Len(log) < AuditSize THEN Append(log, x) ELSE Append(Tail(log), x)

\* No entry is left: merge, qualify, note. The first store, which should be the default, must have answered.
FanDone ==
  /\ fan.phase = "visit" /\ Ahead = {}
  /\ fan' = [fan EXCEPT !.phase = "done"]
  /\ LET stores == DefaultFirst(fan.per)
         answered == Filtered(stores, {p \in ToSet(stores) : p.ok})
         items == Interleaved(answered)
     IN IF stores[1].ok
        THEN /\ fanAnswer' = [ok |-> TRUE, results |-> items, citations |-> Citations(items),
                              contexts |-> [i \in DOMAIN answered |-> answered[i].name]]
             /\ audit' = Remembered(audit, [count |-> Len(items), stores |-> [i \in DOMAIN directory |-> directory[i].name]])
        ELSE fanAnswer' = NothingFound /\ UNCHANGED audit
  /\ UNCHANGED <<directory, default, registryEdits, queries>>

FanReturn ==
  /\ fan.phase = "done"
  /\ fan' = NoFan /\ fanAnswer' = NothingFound
  /\ UNCHANGED <<directory, default, audit, registryEdits, queries>>

FanNext ==
  \/ \E name \in StoreNames, file \in StoreFiles : HotAddStore(name, file)
  \/ \E i \in DOMAIN directory : HotRemoveStore(directory[i].name) \/ HotSetDefault(directory[i].name)
  \/ \E i \in DOMAIN directory, to \in StoreNames : HotRenameStore(directory[i].name, to)
  \/ \E to \in StoreNames : HotRenameDefault(to)
  \/ FanStart \/ FanVisit \/ FanDone \/ FanReturn
  \/ \E ok \in BOOLEAN : FanAnswered(ok)

FanSpec == FanInit /\ [][FanNext]_fanVars

(***************************************************************************)
(* With no change of the registry under way, the answer is that of all     *)
(* stores: every store is asked once; the default's answer decides between *)
(* an answer and a failure; each hit of a store that answered is there     *)
(* once and nothing else is, before all hits of a lower rank, and in each  *)
(* rank the default's comes first; every node is cited once, from the      *)
(* store where it is found first; the log has what was asked.              *)
(***************************************************************************)
QuietFanOutIsWhole ==
  fan.phase = "done" /\ fan.quiet =>
    LET answered == {p \in ToSet(fan.per) : p.ok}
        items == fanAnswer.results
        cited == fanAnswer.citations
    IN /\ [i \in DOMAIN fan.per |-> fan.per[i].name] = [i \in DOMAIN directory |-> directory[i].name]
       /\ fanAnswer.ok <=> default \in {p.name : p \in answered}
       /\ fanAnswer.ok =>
            /\ IsInjective(items)
            /\ \A p \in answered : \A r \in DOMAIN HitsOf[p.file] :
                 [node |-> HitsOf[p.file][r], rank |-> r, store |-> p.name] \in ToSet(items)
            /\ \A x \in ToSet(items) : \E p \in answered :
                 x.store = p.name /\ x.rank \in DOMAIN HitsOf[p.file] /\ x.node = HitsOf[p.file][x.rank]
            /\ \A i, j \in DOMAIN items :
                 i < j => \/ items[i].rank < items[j].rank
                          \/ items[i].rank = items[j].rank /\ items[j].store # default
            /\ \A i \in DOMAIN items : \E c \in ToSet(cited) : c.node = items[i].node
            /\ \A i, j \in DOMAIN cited : cited[i].node = cited[j].node => i = j
            /\ \A c \in ToSet(cited) : \E i \in DOMAIN items :
                 /\ c = [node |-> items[i].node, store |-> items[i].store]
                 /\ \A j \in 1..i - 1 : items[j].node # c.node
            /\ Head(fanAnswer.contexts) = default
            /\ Last(audit) = [count |-> Len(items), stores |-> [i \in DOMAIN fan.per |-> fan.per[i].name]]
=============================================================================
