--------------------------- MODULE RagStoreRuntime ---------------------------
(***************************************************************************)
(* The registry of knowledge stores while the program runs:                *)
(* src/main/rag-store-runtime.ts over rag-store-registry-write.ts,         *)
(* rag-store-registry.ts and rag-store-directory.ts, driven by the         *)
(* operator's editor (handleRagStoreManageIpc in src/main/mcp-server.ts).  *)
(*                                                                         *)
(* A step is one turn of the event loop: every operation is synchronous    *)
(* but the reassignment of a vector default, which awaits the release of   *)
(* the previous boot.  An operation that is rejected changes nothing and   *)
(* is left out.  What is modelled is which store object serves a name,     *)
(* over which file, and what each holds; the release of a store nobody can *)
(* reach any more is the subject of StoreRelease, that of a boot of        *)
(* VectorBoot.                                                             *)
(***************************************************************************)
EXTENDS Naturals

CONSTANTS
  Names,        \* store names
  Paths,        \* explicit persistenceFile values
  Generations,  \* tell the store objects apart that were opened under one name
  None,         \* no path, no entry, no boot
  MaxEdits,     \* bound of the model: edits
  MayTouch      \* the operator may edit the registry file by hand

ASSUME EditsAssumption == MaxEdits \in Nat
\* There is always a name for one more object: besides a new one, at most four of a name are held.
ASSUME GenerationsAssumption ==
  Generations # {} /\ \A g1, g2, g3, g4 \in Generations : Generations \ {g1, g2, g3, g4} # {}

VARIABLES
  kind,          \* embedderKind, fixed when the program starts
  registry,      \* the registry file
  files,         \* the store files: the edits each holds
  obj,           \* the store objects: file, edits, engine of the entry
  entries,       \* directory.entries
  defaultName,   \* directory.defaultName
  defaultEntry,  \* the entry the UI uses
  defaultFile,   \* defaultPersistenceFile, the drift guard
  current,       \* currentRegistry
  vectorBoot,    \* the boot of the default
  releasing,     \* the boot whose release a reassignment awaits (reassignInFlight)
  edits,         \* edits so far
  touched,       \* history: the registry was edited by hand since the start
  unread,        \* history: and the directory was not made from the file since
  moved          \* history: the default was renamed away from its file since

disk   == <<registry, files>>
live   == <<obj, entries, defaultName, defaultEntry, defaultFile, current>>
boots  == <<vectorBoot, releasing>>
vars   == <<kind, disk, live, boots, edits, touched, unread, moved>>

-----------------------------------------------------------------------------
(* The registry.                                                           *)

\* The file of a store: its explicit path, or the one derived from its name.
Files == Paths \cup {[derived |-> n] : n \in Names}
FileOf(r, n) == IF r.path[n] # None THEN r.path[n] ELSE [derived |-> n]

\* What resolveRegistry accepts: one default, and no two stores on one file.
Valid(r) ==
  /\ r.default \in r.stores
  /\ \A m, n \in r.stores : FileOf(r, m) = FileOf(r, n) => m = n

Registries ==
  {r \in [stores : SUBSET Names, default : Names, path : [Names -> Paths \cup {None}]] :
     Valid(r) /\ \A n \in Names \ r.stores : r.path[n] = None}

\* The mutations of applyRegistryMutation.
With(r, n)    == [r EXCEPT !.stores = @ \cup {n}]
Without(r, n) == [r EXCEPT !.stores = @ \ {n}, !.path[n] = None]
Renamed(r, from, to) ==
  [stores |-> (r.stores \ {from}) \cup {to},
   default |-> IF r.default = from THEN to ELSE r.default,
   path |-> [r.path EXCEPT ![to] = r.path[from], ![from] = None]]

-----------------------------------------------------------------------------
(* Store objects.  One is in memory while an entry or a boot refers to it. *)

Objects == Names \X Generations
Boots   == [store : Objects, started : BOOLEAN]
Stores  == [file : Files, edits : SUBSET (1..MaxEdits), engine : {"lexical", "vector"}]

ASSUME NoneAssumption == None \notin Paths \cup Objects \cup Boots \cup Stores

InDirectory == {entries[n] : n \in Names} \ {None}
Held        == {defaultEntry} \cup {b.store : b \in {vectorBoot, releasing} \ {None}}
Reachable   == InDirectory \cup Held

\* A new object for the name n, next to the objects that stay.
Fresh(n, stay) == <<n, CHOOSE g \in Generations : <<n, g>> \notin stay>>

\* Mutant of Opened: the explicit path is ignored.
Opened_IgnoresPath(r, n) ==
  [file |-> [derived |-> n], edits |-> files[[derived |-> n]], engine |-> "lexical"]

\* buildLexicalEntry: a store object over the file of n, as it is on disk.
Opened(r, n) ==
  [file |-> FileOf(r, n), edits |-> files[FileOf(r, n)], engine |-> "lexical"]

\* The objects after one was opened for each name in S: those nobody refers to
\* any more are gone.
Replace(r, S, stay) ==
  obj' = [o \in Objects |->
            IF o \notin Reachable' THEN None
            ELSE IF o[1] \in S /\ o = Fresh(o[1], stay) THEN Opened(r, o[1])
            ELSE obj[o]]

\* syncLiveToLoaded(loaded, false): the default entry is carried over.
Carry(r) ==
  LET S    == r.stores \ {r.default}
      stay == Held \cup {entries[defaultName]}
  IN /\ entries' = [n \in Names |-> IF n \in S THEN Fresh(n, stay)
                                    ELSE IF n = defaultName THEN entries[n] ELSE None]
     /\ UNCHANGED <<defaultName, defaultEntry, defaultFile, boots>>
     /\ Replace(r, S, stay)

\* Mutant of Rebuild: the default of the file is not followed.
Rebuild_KeepsDefault(r) ==
  /\ entries' = [n \in Names |-> IF n \in r.stores THEN Fresh(n, Held) ELSE None]
  /\ UNCHANGED <<defaultName, defaultEntry, defaultFile, boots>>
  /\ Replace(r, r.stores, Held)

\* syncLiveToLoaded(loaded, true), before the drift is reported: every entry is
\* rebuilt and the loaded default followed.
Rebuild(r) ==
  /\ entries' = [n \in Names |-> IF n \in r.stores THEN Fresh(n, Held) ELSE None]
  /\ defaultName' = r.default
  /\ UNCHANGED <<defaultEntry, defaultFile, boots>>
  /\ Replace(r, r.stores, Held)

Stable(r) == r.default = defaultName /\ FileOf(r, r.default) = defaultFile

\* hotApply: write, then synchronise the directory.
HotApply(r) ==
  /\ Valid(r)
  /\ registry' = r
  /\ current' = r
  /\ IF Stable(r) THEN Carry(r) ELSE Rebuild(r)
  /\ unread' = FALSE
  /\ UNCHANGED <<kind, files, edits, touched, moved>>

-----------------------------------------------------------------------------
(* The operations.  The editor checks against the registry the controller  *)
(* holds (current), the write against the file.                            *)

Add(n) ==
  /\ n \notin registry.stores
  /\ HotApply(With(registry, n))

\* Once out of the directory, the old object is drained and torn down.
Remove(n) ==
  /\ n \in registry.stores
  /\ n # current.default
  /\ HotApply(Without(registry, n))

Rename(from, to) ==
  /\ from \in registry.stores \ {current.default, registry.default}
  /\ to \notin registry.stores \cup current.stores
  /\ HotApply(Renamed(registry, from, to))

\* The engines after the default moved from the entry `old' to `new'.
Engines(old, new) ==
  [o \in Objects |->
     IF obj[o] = None \/ kind = "lexical" THEN obj[o]
     ELSE IF o = new THEN [obj[o] EXCEPT !.engine = "vector"]
     ELSE IF o = old THEN [obj[o] EXCEPT !.engine = "lexical"]
     ELSE obj[o]]

\* Mutant of Boot: the new boot is started before the old one is released.
Boot_StartedFirst(n) ==
  IF kind = "vector" /\ entries[n] # None
    THEN [store |-> entries[n], started |-> TRUE] ELSE None

\* The new default's boot, unless the name is on disk only; it is started once the old one, if any, is released.
Boot(n) ==
  IF kind = "vector" /\ entries[n] # None
    THEN [store |-> entries[n], started |-> vectorBoot = None] ELSE None

\* Mutant of Rebind: the UI keeps the previous default.
Rebind_KeepsEntry(n) == UNCHANGED defaultEntry
Rebind(n) == defaultEntry' = IF entries[n] # None THEN entries[n] ELSE defaultEntry

\* hotSetDefault, up to its only wait.
SetDefault(n) ==
  /\ releasing = None
  /\ n \in registry.stores
  /\ n \notin {registry.default, current.default, defaultName}
  /\ LET r == [registry EXCEPT !.default = n]
     IN /\ registry' = r
        /\ current' = r
        /\ defaultName' = n
        /\ defaultFile' = FileOf(r, n)
        /\ Rebind(n)
        /\ vectorBoot' = Boot(n)
        /\ releasing' = vectorBoot
        /\ entries' = entries
        /\ obj' = [o \in Objects |->
             IF o \in Reachable' THEN Engines(entries[defaultName], entries[n])[o] ELSE None]
  /\ unread' = (unread \/ entries[defaultName] = None)
  /\ UNCHANGED <<kind, files, edits, touched, moved>>

\* The old boot is released: the new one starts.
Reassigned ==
  /\ releasing # None
  /\ releasing' = None
  /\ vectorBoot' = IF vectorBoot = None THEN None ELSE [vectorBoot EXCEPT !.started = TRUE]
  /\ UNCHANGED <<kind, disk, entries, defaultName, defaultEntry, defaultFile, current, edits,
                 touched, unread, moved>>
  /\ Replace(registry, {}, {})

\* hotRenameDefault: the file names the default; the directory keeps its object
\* under the new name, unless the two disagreed on what the default is.
RenameDefault(to) ==
  /\ releasing = None
  /\ to \notin registry.stores \cup current.stores
  /\ LET r == Renamed(registry, registry.default, to)
         e == entries[defaultName]
     IN /\ Valid(r)
        /\ registry' = r
        /\ current' = r
        /\ IF registry.default # defaultName
             THEN Rebuild(r) /\ unread' = FALSE /\ UNCHANGED moved
           ELSE
             /\ entries' = [entries EXCEPT ![defaultName] = None, ![to] = e]
             /\ defaultEntry' = IF e = None THEN defaultEntry ELSE e
             /\ defaultName' = to
             /\ defaultFile' = FileOf(r, to)
             /\ moved' = (moved \/ FileOf(r, to) # FileOf(registry, registry.default))
             /\ UNCHANGED <<boots, unread>>
             /\ Replace(registry, {}, {})
  /\ UNCHANGED <<kind, files, edits, touched>>

-----------------------------------------------------------------------------
(* Edits, by the UI through the default entry and by tools through the     *)
(* directory; each writes the whole file.                                  *)

Edit(o) ==
  /\ o \in InDirectory \cup {defaultEntry}
  /\ edits < MaxEdits
  /\ edits' = edits + 1
  /\ obj' = [obj EXCEPT ![o].edits = @ \cup {edits + 1}]
  /\ files' = [files EXCEPT ![obj[o].file] = obj'[o].edits]
  /\ UNCHANGED <<kind, registry, entries, defaultName, defaultEntry, defaultFile, current,
                 boots, touched, unread, moved>>

\* The operator edits the registry file.
Touch ==
  /\ MayTouch
  /\ ~touched
  /\ registry' \in Registries \ {registry}
  /\ touched' = TRUE /\ unread' = TRUE
  /\ UNCHANGED <<kind, files, live, boots, edits, moved>>

\* buildRagStoreDirectory: the default takes the program's kind of engine; its
\* vector boot is started by main.
BootEntries(r) == [n \in Names |-> IF n \in r.stores THEN Fresh(n, {}) ELSE None]
BootObjects(k, r) ==
  [o \in Objects |->
     IF o[1] \in r.stores /\ o = Fresh(o[1], {})
       THEN [Opened(r, o[1]) EXCEPT !.engine = IF o[1] = r.default THEN k ELSE "lexical"]
       ELSE None]
BootPlan(k, r) ==
  IF k = "vector" THEN [store |-> Fresh(r.default, {}), started |-> TRUE] ELSE None

\* The program ends, at any moment, and is started again.
Restart ==
  /\ kind' \in {"lexical", "vector"}
  /\ entries' = BootEntries(registry)
  /\ obj' = BootObjects(kind', registry)
  /\ defaultEntry' = Fresh(registry.default, {})
  /\ vectorBoot' = BootPlan(kind', registry)
  /\ defaultName' = registry.default
  /\ defaultFile' = FileOf(registry, registry.default)
  /\ current' = registry
  /\ releasing' = None
  /\ touched' = FALSE /\ unread' = FALSE
  /\ moved' = FALSE
  /\ UNCHANGED <<disk, edits>>

-----------------------------------------------------------------------------

\* The program starts with the files empty.
Init ==
  /\ registry \in Registries
  /\ files = [f \in Files |-> {}]
  /\ kind \in {"lexical", "vector"}
  /\ entries = BootEntries(registry)
  /\ obj = BootObjects(kind, registry)
  /\ defaultEntry = Fresh(registry.default, {})
  /\ vectorBoot = BootPlan(kind, registry)
  /\ defaultName = registry.default
  /\ defaultFile = FileOf(registry, registry.default)
  /\ current = registry
  /\ releasing = None
  /\ edits = 0
  /\ touched = FALSE /\ unread = FALSE
  /\ moved = FALSE

Apply ==
  \/ \E n \in Names : Add(n)
  \/ \E n \in Names : Remove(n)
  \/ \E from, to \in Names : Rename(from, to)

Next ==
  \/ Apply
  \/ \E n \in Names : SetDefault(n)
  \/ Reassigned
  \/ \E to \in Names : RenameDefault(to)
  \/ \E o \in Objects : Edit(o)
  \/ Touch
  \/ Restart

Spec == Init /\ [][Next]_vars

-----------------------------------------------------------------------------
(* Properties.                                                             *)

TypeOK ==
  /\ kind \in {"lexical", "vector"}
  /\ registry \in Registries
  /\ current \in Registries
  /\ files \in [Files -> SUBSET (1..MaxEdits)]
  /\ obj \in [Objects -> Stores \cup {None}]
  /\ entries \in [Names -> Objects \cup {None}]
  /\ defaultName \in Names
  /\ defaultEntry \in Objects
  /\ defaultFile \in Files
  /\ vectorBoot \in Boots \cup {None}
  /\ releasing \in Boots \cup {None}
  /\ edits \in 0..MaxEdits
  /\ touched \in BOOLEAN /\ unread \in BOOLEAN
  /\ moved \in BOOLEAN
  /\ \A o \in Reachable : obj[o] # None

\* D2 of the specification: the directory has the names and the default of the file - also while a reassignment
\* awaits its release, and after an edit of the file by hand from the next operation on that writes the list of
\* stores (a reassignment in between may name a default the directory has no entry for).  While nobody edits the
\* file, the UI and the tools use one object for the default.
LiveIsRegistry ==
  /\ ~unread =>
       /\ {n \in Names : entries[n] # None} \cup {defaultName} = registry.stores
       /\ defaultName = registry.default
       /\ current = registry
  /\ ~touched => defaultEntry = entries[defaultName]

\* What a store holds in memory is what a restart would load under its name,
\* until the default is renamed away from its file.
PersistedIsLiveUnlessMoved ==
  ~touched /\ ~moved =>
    \A n \in registry.stores : obj[entries[n]].edits = files[FileOf(registry, n)]

\* No two boots ever run, though the old one is released after the new one was
\* constructed: they share the cache file.
AtMostOneBoot == releasing # None /\ vectorBoot # None => ~vectorBoot.started

\* At every moment the default, and only it, is served by the vector engine of
\* the current boot: nobody is routed to a released one.
OnlyDefaultIsVector ==
  ~touched =>
    \A n \in registry.stores :
      obj[entries[n]].engine = "vector" <=> (vectorBoot # None /\ vectorBoot.store = entries[n])

=============================================================================
