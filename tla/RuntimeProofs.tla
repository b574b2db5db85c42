--------------------------- MODULE RuntimeProofs ----------------------------
(***************************************************************************)
(* What holds of the registry of stores while the program runs, for any    *)
(* stores, paths and edits.                                                *)
(***************************************************************************)
EXTENDS RagStoreRuntime, TLAPS

----------------------------------------------------------------------------
(* Types                                                                   *)

\* An object that is opened is a new one of its name.
LEMMA FreshIsNew ==
  ASSUME TypeOK, NEW n \in Names, NEW stay \in SUBSET (Held \cup {entries[defaultName]})
  PROVE  /\ Fresh(n, stay) \in Objects /\ Fresh(n, stay) # None
         /\ Fresh(n, stay)[1] = n /\ Fresh(n, stay) \notin stay
PROOF
<1>. DEFINE of(o) == IF o \in Objects THEN o[2] ELSE defaultEntry[2]
            storeOf(b) == IF b \in Boots THEN b.store ELSE defaultEntry
            g1 == of(defaultEntry)
            g2 == of(storeOf(vectorBoot))
            g3 == of(storeOf(releasing))
            g4 == of(entries[defaultName])
<1>1. g1 \in Generations /\ g2 \in Generations /\ g3 \in Generations /\ g4 \in Generations
  BY DEF TypeOK, Objects
<1>. HIDE DEF g1, g2, g3, g4
<1>2. PICK g \in Generations : g \notin {g1, g2, g3, g4}
  BY <1>1, GenerationsAssumption
<1>. USE DEF g1, g2, g3, g4
<1>3. ASSUME NEW o \in Held \cup {entries[defaultName]}, o = <<n, g>> PROVE FALSE
  <2>1. o \in Objects /\ of(o) = g
    BY <1>3 DEF Objects
  <2>2. CASE o = defaultEntry
    BY <2>1, <2>2, <1>2
  <2>3. CASE o = entries[defaultName]
    BY <2>1, <2>3, <1>2
  <2>4. ASSUME NEW b \in {vectorBoot, releasing} \ {None}, o = b.store PROVE FALSE
    <3>1. b \in Boots /\ storeOf(b) = o
      BY <2>4 DEF TypeOK
    <3>. QED BY <3>1, <2>1, <1>2
  <2>. QED BY <1>3, <2>2, <2>3, <2>4 DEF Held
<1>4. <<n, g>> \notin stay
  BY <1>3
<1>5. PICK h \in Generations : Fresh(n, stay) = <<n, h>> /\ <<n, h>> \notin stay
  BY <1>4 DEF Fresh
<1>. QED BY <1>5, NoneAssumption DEF Objects

\* What the program refers to are objects.
LEMMA ReachableAreObjects ==
  ASSUME TypeOK
  PROVE  Held \subseteq Objects /\ InDirectory \subseteq Objects /\ Reachable \subseteq Objects
BY DEF TypeOK, Held, InDirectory, Reachable, Boots

LEMMA FileOfType ==
  ASSUME NEW r \in Registries, NEW n \in Names
  PROVE  FileOf(r, n) \in Files
BY DEF Registries, FileOf, Files

LEMMA OpenedType ==
  ASSUME TypeOK, NEW r \in Registries, NEW n \in Names
  PROVE  Opened(r, n) \in Stores
PROOF
<1>1. FileOf(r, n) \in Files /\ files[FileOf(r, n)] \in SUBSET (1..MaxEdits)
  BY FileOfType DEF TypeOK
<1>. QED BY <1>1 DEF Opened, Stores

\* Another registry is the same but for what is changed in it.
LEMMA ChangedRegistries ==
  ASSUME NEW r \in Registries, NEW n \in Names, NEW from \in Names, NEW to \in Names
  PROVE  /\ Valid(With(r, n)) => With(r, n) \in Registries
         /\ Valid(Without(r, n)) => Without(r, n) \in Registries
         /\ from \in r.stores /\ to \notin r.stores /\ Valid(Renamed(r, from, to)) => Renamed(r, from, to) \in Registries
         /\ n \in r.stores => [r EXCEPT !.default = n] \in Registries
PROOF
<1>1. Valid(With(r, n)) => With(r, n) \in Registries
  BY DEF With, Registries
<1>2. Valid(Without(r, n)) => Without(r, n) \in Registries
  <2>1. Without(r, n) \in [stores : SUBSET Names, default : Names, path : [Names -> Paths \cup {None}]]
    BY DEF Without, Registries
  <2>2. \A m \in Names \ Without(r, n).stores : Without(r, n).path[m] = None
    BY DEF Without, Registries
  <2>. QED BY <2>1, <2>2 DEF Registries
<1>3. ASSUME from \in r.stores, to \notin r.stores, Valid(Renamed(r, from, to))
      PROVE  Renamed(r, from, to) \in Registries
  <2>1. Renamed(r, from, to) \in [stores : SUBSET Names, default : Names, path : [Names -> Paths \cup {None}]]
    BY DEF Renamed, Registries
  <2>2. \A m \in Names \ Renamed(r, from, to).stores : Renamed(r, from, to).path[m] = None
    BY <1>3 DEF Renamed, Registries
  <2>. QED BY <1>3, <2>1, <2>2 DEF Registries
<1>4. ASSUME n \in r.stores PROVE [r EXCEPT !.default = n] \in Registries
  <2>1. \A m \in Names : FileOf([r EXCEPT !.default = n], m) = FileOf(r, m)
    BY DEF FileOf, Registries
  <2>2. Valid([r EXCEPT !.default = n])
    BY <1>4, <2>1 DEF Valid, Registries
  <2>. QED BY <2>2 DEF Registries
<1>. QED BY <1>1, <1>2, <1>3, <1>4

\* The objects after some were opened: all that is referred to is there.
LEMMA ReplaceType ==
  ASSUME TypeOK, NEW r \in Registries, NEW S \in SUBSET Names,
         NEW stay \in SUBSET (Held \cup {entries[defaultName]}),
         Replace(r, S, stay),
         \A o \in Reachable' : o \in Reachable \/ (o[1] \in S /\ o = Fresh(o[1], stay))
  PROVE  /\ obj' \in [Objects -> Stores \cup {None}]
         /\ \A o \in Reachable' : obj'[o] # None
PROOF
<1>1. \A n \in S : Opened(r, n) \in Stores /\ Opened(r, n) # None
  BY OpenedType, NoneAssumption
<1>2. obj' \in [Objects -> Stores \cup {None}]
  BY <1>1 DEF Replace, TypeOK
<1>3. ASSUME NEW o \in Reachable' PROVE obj'[o] # None
  <2>1. CASE o[1] \in S /\ o = Fresh(o[1], stay)
    <3>1. o \in Objects
      BY <2>1, FreshIsNew
    <3>. QED BY <3>1, <2>1, <1>1 DEF Replace
  <2>2. CASE o \in Reachable /\ ~(o[1] \in S /\ o = Fresh(o[1], stay))
    <3>1. o \in Objects /\ obj[o] # None
      BY <2>2, ReachableAreObjects DEF TypeOK
    <3>. QED BY <3>1, <2>2 DEF Replace
  <2>. QED BY <2>1, <2>2
<1>. QED BY <1>2, <1>3

LEMMA CarryType ==
  ASSUME TypeOK, NEW r \in Registries, Carry(r)
  PROVE  /\ entries' \in [Names -> Objects \cup {None}] /\ obj' \in [Objects -> Stores \cup {None}]
         /\ \A o \in Reachable' : obj'[o] # None
PROOF
<1>. DEFINE S == r.stores \ {r.default}
            stay == Held \cup {entries[defaultName]}
<1>1. S \in SUBSET Names
  BY DEF Registries
<1>2. \A n \in S : Fresh(n, stay) \in Objects /\ Fresh(n, stay)[1] = n
  BY <1>1, FreshIsNew
<1>3. entries' \in [Names -> Objects \cup {None}]
  BY <1>2 DEF Carry, TypeOK
<1>4. Held' = Held
  BY DEF Carry, Held, boots
<1>5. ASSUME NEW o \in Reachable' PROVE o \in Reachable \/ (o[1] \in S /\ o = Fresh(o[1], stay))
  <2>1. CASE o \in Held'
    BY <2>1, <1>4 DEF Reachable
  <2>2. CASE o \in InDirectory'
    <3>1. PICK n \in Names : o = entries'[n] /\ o # None
      BY <2>2 DEF InDirectory
    <3>2. CASE n \in S
      BY <3>1, <3>2, <1>2 DEF Carry
    <3>3. CASE n \notin S
      <4>1. o = entries[n] /\ o \in InDirectory
        BY <3>1, <3>3 DEF Carry, InDirectory
      <4>. QED BY <4>1 DEF Reachable
    <3>. QED BY <3>2, <3>3
  <2>. QED BY <2>1, <2>2 DEF Reachable
<1>6. Replace(r, S, stay)
  BY DEF Carry
<1>. HIDE DEF S, stay
<1>7. stay \in SUBSET (Held \cup {entries[defaultName]})
  BY DEF stay
<1>. QED BY <1>1, <1>3, <1>5, <1>6, <1>7, ReplaceType

LEMMA RebuildType ==
  ASSUME TypeOK, NEW r \in Registries, Rebuild(r)
  PROVE  /\ entries' \in [Names -> Objects \cup {None}] /\ obj' \in [Objects -> Stores \cup {None}]
         /\ \A o \in Reachable' : obj'[o] # None
PROOF
<1>1. r.stores \in SUBSET Names
  BY DEF Registries
<1>2. \A n \in r.stores : Fresh(n, Held) \in Objects /\ Fresh(n, Held)[1] = n
  BY <1>1, FreshIsNew
<1>3. entries' \in [Names -> Objects \cup {None}]
  BY <1>2 DEF Rebuild
<1>4. Held' = Held
  BY DEF Rebuild, Held, boots
<1>5. ASSUME NEW o \in Reachable' PROVE o \in Reachable \/ (o[1] \in r.stores /\ o = Fresh(o[1], Held))
  <2>1. CASE o \in Held'
    BY <2>1, <1>4 DEF Reachable
  <2>2. CASE o \in InDirectory'
    <3>1. PICK n \in Names : o = entries'[n] /\ o # None
      BY <2>2 DEF InDirectory
    <3>. QED BY <3>1, <1>2 DEF Rebuild
  <2>. QED BY <2>1, <2>2 DEF Reachable
<1>6. Replace(r, r.stores, Held)
  BY DEF Rebuild
<1>. QED BY <1>1, <1>3, <1>5, <1>6, ReplaceType

LEMMA HotApplyType ==
  ASSUME TypeOK, NEW r \in Registries, HotApply(r)
  PROVE  TypeOK'
PROOF
<1>1. Carry(r) \/ Rebuild(r)
  BY DEF HotApply
<1>2. /\ entries' \in [Names -> Objects \cup {None}] /\ obj' \in [Objects -> Stores \cup {None}]
      /\ \A o \in Reachable' : obj'[o] # None
  BY <1>1, CarryType, RebuildType
<1>3. defaultName' \in Names
  BY <1>1 DEF Carry, Rebuild, TypeOK, Registries
<1>4. registry' \in Registries /\ current' \in Registries /\ unread' = FALSE
  BY DEF HotApply
<1>5. UNCHANGED <<kind, files, edits, touched, moved, defaultEntry, defaultFile, vectorBoot, releasing>>
  BY <1>1 DEF HotApply, Carry, Rebuild, boots
<1>. QED BY <1>2, <1>3, <1>4, <1>5 DEF TypeOK

LEMMA ApplyType == TypeOK /\ Apply => TypeOK'
PROOF
<1>1. ASSUME TypeOK, NEW n \in Names, Add(n) PROVE TypeOK'
  <2>1. With(registry, n) \in Registries
    BY <1>1, ChangedRegistries DEF TypeOK, Add, HotApply
  <2>. QED BY <1>1, <2>1, HotApplyType DEF Add
<1>2. ASSUME TypeOK, NEW n \in Names, Remove(n) PROVE TypeOK'
  <2>1. Without(registry, n) \in Registries
    BY <1>2, ChangedRegistries DEF TypeOK, Remove, HotApply
  <2>. QED BY <1>2, <2>1, HotApplyType DEF Remove
<1>3. ASSUME TypeOK, NEW from \in Names, NEW to \in Names, Rename(from, to) PROVE TypeOK'
  <2>1. Renamed(registry, from, to) \in Registries
    BY <1>3, ChangedRegistries DEF TypeOK, Rename, HotApply
  <2>. QED BY <1>3, <2>1, HotApplyType DEF Rename
<1>. QED BY <1>1, <1>2, <1>3 DEF Apply

LEMMA SetDefaultType ==
  ASSUME TypeOK, NEW n \in Names, SetDefault(n)
  PROVE  TypeOK'
PROOF
<1>. USE DEF SetDefault
<1>1. registry' \in Registries /\ current' \in Registries /\ defaultName' \in Names
  BY ChangedRegistries DEF TypeOK
<1>2. defaultFile' \in Files
  BY <1>1, FileOfType DEF TypeOK
<1>3. defaultEntry' \in Reachable /\ defaultEntry' \in Objects
  BY DEF Rebind, Reachable, Held, InDirectory, TypeOK
<1>4. vectorBoot' \in Boots \cup {None} /\ (vectorBoot' # None => vectorBoot'.store \in Reachable)
  <2>1. CASE entries[n] = None
    BY <2>1 DEF Boot
  <2>2. CASE entries[n] # None
    <3>1. entries[n] \in Objects /\ entries[n] \in Reachable
      BY <2>2 DEF TypeOK, Reachable, InDirectory
    <3>. QED BY <3>1 DEF Boot, Boots
  <2>. QED BY <2>1, <2>2
<1>5. releasing' \in Boots \cup {None} /\ (releasing' # None => releasing'.store \in Reachable)
  BY DEF TypeOK, Reachable, Held
<1>6. Reachable' \subseteq Reachable
  <2>1. InDirectory' \subseteq Reachable
    BY DEF InDirectory, Reachable
  <2>2. Held' \subseteq Reachable
    BY <1>3, <1>4, <1>5 DEF Held
  <2>. QED BY <2>1, <2>2 DEF Reachable
<1>7. ASSUME NEW o \in Objects, obj[o] # None
      PROVE  Engines(entries[defaultName], entries[n])[o] \in Stores
  <2>1. obj[o] \in Stores
    BY <1>7 DEF TypeOK
  <2>2. [obj[o] EXCEPT !.engine = "vector"] \in Stores /\ [obj[o] EXCEPT !.engine = "lexical"] \in Stores
    BY <2>1 DEF Stores
  <2>. QED BY <2>1, <2>2 DEF Engines
<1>8. \A o \in Reachable : o \in Objects /\ obj[o] # None
  BY ReachableAreObjects DEF TypeOK
<1>9. obj' \in [Objects -> Stores \cup {None}]
  BY <1>6, <1>7, <1>8
<1>10. \A o \in Reachable' : obj'[o] # None
  <2>. SUFFICES ASSUME NEW o \in Reachable' PROVE obj'[o] # None
    OBVIOUS
  <2>1. o \in Objects /\ obj[o] # None
    BY <1>6, <1>8
  <2>2. obj'[o] = Engines(entries[defaultName], entries[n])[o]
    BY <2>1
  <2>. QED BY <2>1, <2>2, <1>7, NoneAssumption
<1>11. entries' \in [Names -> Objects \cup {None}]
  BY DEF TypeOK
<1>. QED BY <1>1, <1>2, <1>3, <1>4, <1>5, <1>9, <1>10, <1>11 DEF TypeOK

LEMMA ReassignedType == TypeOK /\ Reassigned => TypeOK'
PROOF
<1>. SUFFICES ASSUME TypeOK, Reassigned PROVE TypeOK'
  OBVIOUS
<1>. USE DEF Reassigned
<1>1. vectorBoot' \in Boots \cup {None} /\ releasing' \in Boots \cup {None}
  BY DEF TypeOK, Boots
<1>2. Held' \subseteq Held /\ InDirectory' = InDirectory
  BY DEF Held, InDirectory, TypeOK, Boots
<1>3. \A o \in Reachable' : o \in Reachable
  BY <1>2 DEF Reachable
<1>4. /\ obj' \in [Objects -> Stores \cup {None}]
      /\ \A o \in Reachable' : obj'[o] # None
  <2>1. registry \in Registries /\ {} \in SUBSET Names /\ {} \in SUBSET (Held \cup {entries[defaultName]})
    BY DEF TypeOK
  <2>. QED BY <2>1, <1>3, ReplaceType
<1>. QED BY <1>1, <1>4 DEF TypeOK, disk

LEMMA RenameDefaultType ==
  ASSUME TypeOK, NEW to \in Names, RenameDefault(to)
  PROVE  TypeOK'
PROOF
<1>. DEFINE r == Renamed(registry, registry.default, to)
<1>1. r \in Registries
  <2>1. registry.default \in Names /\ registry.default \in registry.stores
    BY DEF TypeOK, Registries, Valid
  <2>. QED BY <2>1, ChangedRegistries DEF TypeOK, RenameDefault
<1>2. registry' = r /\ current' = r /\ UNCHANGED <<kind, files, edits, touched>>
  BY DEF RenameDefault
<1>. HIDE DEF r
<1>3. CASE registry.default # defaultName
  <2>1. Rebuild(r) /\ unread' = FALSE /\ UNCHANGED moved
    BY <1>3 DEF RenameDefault, r
  <2>2. /\ entries' \in [Names -> Objects \cup {None}] /\ obj' \in [Objects -> Stores \cup {None}]
        /\ \A o \in Reachable' : obj'[o] # None
    BY <1>1, <2>1, RebuildType
  <2>3. defaultName' \in Names /\ UNCHANGED <<defaultEntry, defaultFile, vectorBoot, releasing>>
    BY <1>1, <2>1 DEF Rebuild, Registries, boots
  <2>. QED BY <1>1, <1>2, <2>1, <2>2, <2>3 DEF TypeOK
<1>4. CASE registry.default = defaultName
  <2>. DEFINE e == entries[defaultName]
  <2>1. /\ entries' = [entries EXCEPT ![defaultName] = None, ![to] = e]
        /\ defaultEntry' = IF e = None THEN defaultEntry ELSE e
        /\ defaultName' = to /\ defaultFile' = FileOf(r, to)
        /\ moved' = (moved \/ FileOf(r, to) # FileOf(registry, registry.default))
        /\ UNCHANGED <<vectorBoot, releasing, unread>> /\ Replace(registry, {}, {})
    BY <1>4 DEF RenameDefault, boots, r
  <2>2. e \in Objects \cup {None} /\ entries' \in [Names -> Objects \cup {None}]
    BY <2>1 DEF TypeOK
  <2>3. e # None => e \in InDirectory
    BY DEF InDirectory, TypeOK
  <2>4. defaultEntry' \in Objects /\ defaultEntry' \in Reachable
    BY <2>1, <2>2, <2>3 DEF TypeOK, Reachable, Held
  <2>5. \A o \in Reachable' : o \in Reachable
    <3>1. InDirectory' \subseteq InDirectory
      BY <2>1, <2>2, <2>3 DEF InDirectory, TypeOK
    <3>2. Held' \subseteq Reachable
      BY <2>1, <2>4 DEF Held, Reachable
    <3>. QED BY <3>1, <3>2 DEF Reachable
  <2>6. /\ obj' \in [Objects -> Stores \cup {None}]
        /\ \A o \in Reachable' : obj'[o] # None
    <3>1. registry \in Registries /\ {} \in SUBSET Names /\ {} \in SUBSET (Held \cup {entries[defaultName]})
      BY DEF TypeOK
    <3>. QED BY <3>1, <2>1, <2>5, ReplaceType
  <2>7. defaultFile' \in Files
    BY <1>1, <2>1, FileOfType
  <2>. QED BY <1>1, <1>2, <2>1, <2>2, <2>4, <2>6, <2>7 DEF TypeOK
<1>. QED BY <1>3, <1>4

LEMMA EditType ==
  ASSUME TypeOK, NEW o \in Objects, Edit(o)
  PROVE  TypeOK'
PROOF
<1>. USE DEF Edit
<1>1. obj[o] \in Stores
  BY DEF TypeOK, Reachable, Held
<1>2. edits' \in 0..MaxEdits /\ edits + 1 \in 1..MaxEdits
  BY EditsAssumption DEF TypeOK
<1>3. obj[o].edits \cup {edits + 1} \in SUBSET (1..MaxEdits)
  BY <1>1, <1>2 DEF Stores
<1>4. [obj[o] EXCEPT !.edits = @ \cup {edits + 1}] \in Stores
  BY <1>1, <1>3 DEF Stores
<1>5. obj' \in [Objects -> Stores \cup {None}] /\ obj'[o] = [obj[o] EXCEPT !.edits = @ \cup {edits + 1}]
  BY <1>4 DEF TypeOK
<1>6. obj'[o].edits \in SUBSET (1..MaxEdits)
  BY <1>1, <1>3, <1>5 DEF Stores
<1>7. files' \in [Files -> SUBSET (1..MaxEdits)]
  BY <1>1, <1>6 DEF TypeOK
<1>8. Reachable' = Reachable
  BY DEF Reachable, InDirectory, Held, boots
<1>9. \A x \in Reachable : obj'[x] # None
  <2>. SUFFICES ASSUME NEW x \in Reachable PROVE obj'[x] # None
    OBVIOUS
  <2>1. CASE x = o
    BY <2>1, <1>4, <1>5, NoneAssumption
  <2>2. CASE x # o
    BY <2>2, ReachableAreObjects DEF TypeOK
  <2>. QED BY <2>1, <2>2
<1>. QED BY <1>2, <1>5, <1>7, <1>8, <1>9 DEF TypeOK, boots

LEMMA FreshAtBoot ==
  ASSUME NEW n \in Names
  PROVE  Fresh(n, {}) \in Objects /\ Fresh(n, {}) # None /\ Fresh(n, {})[1] = n
PROOF
<1>1. PICK g \in Generations : Fresh(n, {}) = <<n, g>>
  BY GenerationsAssumption DEF Fresh
<1>. QED BY <1>1, NoneAssumption DEF Objects

\* What a start makes of a registry and the files.
LEMMA BootState ==
  ASSUME NEW k \in {"lexical", "vector"}, NEW r \in Registries, files \in [Files -> SUBSET (1..MaxEdits)]
  PROVE  /\ BootEntries(r) \in [Names -> Objects \cup {None}]
         /\ BootObjects(k, r) \in [Objects -> Stores \cup {None}]
         /\ BootPlan(k, r) \in Boots \cup {None}
         /\ BootPlan(k, r) # None <=> k = "vector"
         /\ BootPlan(k, r) # None => BootPlan(k, r).store = Fresh(r.default, {})
         /\ r.default \in r.stores /\ r.stores \subseteq Names
         /\ \A n \in r.stores :
              /\ BootObjects(k, r)[Fresh(n, {})] # None
              /\ BootObjects(k, r)[Fresh(n, {})].file = FileOf(r, n)
              /\ BootObjects(k, r)[Fresh(n, {})].edits = files[FileOf(r, n)]
              /\ BootObjects(k, r)[Fresh(n, {})].engine = IF n = r.default THEN k ELSE "lexical"
PROOF
<1>1. r.default \in r.stores /\ r.stores \subseteq Names
  BY DEF Registries, Valid
<1>2. \A n \in Names : Fresh(n, {}) \in Objects /\ Fresh(n, {}) # None /\ Fresh(n, {})[1] = n
  BY FreshAtBoot
<1>3. BootEntries(r) \in [Names -> Objects \cup {None}]
  BY <1>1, <1>2 DEF BootEntries
<1>4. /\ BootPlan(k, r) \in Boots \cup {None}
      /\ BootPlan(k, r) # None <=> k = "vector"
      /\ BootPlan(k, r) # None => BootPlan(k, r).store = Fresh(r.default, {})
  <2>1. [store |-> Fresh(r.default, {}), started |-> TRUE] \in Boots
    BY <1>1, <1>2 DEF Boots
  <2>. QED BY <2>1, NoneAssumption DEF BootPlan
<1>5. ASSUME NEW n \in Names
      PROVE  /\ [Opened(r, n) EXCEPT !.engine = IF n = r.default THEN k ELSE "lexical"] \in Stores
             /\ Opened(r, n).file = FileOf(r, n) /\ Opened(r, n).edits = files[FileOf(r, n)]
  <2>1. FileOf(r, n) \in Files /\ files[FileOf(r, n)] \in SUBSET (1..MaxEdits)
    BY FileOfType
  <2>. QED BY <2>1 DEF Opened, Stores
<1>6. BootObjects(k, r) \in [Objects -> Stores \cup {None}]
  BY <1>1, <1>5 DEF BootObjects
<1>7. ASSUME NEW n \in r.stores
      PROVE  /\ BootObjects(k, r)[Fresh(n, {})] # None
             /\ BootObjects(k, r)[Fresh(n, {})].file = FileOf(r, n)
             /\ BootObjects(k, r)[Fresh(n, {})].edits = files[FileOf(r, n)]
             /\ BootObjects(k, r)[Fresh(n, {})].engine = IF n = r.default THEN k ELSE "lexical"
  <2>1. n \in Names /\ Fresh(n, {}) \in Objects /\ Fresh(n, {})[1] = n
    BY <1>1, <1>2
  <2>2. BootObjects(k, r)[Fresh(n, {})] = [Opened(r, n) EXCEPT !.engine = IF n = r.default THEN k ELSE "lexical"]
    BY <2>1 DEF BootObjects
  <2>3. [Opened(r, n) EXCEPT !.engine = IF n = r.default THEN k ELSE "lexical"] # None
    BY <2>1, <1>5, NoneAssumption
  <2>. QED BY <2>2, <2>3 DEF Opened
<1>. QED BY <1>1, <1>3, <1>4, <1>6, <1>7

LEMMA InitType == Init => TypeOK
PROOF
<1>. SUFFICES ASSUME Init PROVE TypeOK
  OBVIOUS
<1>. USE DEF Init
<1>1. files \in [Files -> SUBSET (1..MaxEdits)]
  OBVIOUS
<1>2. registry.default \in registry.stores /\ registry.stores \subseteq Names /\ registry.default \in Names
  BY <1>1, BootState
<1>3. defaultEntry \in Objects /\ entries \in [Names -> Objects \cup {None}] /\ obj \in [Objects -> Stores \cup {None}]
      /\ vectorBoot \in Boots \cup {None} /\ defaultFile \in Files
  BY <1>1, <1>2, BootState, FreshAtBoot, FileOfType
<1>4. ASSUME NEW o \in Reachable PROVE \E n \in registry.stores : o = Fresh(n, {})
  <2>1. CASE o \in InDirectory
    BY <2>1 DEF InDirectory, BootEntries
  <2>2. CASE o = defaultEntry
    BY <2>2, <1>2
  <2>3. CASE vectorBoot # None /\ o = vectorBoot.store
    BY <2>3, <1>1, <1>2, BootState
  <2>. QED BY <2>1, <2>2, <2>3 DEF Reachable, Held
<1>5. \A o \in Reachable : obj[o] # None
  BY <1>1, <1>4, BootState
<1>6. edits \in 0..MaxEdits
  BY EditsAssumption
<1>. QED BY <1>1, <1>2, <1>3, <1>5, <1>6 DEF TypeOK

LEMMA RestartType == TypeOK /\ Restart => TypeOK'
PROOF
<1>. SUFFICES ASSUME TypeOK, Restart PROVE TypeOK'
  OBVIOUS
<1>. USE DEF Restart
<1>1. files \in [Files -> SUBSET (1..MaxEdits)] /\ registry \in Registries /\ kind' \in {"lexical", "vector"}
  BY DEF TypeOK
<1>2. registry.default \in registry.stores /\ registry.stores \subseteq Names /\ registry.default \in Names
  BY <1>1, BootState
<1>3. defaultEntry' \in Objects /\ entries' \in [Names -> Objects \cup {None}] /\ obj' \in [Objects -> Stores \cup {None}]
      /\ vectorBoot' \in Boots \cup {None} /\ defaultFile' \in Files
  BY <1>1, <1>2, BootState, FreshAtBoot, FileOfType
<1>4. ASSUME NEW o \in Reachable' PROVE \E n \in registry.stores : o = Fresh(n, {})
  <2>1. CASE o \in InDirectory'
    BY <2>1 DEF InDirectory, BootEntries
  <2>2. CASE o = defaultEntry'
    BY <2>2, <1>2
  <2>3. CASE vectorBoot' # None /\ o = vectorBoot'.store
    BY <2>3, <1>1, <1>2, BootState
  <2>. QED BY <2>1, <2>2, <2>3 DEF Reachable, Held
<1>5. \A o \in Reachable' : obj'[o] # None
  BY <1>1, <1>4, BootState
<1>6. UNCHANGED <<registry, files, edits>>
  BY DEF disk
<1>. QED BY <1>1, <1>2, <1>3, <1>5, <1>6 DEF TypeOK

LEMMA TouchType == TypeOK /\ Touch => TypeOK'
BY DEF TypeOK, Touch, live, boots, Reachable, InDirectory, Held

\* Type correctness: the registry file and the one that is held stay valid (no two stores have one file), and
\* every store object that the directory, the page or a boot refers to is there.
THEOREM TypeCorrect == Spec => []TypeOK
PROOF
<1>1. ASSUME TypeOK, Next PROVE TypeOK'
  BY <1>1, ApplyType, SetDefaultType, ReassignedType, RenameDefaultType, EditType, TouchType, RestartType DEF Next
<1>2. TypeOK /\ UNCHANGED vars => TypeOK'
  BY DEF TypeOK, vars, disk, live, boots, Reachable, InDirectory, Held
<1>. QED BY InitType, <1>1, <1>2, PTL DEF Spec

----------------------------------------------------------------------------
(* One boot                                                                *)

\* Of two boots one is not started: the new default's waits for the release of the previous one.
THEOREM OneBootAtATime == Spec => []AtMostOneBoot
PROOF
<1>1. Init => AtMostOneBoot
  BY DEF Init, AtMostOneBoot
<1>2. ASSUME AtMostOneBoot, Next PROVE AtMostOneBoot'
  <2>1. ASSUME NEW n \in Names, SetDefault(n) PROVE AtMostOneBoot'
    BY <2>1 DEF SetDefault, Boot, AtMostOneBoot
  <2>2. ASSUME Reassigned \/ Restart PROVE AtMostOneBoot'
    BY <2>2 DEF Reassigned, Restart, AtMostOneBoot
  <2>3. ASSUME Apply \/ (\E to \in Names : RenameDefault(to)) \/ (\E o \in Objects : Edit(o)) \/ Touch
        PROVE  AtMostOneBoot'
    <3>1. ASSUME NEW r, HotApply(r) PROVE UNCHANGED boots
      <4>1. Carry(r) \/ Rebuild(r)
        BY <3>1 DEF HotApply
      <4>2. CASE Carry(r)
        BY <4>2 DEF Carry, boots
      <4>3. CASE Rebuild(r)
        BY <4>3 DEF Rebuild, boots
      <4>. QED BY <4>1, <4>2, <4>3
    <3>2. CASE Apply
      <4>1. \E r : HotApply(r)
        BY <3>2 DEF Apply, Add, Remove, Rename
      <4>. QED BY <1>2, <3>1, <4>1 DEF boots, AtMostOneBoot
    <3>3. ASSUME NEW to \in Names, RenameDefault(to) PROVE AtMostOneBoot'
      <4>1. \A r : Rebuild(r) => UNCHANGED boots
        BY DEF Rebuild, boots
      <4>. HIDE DEF boots
      <4>2. UNCHANGED boots
        BY <3>3, <4>1 DEF RenameDefault
      <4>. QED BY <1>2, <4>2 DEF boots, AtMostOneBoot
    <3>4. ASSUME (\E o \in Objects : Edit(o)) \/ Touch PROVE AtMostOneBoot'
      BY <1>2, <3>4 DEF Edit, Touch, boots, AtMostOneBoot
    <3>. QED BY <2>3, <3>2, <3>3, <3>4
  <2>. QED BY <1>2, <2>1, <2>2, <2>3 DEF Next
<1>3. AtMostOneBoot /\ UNCHANGED vars => AtMostOneBoot'
  BY DEF AtMostOneBoot, vars, boots
<1>. QED BY <1>1, <1>2, <1>3, PTL DEF Spec

----------------------------------------------------------------------------
(* The directory and the registry                                          *)

\* The default's file is the one the drift guard knows.
GuardKnowsFile == defaultFile = FileOf(registry, registry.default)

\* No two names are served by one store object.
OneObjectPerStore == \A m, n \in registry.stores : entries[m] = entries[n] => m = n

\* What is in memory is what is in the file, and the object writes to that file.
MemoryIsFile ==
  ~moved => \A n \in registry.stores :
              obj[entries[n]].file = FileOf(registry, n) /\ obj[entries[n]].edits = files[FileOf(registry, n)]

\* The default's object, and no other one, has the vector engine, if the program has one; its boot is of that object.
EngineOfDefault ==
  /\ vectorBoot # None <=> kind = "vector"
  /\ vectorBoot # None => vectorBoot.store = defaultEntry
  /\ \A n \in registry.stores : obj[entries[n]].engine = IF n = registry.default THEN kind ELSE "lexical"

\* The directory has the names and the default of the file, and one object serves the default.
LiveAgrees ==
  ~touched =>
    /\ {n \in Names : entries[n] # None} = registry.stores
    /\ defaultName = registry.default
    /\ defaultEntry = entries[defaultName]
    /\ current = registry

Agreement ==
  ~touched => LiveAgrees /\ GuardKnowsFile /\ OneObjectPerStore /\ MemoryIsFile /\ EngineOfDefault

RuntimeIInv == TypeOK /\ Agreement

\* What the invariant says of the names of the registry.
LEMMA StoresServed ==
  ASSUME RuntimeIInv, ~touched
  PROVE  /\ registry.stores \subseteq Names /\ registry.default \in registry.stores
         /\ \A n \in registry.stores : entries[n] # None /\ entries[n] \in Objects /\ entries[n] \in Reachable /\ obj[entries[n]] \in Stores
         /\ \A n \in Names : entries[n] # None => n \in registry.stores
         /\ defaultName = registry.default /\ defaultEntry = entries[defaultName] /\ current = registry
         /\ \A m, n \in registry.stores : FileOf(registry, m) = FileOf(registry, n) => m = n
PROOF
<1>1. registry.stores \subseteq Names /\ registry.default \in registry.stores
      /\ \A m, n \in registry.stores : FileOf(registry, m) = FileOf(registry, n) => m = n
  BY DEF RuntimeIInv, TypeOK, Registries, Valid
<1>2. LiveAgrees
  BY DEF RuntimeIInv, Agreement
<1>3. ASSUME NEW n \in registry.stores
      PROVE  entries[n] # None /\ entries[n] \in Objects /\ entries[n] \in Reachable /\ obj[entries[n]] \in Stores
  <2>1. entries[n] # None
    BY <1>2, <1>3 DEF LiveAgrees
  <2>2. entries[n] \in Objects /\ entries[n] \in Reachable
    BY <1>1, <2>1 DEF RuntimeIInv, TypeOK, Reachable, InDirectory
  <2>. QED BY <2>1, <2>2 DEF RuntimeIInv, TypeOK
<1>4. \A n \in Names : entries[n] # None => n \in registry.stores
  BY <1>2 DEF LiveAgrees
<1>. QED BY <1>1, <1>2, <1>3, <1>4 DEF LiveAgrees

\* A change of the registry that leaves the default where it is: all other stores are opened anew.
LEMMA HotApplyAgrees ==
  ASSUME RuntimeIInv, ~touched, NEW r \in Registries, HotApply(r),
         r.default = registry.default, FileOf(r, r.default) = FileOf(registry, registry.default)
  PROVE  Agreement'
PROOF
<1>. DEFINE S == r.stores \ {r.default}
            stay == Held \cup {entries[defaultName]}
<1>1. /\ entries' = [n \in Names |-> IF n \in S THEN Fresh(n, stay) ELSE IF n = defaultName THEN entries[n] ELSE None]
      /\ UNCHANGED <<defaultName, defaultEntry, defaultFile, vectorBoot, releasing, kind, files, moved, touched>>
      /\ registry' = r /\ current' = r
      /\ Replace(r, S, stay)
  <2>1. Stable(r)
    BY StoresServed DEF RuntimeIInv, Agreement, GuardKnowsFile, Stable
  <2>. QED BY <2>1 DEF HotApply, Carry, boots
<1>2. r.default \in r.stores /\ r.stores \subseteq Names /\ r.default = defaultName
      /\ \A n \in r.stores : n \in S \/ n = r.default
  BY StoresServed DEF Registries, Valid
<1>3. \A n \in Names : Fresh(n, stay) \in Objects /\ Fresh(n, stay) # None /\ Fresh(n, stay)[1] = n /\ Fresh(n, stay) \notin stay
  <2>1. stay \in SUBSET (Held \cup {entries[defaultName]})
    OBVIOUS
  <2>. HIDE DEF stay
  <2>. QED BY <2>1, FreshIsNew DEF RuntimeIInv
<1>4. entries'[r.default] = defaultEntry /\ defaultEntry \in Objects /\ defaultEntry \in stay /\ defaultEntry # None
  BY <1>1, <1>2, StoresServed
<1>5. ASSUME NEW n \in S
      PROVE  entries'[n] = Fresh(n, stay) /\ obj'[entries'[n]] = Opened(r, n)
  <2>1. entries'[n] = Fresh(n, stay) /\ n \in Names
    BY <1>1, <1>2
  <2>2. Fresh(n, stay) \in Reachable'
    BY <2>1, <1>3 DEF Reachable, InDirectory
  <2>. QED BY <1>1, <1>3, <2>1, <2>2 DEF Replace
<1>6. obj'[entries'[r.default]] = obj[entries[registry.default]]
  <2>1. defaultEntry \in Reachable'
    BY <1>1 DEF Reachable, Held
  <2>2. ~(defaultEntry[1] \in S /\ defaultEntry = Fresh(defaultEntry[1], stay))
    BY <1>2, <1>3, <1>4
  <2>. QED BY <1>1, <1>4, <2>1, <2>2, StoresServed DEF Replace
<1>. DEFINE fresh(n) == Fresh(n, stay)
<1>7. /\ \A n \in r.stores : n \in Names /\ (n \in S \/ n = r.default)
      /\ \A n \in S : n \in Names /\ entries'[n] = fresh(n) /\ obj'[entries'[n]] = Opened(r, n)
      /\ \A n \in Names : fresh(n) # None /\ fresh(n)[1] = n /\ fresh(n) # defaultEntry
      /\ \A n \in Names : n \notin r.stores => entries'[n] = None
  BY <1>1, <1>2, <1>3, <1>4, <1>5
<1>. HIDE DEF S, stay, fresh
<1>8. LiveAgrees'
  <2>1. {n \in Names : entries'[n] # None} = r.stores
    <3>1. \A n \in r.stores : n \in Names /\ entries'[n] # None
      BY <1>7, <1>4
    <3>. QED BY <3>1, <1>7
  <2>2. defaultEntry = entries'[defaultName]
    BY <1>2, <1>4
  <2>. QED BY <1>1, <1>2, <2>1, <2>2 DEF LiveAgrees
<1>9. GuardKnowsFile'
  BY <1>1 DEF GuardKnowsFile, RuntimeIInv, Agreement, FileOf
<1>10. OneObjectPerStore'
  <2>. SUFFICES ASSUME NEW m \in r.stores, NEW n \in r.stores, entries'[m] = entries'[n] PROVE m = n
    BY <1>1 DEF OneObjectPerStore
  <2>1. CASE m \in S /\ n \in S
    BY <2>1, <1>7
  <2>2. CASE m = r.default \/ n = r.default
    BY <2>2, <1>7, <1>4
  <2>. QED BY <1>7, <2>1, <2>2
<1>11. MemoryIsFile'
  <2>. SUFFICES ASSUME ~moved, NEW n \in r.stores
                PROVE  obj'[entries'[n]].file = FileOf(r, n) /\ obj'[entries'[n]].edits = files[FileOf(r, n)]
    BY <1>1 DEF MemoryIsFile
  <2>1. CASE n \in S
    <3>1. obj'[entries'[n]] = Opened(r, n)
      BY <2>1, <1>7
    <3>. QED BY <3>1 DEF Opened
  <2>2. CASE n = r.default
    BY <2>2, <1>6, StoresServed DEF RuntimeIInv, Agreement, MemoryIsFile
  <2>. QED BY <1>7, <2>1, <2>2
<1>12. EngineOfDefault'
  <2>1. ASSUME NEW n \in r.stores
        PROVE  obj'[entries'[n]].engine = IF n = r.default THEN kind ELSE "lexical"
    <3>1. CASE n \in S
      <4>1. n # r.default
        BY <3>1 DEF S
      <4>2. obj'[entries'[n]] = Opened(r, n)
        BY <3>1, <1>7
      <4>. QED BY <4>1, <4>2 DEF Opened
    <3>2. CASE n = r.default
      BY <3>2, <1>6, StoresServed DEF RuntimeIInv, Agreement, EngineOfDefault
    <3>. QED BY <1>7, <3>1, <3>2
  <2>. QED BY <1>1, <2>1 DEF RuntimeIInv, Agreement, EngineOfDefault
<1>. QED BY <1>8, <1>9, <1>10, <1>11, <1>12 DEF Agreement

LEMMA ApplyAgrees ==
  ASSUME RuntimeIInv, ~touched, Apply
  PROVE  Agreement'
PROOF
<1>1. registry \in Registries /\ registry.default \in registry.stores /\ current = registry
  BY StoresServed DEF RuntimeIInv, TypeOK
<1>2. ASSUME NEW n \in Names, Add(n) PROVE Agreement'
  <2>1. With(registry, n) \in Registries /\ HotApply(With(registry, n))
    BY <1>1, <1>2, ChangedRegistries DEF Add, HotApply
  <2>2. With(registry, n).default = registry.default
        /\ FileOf(With(registry, n), registry.default) = FileOf(registry, registry.default)
    BY <1>1 DEF With, FileOf, Registries
  <2>. QED BY <2>1, <2>2, HotApplyAgrees
<1>3. ASSUME NEW n \in Names, Remove(n) PROVE Agreement'
  <2>1. Without(registry, n) \in Registries /\ HotApply(Without(registry, n)) /\ n # registry.default
    BY <1>1, <1>3, ChangedRegistries DEF Remove, HotApply
  <2>2. Without(registry, n).default = registry.default
        /\ FileOf(Without(registry, n), registry.default) = FileOf(registry, registry.default)
    BY <1>1, <2>1 DEF Without, FileOf, Registries
  <2>. QED BY <2>1, <2>2, HotApplyAgrees
<1>4. ASSUME NEW from \in Names, NEW to \in Names, Rename(from, to) PROVE Agreement'
  <2>1. /\ Renamed(registry, from, to) \in Registries /\ HotApply(Renamed(registry, from, to))
        /\ from # registry.default /\ to # registry.default
    BY <1>1, <1>4, ChangedRegistries DEF Rename, HotApply
  <2>2. Renamed(registry, from, to).default = registry.default
        /\ FileOf(Renamed(registry, from, to), registry.default) = FileOf(registry, registry.default)
    BY <1>1, <2>1 DEF Renamed, FileOf, Registries
  <2>. QED BY <2>1, <2>2, HotApplyAgrees
<1>. QED BY <1>2, <1>3, <1>4 DEF Apply

LEMMA SetDefaultAgrees ==
  ASSUME RuntimeIInv, ~touched, NEW n \in Names, SetDefault(n)
  PROVE  Agreement'
PROOF
<1>. DEFINE r == [registry EXCEPT !.default = n]
            old == entries[defaultName]
            new == entries[n]
<1>1. n \in registry.stores /\ n # registry.default /\ new # None /\ new \in Objects
  BY StoresServed DEF SetDefault
<1>2. /\ registry' = r /\ current' = r /\ defaultName' = n /\ defaultFile' = FileOf(r, n)
      /\ defaultEntry' = new /\ entries' = entries
      /\ vectorBoot' = IF kind = "vector" THEN [store |-> new, started |-> vectorBoot = None] ELSE None
      /\ UNCHANGED <<kind, files, touched, moved>>
  BY <1>1 DEF SetDefault, Rebind, Boot
<1>3. r.stores = registry.stores /\ r.default = n /\ \A m \in Names : FileOf(r, m) = FileOf(registry, m)
  BY DEF RuntimeIInv, TypeOK, Registries, FileOf
<1>. HIDE DEF r
<1>4. ASSUME NEW m \in registry.stores
      PROVE  /\ m \in Names /\ obj[entries[m]] \in Stores
             /\ obj'[entries[m]] = IF kind = "lexical" THEN obj[entries[m]]
                                  ELSE IF m = n THEN [obj[entries[m]] EXCEPT !.engine = "vector"]
                                  ELSE IF m = registry.default THEN [obj[entries[m]] EXCEPT !.engine = "lexical"]
                                  ELSE obj[entries[m]]
  <2>1. m \in Names /\ entries[m] \in Objects /\ entries[m] # None /\ obj[entries[m]] \in Stores
    BY StoresServed
  <2>2. entries[m] \in Reachable'
    BY <1>2, <2>1 DEF Reachable, InDirectory
  <2>3. obj'[entries[m]] = Engines(old, new)[entries[m]]
    BY <2>1, <2>2 DEF SetDefault
  <2>4. (entries[m] = new <=> m = n) /\ (entries[m] = old <=> m = registry.default)
    BY <1>1, StoresServed DEF RuntimeIInv, Agreement, OneObjectPerStore
  <2>. QED BY <2>1, <2>3, <2>4, NoneAssumption DEF Engines
<1>5. LiveAgrees'
  BY <1>2, <1>3, StoresServed DEF LiveAgrees
<1>6. GuardKnowsFile' /\ OneObjectPerStore'
  BY <1>2, <1>3 DEF GuardKnowsFile, OneObjectPerStore, RuntimeIInv, Agreement
<1>7. MemoryIsFile'
  <2>. SUFFICES ASSUME ~moved, NEW m \in registry.stores
                PROVE  obj'[entries[m]].file = FileOf(registry, m) /\ obj'[entries[m]].edits = files[FileOf(registry, m)]
    BY <1>2, <1>3, <1>4 DEF MemoryIsFile
  <2>1. obj'[entries[m]].file = obj[entries[m]].file /\ obj'[entries[m]].edits = obj[entries[m]].edits
    <3>1. obj[entries[m]] \in Stores
      BY StoresServed
    <3>2. \A s \in Stores : \A b : [s EXCEPT !.engine = b].file = s.file /\ [s EXCEPT !.engine = b].edits = s.edits
      BY DEF Stores
    <3>3. obj'[entries[m]] = obj[entries[m]] \/ \E b : obj'[entries[m]] = [obj[entries[m]] EXCEPT !.engine = b]
      BY <1>4
    <3>4. ASSUME NEW b, obj'[entries[m]] = [obj[entries[m]] EXCEPT !.engine = b]
          PROVE  obj'[entries[m]].file = obj[entries[m]].file /\ obj'[entries[m]].edits = obj[entries[m]].edits
      BY <3>1, <3>2, <3>4
    <3>. QED BY <3>3, <3>4
  <2>. QED BY <2>1 DEF RuntimeIInv, Agreement, MemoryIsFile
<1>8. EngineOfDefault'
  <2>1. ASSUME NEW m \in registry.stores
        PROVE  obj'[entries[m]].engine = IF m = n THEN kind ELSE "lexical"
    <3>1. obj[entries[m]].engine = (IF m = registry.default THEN kind ELSE "lexical")
          /\ kind \in {"lexical", "vector"}
      BY DEF RuntimeIInv, TypeOK, Agreement, EngineOfDefault
    <3>2. CASE kind = "lexical"
      BY <3>1, <3>2, <1>4
    <3>3. CASE kind = "vector" /\ m = n
      <4>1. obj'[entries[m]] = [obj[entries[m]] EXCEPT !.engine = "vector"]
        BY <3>3, <1>4
      <4>. QED BY <3>3, <4>1, <1>4 DEF Stores
    <3>4. CASE kind = "vector" /\ m # n /\ m = registry.default
      <4>1. obj'[entries[m]] = [obj[entries[m]] EXCEPT !.engine = "lexical"]
        BY <3>4, <1>4
      <4>. QED BY <3>4, <4>1, <1>4 DEF Stores
    <3>5. CASE kind = "vector" /\ m # n /\ m # registry.default
      BY <3>1, <3>5, <1>4
    <3>. QED BY <3>1, <3>2, <3>3, <3>4, <3>5
  <2>2. vectorBoot' # None <=> kind = "vector"
    <3>1. [store |-> new, started |-> vectorBoot = None] \in Boots
      BY <1>1 DEF Boots
    <3>. QED BY <3>1, <1>2, NoneAssumption
  <2>. QED BY <1>2, <1>3, <2>1, <2>2 DEF EngineOfDefault
<1>. QED BY <1>5, <1>6, <1>7, <1>8 DEF Agreement

LEMMA ReassignedAgrees ==
  ASSUME RuntimeIInv, ~touched, Reassigned
  PROVE  Agreement'
PROOF
<1>1. UNCHANGED <<kind, registry, files, entries, defaultName, defaultEntry, defaultFile, current, touched, moved>>
  BY DEF Reassigned, disk
<1>2. ASSUME NEW n \in registry.stores PROVE obj'[entries[n]] = obj[entries[n]]
  <2>1. n \in Names /\ entries[n] \in Objects /\ entries[n] # None
    BY StoresServed
  <2>2. entries[n] \in Reachable'
    BY <1>1, <2>1 DEF Reachable, InDirectory
  <2>. QED BY <2>1, <2>2 DEF Reassigned, Replace
<1>3. LiveAgrees' /\ GuardKnowsFile' /\ OneObjectPerStore'
  BY <1>1 DEF LiveAgrees, GuardKnowsFile, OneObjectPerStore, RuntimeIInv, Agreement
<1>4. MemoryIsFile'
  BY <1>1, <1>2 DEF MemoryIsFile, RuntimeIInv, Agreement
<1>5. (vectorBoot' # None <=> vectorBoot # None) /\ (vectorBoot # None => vectorBoot'.store = vectorBoot.store)
  <2>1. vectorBoot # None => [vectorBoot EXCEPT !.started = TRUE] \in Boots
    BY DEF RuntimeIInv, TypeOK, Boots
  <2>. QED BY <2>1, NoneAssumption DEF Reassigned, RuntimeIInv, TypeOK, Boots
<1>6. EngineOfDefault'
  BY <1>1, <1>2, <1>5 DEF EngineOfDefault, RuntimeIInv, Agreement
<1>. QED BY <1>3, <1>4, <1>6 DEF Agreement

LEMMA RenameDefaultAgrees ==
  ASSUME RuntimeIInv, ~touched, NEW to \in Names, RenameDefault(to)
  PROVE  Agreement'
PROOF
<1>. DEFINE from == registry.default
            r == Renamed(registry, from, to)
            kept == registry.stores \ {from}
<1>1. from \in registry.stores /\ to \notin registry.stores /\ from = defaultName /\ from \in Names
      /\ registry \in Registries
  BY StoresServed DEF RenameDefault, RuntimeIInv, TypeOK
<1>2. /\ registry' = r /\ current' = r
      /\ entries' = [entries EXCEPT ![from] = None, ![to] = defaultEntry]
      /\ defaultEntry' = defaultEntry /\ defaultEntry = entries[from] /\ defaultEntry # None
      /\ defaultName' = to /\ defaultFile' = FileOf(r, to)
      /\ moved' = (moved \/ FileOf(r, to) # FileOf(registry, from))
      /\ UNCHANGED <<kind, files, touched, vectorBoot, releasing>> /\ Replace(registry, {}, {})
  BY <1>1, StoresServed DEF RenameDefault, boots
<1>3. /\ r.default = to /\ r.stores = kept \cup {to}
      /\ \A m \in kept : m \in Names /\ m # to /\ m # from /\ FileOf(r, m) = FileOf(registry, m)
  BY <1>1 DEF Renamed, Registries, FileOf
<1>. HIDE DEF r
<1>4. /\ entries'[to] = entries[from] /\ entries'[from] = None
      /\ \A m \in Names \ {from, to} : entries'[m] = entries[m]
  BY <1>1, <1>2 DEF RuntimeIInv, TypeOK
<1>5. ASSUME NEW m \in r.stores
      PROVE  entries'[m] # None /\ obj'[entries'[m]] = obj[entries[IF m = to THEN from ELSE m]]
  <2>1. entries'[m] = entries[IF m = to THEN from ELSE m] /\ (IF m = to THEN from ELSE m) \in registry.stores /\ m \in Names
    BY <1>1, <1>3, <1>4
  <2>2. entries'[m] # None /\ entries'[m] \in Objects
    BY <2>1, StoresServed
  <2>3. entries'[m] \in Reachable'
    BY <2>1, <2>2 DEF Reachable, InDirectory
  <2>. QED BY <1>2, <2>1, <2>2, <2>3 DEF Replace
<1>6. LiveAgrees'
  <2>1. ASSUME NEW m \in Names PROVE entries'[m] # None <=> m \in r.stores
    <3>1. CASE m = from
      <4>1. from \notin r.stores
        BY <1>1, <1>3
      <4>. QED BY <3>1, <4>1, <1>4
    <3>2. CASE m = to
      BY <3>2, <1>3, <1>5
    <3>3. CASE m \notin {from, to}
      BY <3>3, <1>3, <1>4, StoresServed
    <3>. QED BY <3>1, <3>2, <3>3
  <2>2. r.stores \subseteq Names
    BY <1>3
  <2>3. {m \in Names : entries'[m] # None} = r.stores
    BY <2>1, <2>2
  <2>. QED BY <2>3, <1>2, <1>3, <1>4 DEF LiveAgrees
<1>7. GuardKnowsFile'
  BY <1>2, <1>3 DEF GuardKnowsFile
<1>8. OneObjectPerStore'
  <2>. SUFFICES ASSUME NEW m \in r.stores, NEW n \in r.stores, entries'[m] = entries'[n] PROVE m = n
    BY <1>2 DEF OneObjectPerStore
  <2>1. \A x, y \in registry.stores : entries[x] = entries[y] => x = y
    BY DEF RuntimeIInv, Agreement, OneObjectPerStore
  <2>. QED BY <2>1, <1>1, <1>3, <1>4
<1>9. MemoryIsFile'
  <2>. SUFFICES ASSUME ~moved', NEW m \in r.stores
                PROVE  obj'[entries'[m]].file = FileOf(r, m) /\ obj'[entries'[m]].edits = files[FileOf(r, m)]
    BY <1>2 DEF MemoryIsFile
  <2>1. FileOf(r, m) = FileOf(registry, IF m = to THEN from ELSE m) /\ (IF m = to THEN from ELSE m) \in registry.stores /\ ~moved
    BY <1>1, <1>2, <1>3
  <2>. QED BY <2>1, <1>5 DEF RuntimeIInv, Agreement, MemoryIsFile
<1>10. EngineOfDefault'
  <2>1. ASSUME NEW m \in r.stores PROVE obj'[entries'[m]].engine = IF m = to THEN kind ELSE "lexical"
    <3>1. (IF m = to THEN from ELSE m) \in registry.stores /\ (m # to => m # from)
      BY <1>1, <1>3
    <3>. QED BY <3>1, <1>5 DEF RuntimeIInv, Agreement, EngineOfDefault
  <2>. QED BY <2>1, <1>2, <1>3 DEF RuntimeIInv, Agreement, EngineOfDefault
<1>. QED BY <1>6, <1>7, <1>8, <1>9, <1>10 DEF Agreement

\* An edit goes to the object of one store and to its file, which is no other store's.
LEMMA EditAgrees ==
  ASSUME RuntimeIInv, ~touched, NEW o \in Objects, Edit(o)
  PROVE  Agreement'
PROOF
<1>1. /\ obj' = [obj EXCEPT ![o].edits = @ \cup {edits + 1}] /\ files' = [files EXCEPT ![obj[o].file] = obj'[o].edits]
      /\ UNCHANGED <<kind, registry, entries, defaultName, defaultEntry, defaultFile, current, vectorBoot, releasing, touched, moved>>
  BY DEF Edit, boots
<1>2. PICK m \in registry.stores : o = entries[m]
  BY StoresServed DEF Edit, InDirectory
<1>3. obj[o] \in Stores
  BY <1>2, StoresServed
<1>4. ASSUME NEW n \in registry.stores
      PROVE  /\ obj'[entries[n]].file = obj[entries[n]].file /\ obj'[entries[n]].engine = obj[entries[n]].engine
             /\ n # m => obj'[entries[n]].edits = obj[entries[n]].edits
  <2>1. entries[n] \in Objects /\ (n # m => entries[n] # o)
    BY <1>2, StoresServed DEF RuntimeIInv, Agreement, OneObjectPerStore
  <2>2. obj'[o] = [obj[o] EXCEPT !.edits = @ \cup {edits + 1}]
    BY <1>1 DEF RuntimeIInv, TypeOK
  <2>3. CASE n = m
    BY <2>2, <2>3, <1>2, <1>3 DEF Stores
  <2>4. CASE n # m
    BY <2>1, <2>4, <1>1 DEF RuntimeIInv, TypeOK
  <2>. QED BY <2>3, <2>4
<1>5. LiveAgrees' /\ GuardKnowsFile' /\ OneObjectPerStore'
  BY <1>1 DEF LiveAgrees, GuardKnowsFile, OneObjectPerStore, RuntimeIInv, Agreement
<1>6. MemoryIsFile'
  <2>. SUFFICES ASSUME ~moved, NEW n \in registry.stores
                PROVE  obj'[entries[n]].file = FileOf(registry, n) /\ obj'[entries[n]].edits = files'[FileOf(registry, n)]
    BY <1>1 DEF MemoryIsFile
  <2>1. \A x \in registry.stores : obj[entries[x]].file = FileOf(registry, x) /\ obj[entries[x]].edits = files[FileOf(registry, x)]
    BY DEF RuntimeIInv, Agreement, MemoryIsFile
  <2>2. FileOf(registry, n) \in Files /\ files \in [Files -> SUBSET (1..MaxEdits)]
    BY FileOfType, StoresServed DEF RuntimeIInv, TypeOK
  <2>3. CASE n = m
    <3>1. obj[o].file = FileOf(registry, n) /\ entries[n] = o
      BY <2>1, <2>3, <1>2
    <3>2. files'[FileOf(registry, n)] = obj'[o].edits
      BY <3>1, <2>2, <1>1
    <3>. QED BY <3>1, <3>2, <2>1, <1>4
  <2>4. CASE n # m
    <3>1. obj[o].file # FileOf(registry, n)
      BY <2>1, <2>4, <1>2, StoresServed
    <3>2. files'[FileOf(registry, n)] = files[FileOf(registry, n)]
      BY <3>1, <2>2, <1>1
    <3>. QED BY <3>2, <2>1, <2>4, <1>4
  <2>. QED BY <2>3, <2>4
<1>7. EngineOfDefault'
  BY <1>1, <1>4 DEF EngineOfDefault, RuntimeIInv, Agreement
<1>. QED BY <1>5, <1>6, <1>7 DEF Agreement

LEMMA InitAgrees == Init => Agreement
PROOF
<1>. SUFFICES ASSUME Init PROVE Agreement
  OBVIOUS
<1>. USE DEF Init
<1>1. /\ files \in [Files -> SUBSET (1..MaxEdits)] /\ registry.default \in registry.stores /\ registry.stores \subseteq Names
  BY BootState
<1>2. \A n \in Names : entries[n] = IF n \in registry.stores THEN Fresh(n, {}) ELSE None
  BY DEF BootEntries
<1>3. \A n \in Names : Fresh(n, {}) # None /\ Fresh(n, {})[1] = n
  BY FreshAtBoot
<1>4. LiveAgrees
  BY <1>1, <1>2, <1>3 DEF LiveAgrees
<1>5. GuardKnowsFile
  BY DEF GuardKnowsFile
<1>6. OneObjectPerStore
  BY <1>1, <1>2, <1>3 DEF OneObjectPerStore
<1>7. MemoryIsFile
  <2>1. ASSUME NEW n \in registry.stores
        PROVE  obj[entries[n]].file = FileOf(registry, n) /\ obj[entries[n]].edits = files[FileOf(registry, n)]
    <3>1. entries[n] = Fresh(n, {}) /\ obj = BootObjects(kind, registry)
      BY <1>1, <1>2
    <3>2. /\ BootObjects(kind, registry)[Fresh(n, {})].file = FileOf(registry, n)
          /\ BootObjects(kind, registry)[Fresh(n, {})].edits = files[FileOf(registry, n)]
      <4>1. kind \in {"lexical", "vector"} /\ registry \in Registries
        OBVIOUS
      <4>. HIDE DEF Init
      <4>. QED BY <1>1, <4>1, BootState
    <3>. QED BY <3>1, <3>2
  <2>. QED BY <2>1 DEF MemoryIsFile
<1>8. EngineOfDefault
  BY <1>1, <1>2, BootState DEF EngineOfDefault
<1>. QED BY <1>4, <1>5, <1>6, <1>7, <1>8 DEF Agreement

LEMMA RestartAgrees ==
  ASSUME TypeOK, Restart
  PROVE  Agreement'
PROOF
<1>. USE DEF Restart
<1>1. /\ files \in [Files -> SUBSET (1..MaxEdits)] /\ registry \in Registries /\ kind' \in {"lexical", "vector"}
      /\ registry.default \in registry.stores /\ registry.stores \subseteq Names
      /\ UNCHANGED <<registry, files>>
  BY BootState DEF TypeOK, disk
<1>2. \A n \in Names : entries'[n] = IF n \in registry.stores THEN Fresh(n, {}) ELSE None
  BY DEF BootEntries
<1>3. \A n \in Names : Fresh(n, {}) # None /\ Fresh(n, {})[1] = n
  BY FreshAtBoot
<1>4. LiveAgrees'
  BY <1>1, <1>2, <1>3 DEF LiveAgrees
<1>5. GuardKnowsFile'
  BY <1>1 DEF GuardKnowsFile
<1>6. OneObjectPerStore'
  BY <1>1, <1>2, <1>3 DEF OneObjectPerStore
<1>7. MemoryIsFile'
  <2>. SUFFICES ASSUME NEW n \in registry.stores
                PROVE  obj'[entries'[n]].file = FileOf(registry, n) /\ obj'[entries'[n]].edits = files[FileOf(registry, n)]
    BY <1>1 DEF MemoryIsFile
  <2>. QED BY <1>1, <1>2, BootState
<1>8. EngineOfDefault'
  <2>1. ASSUME NEW n \in registry.stores PROVE obj'[entries'[n]].engine = IF n = registry.default THEN kind' ELSE "lexical"
    BY <1>1, <1>2, BootState
  <2>. QED BY <1>1, <2>1, BootState DEF EngineOfDefault
<1>. QED BY <1>4, <1>5, <1>6, <1>7, <1>8 DEF Agreement

LEMMA Agrees == Spec => []RuntimeIInv
PROOF
<1>1. Init => RuntimeIInv
  BY InitType, InitAgrees DEF RuntimeIInv
<1>2. ASSUME RuntimeIInv, Next, TypeOK' PROVE RuntimeIInv'
  <2>1. CASE Restart
    BY <1>2, <2>1, RestartAgrees DEF RuntimeIInv
  <2>2. CASE Touch
    BY <1>2, <2>2 DEF Touch, RuntimeIInv, Agreement
  <2>3. CASE ~Restart /\ ~Touch
    <3>1. CASE touched
      <4>1. UNCHANGED touched
        BY <1>2, <2>3 DEF Next, Apply, Add, Remove, Rename, HotApply, SetDefault, Reassigned, RenameDefault, Edit
      <4>. QED BY <1>2, <3>1, <4>1 DEF RuntimeIInv, Agreement
    <3>2. CASE ~touched
      BY <1>2, <2>3, <3>2, ApplyAgrees, SetDefaultAgrees, ReassignedAgrees, RenameDefaultAgrees, EditAgrees DEF Next, RuntimeIInv
    <3>. QED BY <3>1, <3>2
  <2>. QED BY <2>1, <2>2, <2>3
<1>3. RuntimeIInv /\ TypeOK' /\ UNCHANGED vars => RuntimeIInv'
  BY DEF RuntimeIInv, Agreement, LiveAgrees, GuardKnowsFile, OneObjectPerStore, MemoryIsFile, EngineOfDefault,
         vars, disk, live, boots
<1>. QED BY TypeCorrect, <1>1, <1>2, <1>3, PTL DEF Spec

----------------------------------------------------------------------------
(* The directory after an edit of the file                                 *)

\* The directory is made of the file, but for a default that is not in it.
DirectoryIsFile ==
  /\ {n \in Names : entries[n] # None} \cup {defaultName} = registry.stores
  /\ defaultName = registry.default
  /\ current = registry

Follows == (unread => touched) /\ (~unread => DirectoryIsFile)

\* An operation that writes the list of stores makes the directory of the file, whatever it was made of.
LEMMA HotApplyFollows ==
  ASSUME TypeOK, NEW r \in Registries, HotApply(r)
  PROVE  Follows'
PROOF
<1>1. registry' = r /\ current' = r /\ unread' = FALSE /\ (IF Stable(r) THEN Carry(r) ELSE Rebuild(r))
  BY DEF HotApply
<1>2. r.default \in r.stores /\ r.stores \subseteq Names
  BY DEF Registries, Valid
<1>3. {n \in Names : entries'[n] # None} \cup {defaultName'} = r.stores /\ defaultName' = r.default
  <2>1. CASE Stable(r)
    <3>. DEFINE S == r.stores \ {r.default}
                stay == Held \cup {entries[defaultName]}
    <3>1. /\ entries' = [n \in Names |-> IF n \in S THEN Fresh(n, stay) ELSE IF n = defaultName THEN entries[n] ELSE None]
          /\ defaultName' = defaultName /\ defaultName = r.default
      BY <1>1, <2>1 DEF Carry, Stable
    <3>2. \A n \in S : n \in Names /\ n # defaultName /\ Fresh(n, stay) # None
      <4>1. stay \in SUBSET (Held \cup {entries[defaultName]})
        OBVIOUS
      <4>. HIDE DEF stay
      <4>. QED BY <1>2, <3>1, <4>1, FreshIsNew
    <3>. HIDE DEF stay
    <3>. QED BY <1>2, <3>1, <3>2
  <2>2. CASE ~Stable(r)
    <3>1. entries' = [n \in Names |-> IF n \in r.stores THEN Fresh(n, Held) ELSE None] /\ defaultName' = r.default
      BY <1>1, <2>2 DEF Rebuild
    <3>2. \A n \in r.stores : n \in Names /\ Fresh(n, Held) # None
      BY <1>2, FreshIsNew
    <3>. QED BY <1>2, <3>1, <3>2
  <2>. QED BY <2>1, <2>2
<1>. QED BY <1>1, <1>3 DEF Follows, DirectoryIsFile

LEMMA ApplyFollows == TypeOK /\ Apply => Follows'
PROOF
<1>. SUFFICES ASSUME TypeOK, Apply PROVE Follows'
  OBVIOUS
<1>1. PICK r :
        /\ HotApply(r)
        /\ \/ \E n \in Names : (n \notin registry.stores /\ r = With(registry, n))
           \/ \E n \in Names : (n # current.default /\ r = Without(registry, n))
           \/ \E from, to \in Names : (to \notin registry.stores /\ r = Renamed(registry, from, to))
  BY DEF Apply, Add, Remove, Rename
<1>2. registry' = r /\ registry \in Registries
  BY <1>1 DEF HotApply, TypeOK
<1>3. r \in Registries
  BY <1>2, ApplyType DEF TypeOK
<1>. QED BY <1>1, <1>3, HotApplyFollows

\* A reassignment and a rename of the default change the default in the file and in the directory.
LEMMA SetDefaultFollows ==
  ASSUME RuntimeIInv, Follows, NEW n \in Names, SetDefault(n)
  PROVE  Follows'
PROOF
<1>1. /\ n \in registry.stores /\ registry' = [registry EXCEPT !.default = n] /\ current' = registry'
      /\ defaultName' = n /\ entries' = entries /\ unread' = (unread \/ entries[defaultName] = None) /\ touched' = touched
  BY DEF SetDefault
<1>2. registry'.stores = registry.stores /\ registry'.default = n
  BY <1>1 DEF RuntimeIInv, TypeOK, Registries
<1>3. ~touched => entries[defaultName] # None
  <2>. SUFFICES ASSUME ~touched PROVE entries[defaultName] # None
    OBVIOUS
  <2>1. defaultName = registry.default
    BY DEF RuntimeIInv, Agreement, LiveAgrees
  <2>. QED BY <2>1, StoresServed
<1>4. unread' => touched'
  BY <1>1, <1>3 DEF Follows
<1>5. ASSUME ~unread' PROVE DirectoryIsFile'
  <2>1. DirectoryIsFile /\ entries[defaultName] # None /\ defaultName \in Names
    BY <1>1, <1>5 DEF Follows, RuntimeIInv, TypeOK
  <2>2. {m \in Names : entries[m] # None} = registry.stores
    BY <2>1 DEF DirectoryIsFile
  <2>. QED BY <1>1, <1>2, <2>2 DEF DirectoryIsFile
<1>. QED BY <1>4, <1>5 DEF Follows

LEMMA RenameDefaultFollows ==
  ASSUME TypeOK, Follows, NEW to \in Names, RenameDefault(to)
  PROVE  Follows'
PROOF
<1>. DEFINE r == Renamed(registry, registry.default, to)
<1>1. registry' = r /\ current' = r /\ touched' = touched /\ to \notin registry.stores /\ registry' \in Registries
  BY RenameDefaultType DEF RenameDefault, TypeOK
<1>2. r.stores = (registry.stores \ {registry.default}) \cup {to} /\ r.default = to
  BY DEF Renamed
<1>. HIDE DEF r
<1>3. CASE registry.default # defaultName
  <2>1. /\ entries' = [n \in Names |-> IF n \in r.stores THEN Fresh(n, Held) ELSE None]
        /\ defaultName' = r.default /\ unread' = FALSE
    BY <1>3 DEF RenameDefault, Rebuild, r
  <2>2. r.default \in r.stores /\ r.stores \subseteq Names
    BY <1>1 DEF Registries, Valid
  <2>3. \A n \in r.stores : n \in Names /\ Fresh(n, Held) # None
    BY <2>2, FreshIsNew
  <2>4. {n \in Names : entries'[n] # None} \cup {defaultName'} = r.stores
    BY <2>1, <2>2, <2>3
  <2>. QED BY <1>1, <2>1, <2>4 DEF Follows, DirectoryIsFile
<1>4. CASE registry.default = defaultName
  <2>1. /\ entries' = [entries EXCEPT ![defaultName] = None, ![to] = entries[defaultName]]
        /\ defaultName' = to /\ unread' = unread
    BY <1>4 DEF RenameDefault
  <2>2. ASSUME ~unread PROVE DirectoryIsFile'
    <3>1. {n \in Names : entries[n] # None} \cup {defaultName} = registry.stores
      BY <2>2 DEF Follows, DirectoryIsFile
    <3>2. \A n \in Names : entries'[n] = IF n = to THEN entries[defaultName] ELSE IF n = defaultName THEN None ELSE entries[n]
      BY <2>1 DEF TypeOK
    <3>3. {n \in Names : entries'[n] # None} \cup {to} = r.stores
      BY <1>1, <1>2, <1>4, <3>1, <3>2
    <3>. QED BY <1>1, <1>2, <2>1, <3>3 DEF DirectoryIsFile
  <2>. QED BY <1>1, <2>1, <2>2 DEF Follows
<1>. QED BY <1>3, <1>4

LEMMA RestartFollows == TypeOK /\ Restart => Follows'
PROOF
<1>. SUFFICES ASSUME TypeOK, Restart PROVE Follows'
  OBVIOUS
<1>1. TypeOK' /\ LiveAgrees' /\ ~touched' /\ ~unread'
  BY RestartAgrees, RestartType DEF Agreement, Restart
<1>. QED BY <1>1 DEF LiveAgrees, Follows, DirectoryIsFile, TypeOK, Registries, Valid

\* Whatever the operator does through the program, with any stores and paths: the directory has the names and the
\* default of the registry file, and one object serves the default to the page and to the tools; after an edit of
\* the file by hand the directory has them again from the next change of the list of stores on.
THEOREM LiveFollowsRegistry == Spec => []LiveIsRegistry
PROOF
<1>1. Init => Follows
  <2>. SUFFICES ASSUME Init PROVE Follows
    OBVIOUS
  <2>1. TypeOK /\ LiveAgrees /\ ~touched /\ ~unread
    BY InitType, InitAgrees DEF Agreement, Init
  <2>. QED BY <2>1 DEF LiveAgrees, Follows, DirectoryIsFile, TypeOK, Registries, Valid
<1>2. ASSUME RuntimeIInv, Follows, Next PROVE Follows'
  <2>1. CASE Apply
    BY <1>2, <2>1, ApplyFollows DEF RuntimeIInv
  <2>2. CASE Reassigned \/ \E o \in Objects : Edit(o)
    BY <1>2, <2>2 DEF Reassigned, Edit, Follows, DirectoryIsFile, disk
  <2>3. CASE Touch
    BY <1>2, <2>3 DEF Touch, Follows
  <2>. QED BY <1>2, <2>1, <2>2, <2>3, SetDefaultFollows, RenameDefaultFollows, RestartFollows DEF Next, RuntimeIInv
<1>3. Follows /\ UNCHANGED vars => Follows'
  BY DEF Follows, DirectoryIsFile, vars, disk, live
<1>4. ASSUME RuntimeIInv, Follows PROVE LiveIsRegistry
  <2>1. ~touched => defaultEntry = entries[defaultName]
    BY <1>4 DEF RuntimeIInv, Agreement, LiveAgrees
  <2>. QED BY <1>4, <2>1 DEF Follows, DirectoryIsFile, LiveIsRegistry
<1>. QED BY Agrees, <1>1, <1>2, <1>3, <1>4, PTL DEF Spec

\* Each store holds in memory what a restart would read under its name, until the default is renamed off its file.
THEOREM RestartReadsMemory == Spec => []PersistedIsLiveUnlessMoved
PROOF
<1>1. RuntimeIInv => PersistedIsLiveUnlessMoved
  BY DEF RuntimeIInv, Agreement, MemoryIsFile, PersistedIsLiveUnlessMoved
<1>. QED BY <1>1, Agrees, PTL

\* The default, and no other store, is served by the vector engine, and it is the one of the current boot.
THEOREM VectorServesDefault == Spec => []OnlyDefaultIsVector
PROOF
<1>1. ASSUME RuntimeIInv PROVE OnlyDefaultIsVector
  <2>. SUFFICES ASSUME ~touched, NEW n \in registry.stores
                PROVE  obj[entries[n]].engine = "vector" <=> (vectorBoot # None /\ vectorBoot.store = entries[n])
    BY DEF OnlyDefaultIsVector
  <2>1. EngineOfDefault /\ OneObjectPerStore
    BY <1>1 DEF RuntimeIInv, Agreement
  <2>2. entries[n] = defaultEntry <=> n = registry.default
    BY <1>1, <2>1, StoresServed DEF OneObjectPerStore
  <2>. QED BY <2>1, <2>2 DEF EngineOfDefault
<1>. QED BY <1>1, Agrees, PTL
=============================================================================
