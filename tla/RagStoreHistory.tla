--------------------------- MODULE RagStoreHistory ---------------------------
(***************************************************************************)
(* RagStore with a history variable: the contents between the entries of   *)
(* the journal, in memory and in the file.  With it, the journal of        *)
(* inverse operations is shown to implement UndoHistory.                   *)
(***************************************************************************)
EXTENDS RagStore

VARIABLES
  timeline,      \* timeline[i + 1] is the content after entry i of the journal
  savedTimeline  \* the same for the journal in the file

historyVars == <<vars, timeline, savedTimeline>>

\* What undo and redo restore: the nodes, and of an edge all but its state,
\* which an entry for a change of the role or of the ends does not keep.
LinkOf(v) == [source |-> v.source, target |-> v.target, role |-> v.role]
Content(d) ==
  [nodes |-> View(d).nodes,
   links |-> [e \in {x \in EdgeIds : ActiveEdge(d, x)} |-> LinkOf(d.edges[e])]]

\* One entry per content of `contents' was pushed behind entry c.
Extended(t, c, contents) ==
  LET full   == SubSeq(t, 1, c + 1) \o contents
      excess == IF Len(full) > MaxJournal + 1 THEN Len(full) - (MaxJournal + 1) ELSE 0
  IN SubSeq(full, excess + 1, Len(full))
Extend(contents) == timeline' = Extended(timeline, cursor, contents)

Save ==
  savedTimeline' = IF disk' = Image(db', journal', cursor') THEN timeline' ELSE savedTimeline

\* The contents a node removal passes through, one per entry it journals.
RemovalContents(n, order) ==
  [i \in DOMAIN order |-> Content(DropEdges(db, {order[k] : k \in 1..i}))] \o <<Content(DropNode(db, n))>>

Stay == UNCHANGED <<timeline, savedTimeline>>

HistoryInit ==
  /\ Init
  /\ timeline = <<Content(EmptyDb)>>
  /\ savedTimeline = timeline

HistoryNext ==
  \/ /\ \/ \E n \in NodeIds, v \in NodeVals : PutNode(n, v)
        \/ \E e \in EdgeIds : RemoveEdge(e)
        \/ BatchCommit
     /\ Extend(<<Content(db')>>)
     /\ Save
  \/ \E e \in EdgeIds, v \in EdgeVals :
       /\ PutEdge(e, v)
       /\ IF EndpointsActive(db, v) THEN Extend(<<Content(db')>>) /\ Save ELSE Stay
  \/ \E n \in NodeIds : \E order \in Orders(Touching(db, n)) :
       /\ RemoveNode(n, order)
       /\ Extend(RemovalContents(n, order))
       /\ Save
  \/ /\ Undo \/ Redo \/ ReplayEnd
     /\ UNCHANGED timeline
     /\ Save
  \/ /\ \/ BatchBegin
        \/ BatchStep
        \/ BatchFail
        \/ UndoBatch
        \/ RedoBatch
        \/ ReplayOp
        \/ ReplayFail
        \/ QueryEdges
     /\ Stay
  \/ /\ Reopen
     /\ timeline' = savedTimeline
     /\ UNCHANGED savedTimeline

HistorySpec == HistoryInit /\ [][HistoryNext]_historyVars

-----------------------------------------------------------------------------

\* Inside a loop the maps are between two contents; callers see them again
\* only when it is over.
History == INSTANCE UndoHistory WITH
  Depth    <- MaxJournal,
  Blank    <- Content(EmptyDb),
  now      <- IF task = Idle THEN Content(db) ELSE timeline[cursor + 1],
  pos      <- cursor + 1,
  saved    <- [timeline |-> savedTimeline, pos |-> disk.cursor + 1]

\* Every handler of the store is a step of the undo history or changes nothing
\* a caller sees: undo restores exactly the previous content and redo exactly
\* the undone one, a batch is one step or none, a removal with its cascade can
\* be taken back, a crash returns to the last content written, with its
\* history.
ImplementsUndoHistory == History!Spec

\* The file always holds one content of the timeline and the journal that
\* leads to it: no write falls inside a batch, or between the maps and the
\* cursor.
FileIsOnePoint ==
  Content(Load(disk)) = savedTimeline[disk.cursor + 1]
=============================================================================
