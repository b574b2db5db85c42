----------------------------- MODULE UndoHistory -----------------------------
(***************************************************************************)
(* What an undoable, persisted store promises: the contents it went        *)
(* through lie on a timeline, the present is one point of it, undo and     *)
(* redo move one point back and forth, a new write forgets the future (and *)
(* perhaps the most distant past), and after a crash the store is where it *)
(* last saved itself, with the history it had then.                        *)
(***************************************************************************)
EXTENDS Integers, Sequences

CONSTANTS Depth, Blank     \* undo steps remembered; the first content

VARIABLES now, timeline, pos, saved

hvars == <<now, timeline, pos, saved>>

Present == [timeline |-> timeline, pos |-> pos]

MaySave == saved' \in {saved, Present'}

Init ==
  /\ now = Blank
  /\ timeline = <<Blank>>
  /\ pos = 1
  /\ saved = Present

\* One write: `lost' points of the past are forgotten, the past from there to
\* the present stays as it was, the points after it are new.
Write ==
  /\ \E lost \in 0..pos :
       /\ Len(timeline') >= pos - lost
       /\ SubSeq(timeline', 1, pos - lost) = SubSeq(timeline, lost + 1, pos)
       /\ lost > 0 => Len(timeline') = Depth + 1
  /\ Len(timeline') \in 1..(Depth + 1)
  /\ pos' = Len(timeline')
  /\ now' = timeline'[pos']
  /\ MaySave

MoveTo(p) ==
  /\ p \in 1..Len(timeline)
  /\ pos' = p
  /\ now' = timeline[p]
  /\ UNCHANGED timeline
  /\ MaySave

Undo  == MoveTo(pos - 1)
Redo  == MoveTo(pos + 1)

Crash ==
  /\ timeline' = saved.timeline
  /\ pos' = saved.pos
  /\ now' = timeline'[pos']
  /\ UNCHANGED saved

Next == Write \/ Undo \/ Redo \/ Crash

Spec == Init /\ [][Next]_hvars
=============================================================================
