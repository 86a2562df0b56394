----------------------------- MODULE LyricsEditor -----------------------------
(***************************************************************************)
(* The state behind one editor page: what is shown, the snapshots that     *)
(* undo and redo walk over, what counts as saved, and a save whose answer  *)
(* arrives while the page is edited on. Each handler reads the state of    *)
(* the last rendering, so a step is one handler.                           *)
(***************************************************************************)
EXTENDS Integers, Sequences

CONSTANTS Texts,         \* states of the lyrics: lines, times and marks
          HistoryLimit   \* snapshots that are kept

ASSUME HistoryAssumption == HistoryLimit \in Nat /\ HistoryLimit >= 2

VARIABLES shown,    \* the form's lyrics
          past,     \* history
          at,       \* historyIndex, counted from 1
          clean,    \* the form's default: isDirty compares with it
          stored,   \* what the server has
          save      \* the save under way

pageVars == <<shown, past, at, clean, stored, save>>

\* told: what the server has is what the page believes it has, because no
\* answer of a stored save was lost.
Saves == [state : {"none", "sent", "stored"}, sent : Texts, told : BOOLEAN]

PageTypeOK ==
    /\ shown \in Texts /\ clean \in Texts /\ stored \in Texts
    /\ past \in Seq(Texts) /\ at \in DOMAIN past /\ Len(past) <= HistoryLimit
    /\ save \in Saves

PageInit ==
    \E t \in Texts :
       /\ shown = t /\ clean = t /\ stored = t
       /\ past = <<t>> /\ at = 1
       /\ save = [state |-> "none", sent |-> t, told |-> TRUE]

\* Fault: what was undone stays behind the new snapshot's back.
SnapshotsKeptFault(t) == Append(past, t)
\* saveToHistory: what was undone is forgotten, and the oldest over the limit.
Snapshots(t) ==
    LET kept == Append(SubSeq(past, 1, at), t)
    IN IF Len(kept) > HistoryLimit THEN Tail(kept) ELSE kept

\* Each handler that edits sets the form and saves the same lyrics to the
\* history: updateLine, captureTime, addExtraLine, deleteLine, addSegmentToExtra,
\* removeSegmentFromExtra, importLyrics, applyGlobalOffset, editNote,
\* editSelection. Some do so when nothing changes.
Edit(t) ==
    /\ shown' = t
    /\ past' = Snapshots(t) /\ at' = Len(past')
    /\ UNCHANGED <<clean, stored, save>>

Walk(i) ==
    /\ i \in DOMAIN past
    /\ at' = i /\ shown' = past[i]
    /\ UNCHANGED <<past, clean, stored, save>>

Undo == Walk(at - 1)
Redo == Walk(at + 1)

\* handleSave: one at a time, with the lyrics it was called with.
SendSave ==
    /\ save.state = "none"
    /\ save' = [save EXCEPT !.state = "sent", !.sent = shown]
    /\ UNCHANGED <<shown, past, at, clean, stored>>

SaveStored ==
    /\ save.state = "sent"
    /\ stored' = save.sent /\ save' = [save EXCEPT !.state = "stored"]
    /\ UNCHANGED <<shown, past, at, clean>>

\* Fault: what is shown by now counts as saved.
ShownFault == shown
\* What the call was made with.
Confirmed == save.sent

\* markSaved: the form's default is what was sent; edits since stay shown.
MarkSaved ==
    /\ save.state = "stored"
    /\ clean' = Confirmed
    /\ save' = [save EXCEPT !.state = "none", !.told = TRUE]
    /\ UNCHANGED <<shown, past, at, stored>>

\* The save is refused, or its answer lost.
SaveFails ==
    /\ save.state # "none"
    /\ save' = [save EXCEPT !.state = "none", !.told = @ /\ save.state = "sent"]
    /\ UNCHANGED <<shown, past, at, clean, stored>>

PageNext ==
    \/ \E t \in Texts : Edit(t)
    \/ Undo \/ Redo \/ SendSave \/ SaveStored \/ MarkSaved \/ SaveFails

PageSpec == PageInit /\ [][PageNext]_pageVars

-----------------------------------------------------------------------------
(* Properties.                                                             *)

\* What is shown is the snapshot the history points to, and a page that shows no
\* unsaved change shows what the server has, unless an answer was lost.
PageTrue ==
    /\ at \in DOMAIN past /\ Len(past) <= HistoryLimit /\ shown = past[at]
    /\ (save.state # "stored" /\ save.told /\ shown = clean) => shown = stored

\* No edit is lost to undo: whatever replaces what is shown, except a walk, is
\* the newest snapshot and has what it replaced right before it. Saving, and its
\* answer during further edits, replace nothing.
EditsUndoable ==
    [][/\ shown' # shown =>
            \/ past' = past /\ at' \in {at - 1, at + 1}
            \/ /\ at' = Len(past') /\ at' >= 2
               /\ past'[at'] = shown' /\ past'[at' - 1] = shown
       /\ clean' # clean => clean' = stored]_pageVars

=============================================================================
