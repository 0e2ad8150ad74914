--------------------------- MODULE StagedEditing ----------------------------
(***************************************************************************)
(* What the edit session promises to the expert, whatever the files,       *)
(* fingerprints, snapshots, receipts and crashes underneath: the library   *)
(* says what was saved last; edits collect in a draft that survives        *)
(* restarts; the draft ends only by being saved, by being discarded, or by *)
(* being set aside whole where it can still be found.                      *)
(***************************************************************************)
CONSTANTS Object, Text

VARIABLES
  saved,     \* what the library says of each object
  draft,     \* what the editor shows of each object
  touched,   \* whether the draft holds edits that are nowhere else
  ending,    \* a save, a discard or an import is being completed
  kept,      \* drafts that were set aside
  disturbed  \* whether the library was changed behind the editor

stagingVars == <<saved, draft, touched, ending, kept, disturbed>>

Library == [Object -> Text]

Init ==
  /\ saved \in Library /\ draft = saved
  /\ touched = FALSE /\ ending = FALSE
  /\ kept = {} /\ disturbed = FALSE

(* An edit, an undo or a redo.                                             *)
Edit ==
  /\ ~ending
  /\ draft' \in Library /\ touched' \in BOOLEAN
  /\ UNCHANGED <<saved, ending, kept, disturbed>>

Save ==
  /\ ~ending
  /\ saved' = draft /\ touched' = FALSE
  /\ ending' = TRUE
  /\ UNCHANGED <<draft, kept, disturbed>>

Discard ==
  /\ ~ending
  /\ ending' = TRUE
  /\ UNCHANGED <<saved, draft, touched, kept, disturbed>>

(* Another source adds to the library, while there is nothing to lose.     *)
Import ==
  /\ ~ending /\ ~touched
  /\ saved' \in Library
  /\ ending' = TRUE
  /\ UNCHANGED <<draft, touched, kept, disturbed>>

Finish ==
  /\ ending
  /\ draft' = saved /\ touched' = FALSE
  /\ ending' = FALSE
  /\ UNCHANGED <<saved, kept, disturbed>>

(* The process ends before that; the request counts as not made, except    *)
(* for what was saved.                                                     *)
Interrupt ==
  /\ ending
  /\ ending' = FALSE
  /\ UNCHANGED <<saved, draft, touched, kept, disturbed>>

(* The library changes behind the editor.                                  *)
ChangeOutside ==
  /\ ~ending
  /\ disturbed' = TRUE
  /\ saved' \in Library
  /\ draft' = draft \/ (draft = saved /\ draft' = saved')
  /\ touched' \in BOOLEAN
  /\ UNCHANGED <<ending, kept>>

(* Only after such a change are edits put aside; a draft without any may be *)
(* renewed.                                                                *)
SetAside ==
  /\ ~ending
  /\ touched => disturbed
  /\ kept' = kept \cup {draft}
  /\ draft' = saved /\ touched' = FALSE
  /\ UNCHANGED <<saved, ending, disturbed>>

Next ==
  \/ Edit \/ Save \/ Discard \/ Import \/ Finish
  \/ Interrupt \/ ChangeOutside \/ SetAside

Spec == Init /\ [][Next]_stagingVars
=============================================================================
