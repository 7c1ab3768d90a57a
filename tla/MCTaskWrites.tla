---------------------------- MODULE MCTaskWrites ----------------------------
(***************************************************************************)
(* A small instance of TaskWrites: tasks titled "report", one of them with *)
(* notes "a draft", and one titled "report draft".  The text "report" is   *)
(* the title of some and appears in every title; "draft" appears in one    *)
(* title and in the notes.                                                 *)
(***************************************************************************)
EXTENDS TaskWrites

CONSTANT home

Appears == [report |-> {"report", "report draft"}, draft |-> {"report draft", "a draft"}]

Create(t, n, p) == [title |-> t, notes |-> n, project |-> p]
SomeCreates == {Create("report", NoNotes, home), Create("report", "a draft", NoProject),
                Create("report draft", NoNotes, home), Create("report", NoNotes, NoProject),
                Create(Refused, NoNotes, home)}

Edit(t, n, s, p) == [title |-> t, notes |-> n, status |-> s, project |-> p]
SomeEdits == {Edit(Keep, Keep, "done", Keep), Edit("report", NoNotes, Keep, Keep),
              Edit(Keep, "a draft", "open", NoProject), Edit(Keep, Refused, "done", home)}
=============================================================================
