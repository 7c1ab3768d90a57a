-------------------------- MODULE WorkspaceSeeding --------------------------
(***************************************************************************)
(* What the seed command promises the owner of a workspace: the demo rows  *)
(* are replaced all at once or not at all, the owner's other rows are left *)
(* alone, "seeded" is reported only of a workspace that was stored, and a  *)
(* refusal only when nothing was.  The owner may edit or delete tasks      *)
(* meanwhile, and such an edit may carry an older version of the one task  *)
(* it edits.  DemoSeed implements this.                                    *)
(***************************************************************************)
CONSTANTS
  Commands,  \* the runs of the seed command
  AnchorOf,  \* the anchor date of each run
  None,      \* no anchor, no edit
  Demo,      \* the demo rows
  Editable,  \* the rows an owner can edit and delete: the tasks, demo or not
  Edits      \* the edits that can ever be made

VARIABLES
  rows,    \* the workspace: what each row holds
  stored,  \* the commands whose demo rows were stored
  told     \* what each command reported

vars == <<rows, stored, told>>

Anchors == {AnchorOf[p] : p \in Commands}

\* A row is there or not; it derives from a seeding or not, and was edited or not.
Contents == [present : BOOLEAN, anchor : Anchors \cup {None}, edit : Edits \cup {None}]

Seeded(p) == [present |-> TRUE, anchor |-> AnchorOf[p], edit |-> None]

Pending(p) == told[p] = "none"

Init ==
  /\ rows \in [Demo \cup Editable -> Contents]
  /\ \A i \in DOMAIN rows : rows[i].anchor = None
  /\ stored = {}
  /\ told = [p \in Commands |-> "none"]

\* The whole demo workspace of a command appears in one step, again perhaps when
\* the command does not learn that it did.
Store(p) ==
  /\ Pending(p)
  /\ rows' = [i \in DOMAIN rows |-> IF i \in Demo THEN Seeded(p) ELSE rows[i]]
  /\ stored' = stored \cup {p}

Rest == UNCHANGED <<rows, stored>>

\* A command stores its rows, reports, or does both in the step that ends it.
Run(p) ==
  /\ Store(p) \/ Rest
  /\ \/ UNCHANGED told
     \/ /\ Pending(p)
        /\ \E r \in {"seeded", "refused", "unknown"} :
             /\ r = "seeded" => p \in stored'
             /\ r = "refused" => p \notin stored'
             /\ told' = [told EXCEPT ![p] = r]

\* The owner changes or deletes one task.  What it then holds derives from no
\* seeding that was not stored.
Edit(i) ==
  /\ \E c \in Contents :
       /\ c.anchor # None => \E p \in stored : c.anchor = AnchorOf[p]
       /\ rows' = [rows EXCEPT ![i] = c]
  /\ UNCHANGED <<stored, told>>

Next == (\E p \in Commands : Run(p)) \/ (\E i \in Editable : Edit(i))

Spec == Init /\ [][Next]_vars
=============================================================================
