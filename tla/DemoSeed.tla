------------------------------ MODULE DemoSeed ------------------------------
(***************************************************************************)
(* The seed command: a process opens its connection, finds the user of its *)
(* token, writes every row of the demo workspace in one transaction, and   *)
(* closes the connection.  Several commands can run at once for one user,  *)
(* with anchors of their own, beside edits and deletions by that user,     *)
(* each of which reads a task and later writes the whole row.              *)
(*                                                                         *)
(* Demo rows are numbered in the order their statements run: the projects, *)
(* then the tasks.  Rows have stable ids, so that another seeding writes   *)
(* the same ones.  What a row holds is told by the anchor it was laid out  *)
(* around and by the last edit; DemoWorkspace tells how it is laid out.    *)
(***************************************************************************)
EXTENDS Connection

CONSTANTS
  AnchorOf,     \* the anchor date of each command
  None,         \* no anchor, no edit
  Projects,     \* number of demo projects
  Tasks,        \* number of demo tasks
  Own,          \* the owner's tasks that are not demo tasks
  Edits,        \* the edits and deletions that are ever made
  MaxAttempts   \* how often the driver runs a transaction before giving up

Demo == 1..Projects + Tasks
Editable == (Projects + 1..Projects + Tasks) \cup Own

ASSUME SeedAssumption ==
  /\ Projects \in Nat /\ Tasks \in Nat \ {0}
  /\ Own \cap Demo = {}
  /\ None \notin Edits
  /\ \A p \in Commands : AnchorOf[p] # None
  /\ MaxAttempts \in Nat \ {0}

VARIABLES
  rows,     \* the workspace: what each row holds
  stored,   \* history variable: the commands whose transaction took effect
  at,       \* where the work of each command is
  written,  \* statements of the transaction run so far
  runs,     \* runs of the transaction so far
  refusals, \* the commands that have printed why they refuse
  edits     \* where each edit is, and the row it has read

work == <<at, written, runs>>
vars == <<connection, rows, stored, work, refusals, edits>>

Anchors == {AnchorOf[p] : p \in Commands}
Contents == [present : BOOLEAN, anchor : Anchors \cup {None}, edit : Edits \cup {None}]
Absent == [present |-> FALSE, anchor |-> None, edit |-> None]
Untouched == [present |-> TRUE, anchor |-> None, edit |-> None]
Seeded(p) == [present |-> TRUE, anchor |-> AnchorOf[p], edit |-> None]

\* An edit that holds no copy of a row, before and after it is made.
Idle(place) == [at |-> place, row |-> 0, content |-> Absent]
Works == {"none", "resolving", "beginning", "writing", "committing"}

-----------------------------------------------------------------------------
Init ==
  /\ ConnectionInit
  /\ rows = [i \in Demo \cup Own |-> IF i \in Own THEN Untouched ELSE Absent]
  /\ stored = {}
  /\ at = [p \in Commands |-> "none"]
  /\ written = [p \in Commands |-> 0]
  /\ runs = [p \in Commands |-> 0]
  /\ refusals = {}
  /\ edits = [e \in Edits |-> Idle("to come")]

At(p, place) == In(p, "using") /\ at[p] = place
Goto(p, place) == at' = [at EXCEPT ![p] = place]

\* Nothing is left of the work of a command.
Drop(p) ==
  /\ Goto(p, "none")
  /\ written' = [written EXCEPT ![p] = 0]
  /\ runs' = [runs EXCEPT ![p] = 0]

\* The work of a command ends, and its connection is closed.
Finish(p, how) == Drop(p) /\ Leave(p, how)

\* The work goes on.
GoOn(p, place) == Goto(p, place) /\ UNCHANGED connection

\* The command prints why it refuses, before its connection is closed.
Refuse(p) == Finish(p, "refused") /\ refusals' = refusals \cup {p}

\* The transaction of the command takes effect.
Take(p) ==
  /\ rows' = [i \in DOMAIN rows |-> IF i \in Demo THEN Seeded(p) ELSE rows[i]]
  /\ stored' = stored \cup {p}

Nothing == UNCHANGED <<rows, stored>>

\* A mistake a checked property tells from the code: every error is given all of
\* the attempts anew.
AlwaysReplay(p) ==
  /\ GoOn(p, "beginning")
  /\ runs' = [runs EXCEPT ![p] = 0]
  /\ UNCHANGED written

\* retry_tx_async runs the transaction anew after an error of the driver's own, or
\* gives up, which execute_in_transaction reports as PersistenceError.
ReplayOrGiveUp(p) ==
  \/ runs[p] < MaxAttempts /\ GoOn(p, "beginning") /\ UNCHANGED <<written, runs>>
  \/ Finish(p, "failed")

-----------------------------------------------------------------------------
\* The container is ready; the command turns to the user of its token.
Open(p) ==
  /\ Connect(p)
  /\ Goto(p, "resolving")
  /\ UNCHANGED <<rows, stored, written, runs, refusals, edits>>

\* One read finds the user, then the workspace is laid out.  A token that names no
\* user and an anchor that the layout refuses end the command before it writes.
Resolve(p) ==
  /\ At(p, "resolving")
  /\ \/ GoOn(p, "beginning") /\ UNCHANGED <<written, runs, refusals>>
     \/ Refuse(p)
     \/ Finish(p, "failed") /\ UNCHANGED refusals
  /\ UNCHANGED <<rows, stored, edits>>

\* A session is acquired and a transaction begun on it, or that fails.
Begin(p) ==
  /\ At(p, "beginning")
  /\ \/ /\ GoOn(p, "writing")
        /\ runs' = [runs EXCEPT ![p] = @ + 1]
        /\ written' = [written EXCEPT ![p] = 0]
     \/ /\ runs[p] + 1 < MaxAttempts
        /\ GoOn(p, "beginning")
        /\ runs' = [runs EXCEPT ![p] = @ + 1]
        /\ UNCHANGED written
     \/ Finish(p, "failed")
  /\ UNCHANGED <<rows, stored, refusals, edits>>

\* A mistake a checked property tells from the code: the repositories are called
\* without the transaction, so that every statement takes effect by itself.
WriteOutsideTransaction(p) ==
  /\ At(p, "writing")
  /\ written' = [written EXCEPT ![p] = @ + 1]
  /\ rows' = [rows EXCEPT ![written'[p]] = Seeded(p)]
  /\ GoOn(p, IF written'[p] = Projects + Tasks THEN "committing" ELSE "writing")
  /\ UNCHANGED <<stored, runs, refusals, edits>>

\* The next row is upserted inside the transaction.
Write(p) ==
  /\ At(p, "writing")
  /\ written' = [written EXCEPT ![p] = @ + 1]
  /\ GoOn(p, IF written'[p] = Projects + Tasks THEN "committing" ELSE "writing")
  /\ UNCHANGED <<rows, stored, runs, refusals, edits>>

\* A statement fails: the transaction is rolled back.  The repository has turned the
\* error into PersistenceError, which the driver does not retry.
FailToWrite(p) ==
  /\ At(p, "writing")
  /\ Finish(p, "failed")
  /\ UNCHANGED <<rows, stored, refusals, edits>>

\* The transaction is committed.  A commit that is reported as failed may have taken
\* effect all the same.
Commit(p) ==
  /\ At(p, "committing")
  /\ \/ Take(p) /\ Finish(p, "ok")
     \/ (Take(p) \/ Nothing) /\ ReplayOrGiveUp(p)
  /\ UNCHANGED <<refusals, edits>>

\* An interruption or the death of the process in the middle of the work: an open
\* transaction comes to nothing, but one that is being committed may take effect.
CutShort(p) ==
  /\ Interrupt(p) \/ Die(p)
  /\ Nothing \/ (At(p, "committing") /\ Take(p))
  /\ Drop(p)
  /\ UNCHANGED <<refusals, edits>>

\* What the command does before and after its work.
AroundWork(p) ==
  /\ CreateDriver(p) \/ NotReady(p) \/ TryAgain(p) \/ StopPool(p) \/ StopDriver(p)
  /\ UNCHANGED <<rows, stored, work, refusals, edits>>

Step(p) ==
  \/ AroundWork(p) \/ Open(p) \/ Resolve(p) \/ Begin(p) \/ Write(p) \/ FailToWrite(p)
  \/ Commit(p)

\* An edit reads the task it is about.
ReadTask(e, i) ==
  /\ edits[e].at = "to come" /\ rows[i].present
  /\ edits' = [edits EXCEPT ![e] = [at |-> "holding", row |-> i, content |-> rows[i]]]
  /\ UNCHANGED <<connection, rows, stored, work, refusals>>

\* The whole row is written back with the edit, or the task is deleted.
WriteTask(e) ==
  /\ edits[e].at = "holding"
  /\ \E c \in {[edits[e].content EXCEPT !.edit = e], Absent} :
       rows' = [rows EXCEPT ![edits[e].row] = c]
  /\ edits' = [edits EXCEPT ![e] = Idle("made")]
  /\ UNCHANGED <<connection, stored, work, refusals>>

Owner == \E e \in Edits : WriteTask(e) \/ \E i \in Editable : ReadTask(e, i)

Next == (\E p \in Commands : Step(p) \/ CutShort(p)) \/ Owner

\* A command that runs keeps running: every call it awaits has a timeout.  Nothing
\* makes anyone start one.
Fairness == \A p \in Commands : WF_vars(~In(p, "idle") /\ Step(p))

Spec == Init /\ [][Next]_vars
FairSpec == Spec /\ Fairness

-----------------------------------------------------------------------------
\* Every variable keeps its type.
TypeOK ==
  /\ ConnectionTypes
  /\ rows \in [Demo \cup Own -> Contents]
  /\ stored \subseteq Commands
  /\ at \in [Commands -> Works]
  /\ written \in [Commands -> 0..Projects + Tasks]
  /\ runs \in [Commands -> 0..MaxAttempts]
  /\ refusals \subseteq Commands
  /\ edits \in [Edits -> [at : {"to come", "holding", "made"}, row : Editable \cup {0},
                       content : Contents]]

\* What a command has reported: a refusal names its reason before the connection is
\* closed, however that goes, the summary is printed once it is, and of any other end
\* the owner learns nothing about the workspace.
Report(p) ==
  CASE p \in refusals -> "refused"
    [] p \notin refusals /\ ~In(p, "over") -> "none"
    [] p \notin refusals /\ In(p, "over") -> IF ending[p] = "ok" THEN "seeded" ELSE "unknown"

\* "All rows go through one transaction, so a failed run leaves no half-seeded
\* workspace ... seeding the same owner again refreshes the demo rows and touches
\* nothing else the owner has."
Promise == INSTANCE WorkspaceSeeding WITH told <- [p \in Commands |-> Report(p)]
Promised == Promise!Spec

\* Every command that starts comes to its end, with its connection closed.
EveryCommandEnds == \A p \in Commands : In(p, "waiting") ~> In(p, "over")
=============================================================================
