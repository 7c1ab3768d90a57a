----------------------------- MODULE TaskWrites -----------------------------
(***************************************************************************)
(* Writes to the tasks of one owner: create, update and delete, addressed  *)
(* by id through the HTTP API or by human text through the agent's tools.  *)
(* Requests and turns run at once; every datastore call is a step, and a   *)
(* write stores the whole row that was read and changed in memory, without *)
(* a transaction or a version check.                                       *)
(*                                                                         *)
(* Of a row the title, the notes, the status, the project and the instants *)
(* are kept; priority and due date are edited and stored like the status.  *)
(* Projects are never removed, so a lookup finds what an earlier one found.*)
(***************************************************************************)
EXTENDS Naturals, FiniteSets

CONSTANTS
  Titles,           \* usable titles
  Notes, NoNotes,   \* usable notes, and none: what blank notes are stored as
  Refused,          \* a title that is blank or too long, or notes that are too long
  References,       \* texts that address a task
  Mentions,         \* which titles and notes each reference appears in, letter case aside
  Projects, NoProject,
  Creates, Edits,   \* the tasks and the edits that are ever asked for
  Keep,             \* a field an edit does not mention
  MaxOps,           \* bound: calls that ever run
  MaxActive,        \* bound: calls in flight at once
  DatastoreFails    \* whether a datastore call can fail

Statuses == {"open", "done", "cancelled"}

ASSUME TasksAssumption ==
  /\ Refused \notin Titles \cup Notes \cup {NoNotes}
  /\ NoNotes \notin Titles \cup Notes
  /\ Mentions \in [References -> SUBSET (Titles \cup Notes)]
  /\ \A r \in References \cap Titles : r \in Mentions[r]
  /\ NoProject \notin Projects
  /\ Keep \notin Titles \cup Notes \cup {NoNotes, Refused} \cup Statuses
               \cup Projects \cup {NoProject}
  /\ Creates \subseteq [title : Titles \cup {Refused}, notes : Notes \cup {NoNotes, Refused},
                        project : Projects \cup {NoProject}]
  /\ Edits \subseteq [title : Titles \cup {Refused, Keep},
                      notes : Notes \cup {NoNotes, Refused, Keep},
                      status : Statuses \cup {Keep}, project : Projects \cup {NoProject, Keep}]
  /\ MaxOps \in Nat /\ MaxActive \in Nat
  /\ DatastoreFails \in BOOLEAN

Ops == 1..MaxOps
Filings == Projects \cup {NoProject}
NoRow == [title |-> "none"]

VARIABLES
  rows,        \* tasks table: the row each create inserted, if it stands
  clock,       \* readings of the clock so far
  begun,       \* calls begun so far; they begin in the order of their numbers
  calls,       \* where each call is and what it holds in memory
  overlapped   \* history variable: the calls that ran beside another call

vars == <<rows, clock, begun, calls, overlapped>>

Idle == [at |-> "idle"]
Places == {"find", "insert", "save", "delete"}

Ids == {i \in Ops : rows[i] # NoRow}
Active == {o \in Ops : calls[o].at \in Places}
At(o, place) == calls[o].at = place

-----------------------------------------------------------------------------
\* resolve_reference: the exact tier decides if it finds anything, the partial
\* one otherwise.
Select(exact, partial) == IF exact # {} THEN exact ELSE partial

\* The notes are searched only if no title has the text.
MatchesTitlesFirst(ref, scope) ==
  LET candidates == {i \in Ids : scope \in {Keep, rows[i].project}}
      titled == {i \in candidates : rows[i].title \in Mentions[ref]}
  IN  Select({i \in candidates : rows[i].title = ref},
             IF titled # {} THEN titled
             ELSE {i \in candidates : rows[i].notes \in Mentions[ref]})

\* TaskReferenceResolver within a project, or without a scope: a title that is the
\* text, otherwise a title or notes that it appears in.
Matches(ref, scope) ==
  LET candidates == {i \in Ids : scope \in {Keep, rows[i].project}}
  IN  Select({i \in candidates : rows[i].title = ref},
             {i \in candidates : {rows[i].title, rows[i].notes} \cap Mentions[ref] # {}})

Asked(old, new) == IF new = Keep THEN old ELSE new

\* complete keeps the first completion instant; reopen and cancel drop it.
Completion(row, status, now) ==
  IF Asked(row.status, status) # "done" THEN 0
  ELSE IF row.status = "done" THEN row.completed ELSE now

\* A completed task is not touched.
AppliedUntouched(row, e, now) ==
  [row EXCEPT !.title = Asked(@, e.title), !.notes = Asked(@, e.notes),
              !.status = Asked(@, e.status), !.project = Asked(@, e.project),
              !.completed = Completion(row, e.status, now)]

\* An edit that does not mention the project unfiles the task.
AppliedUnfiling(row, e, now) ==
  LET edited == [row EXCEPT !.title = Asked(@, e.title), !.notes = Asked(@, e.notes),
                            !.status = Asked(@, e.status),
                            !.project = IF e.project = Keep THEN NoProject ELSE e.project,
                            !.completed = Completion(row, e.status, now)]
  IN  IF edited = row THEN row ELSE [edited EXCEPT !.updated = now]

\* The completion instant is left to the next edit.
AppliedStatusOnly(row, e, now) ==
  LET edited == [row EXCEPT !.title = Asked(@, e.title), !.notes = Asked(@, e.notes),
                            !.status = Asked(@, e.status), !.project = Asked(@, e.project)]
  IN  IF edited = row THEN row ELSE [edited EXCEPT !.updated = now]

\* _apply: the edited row, touched if its stored state changed.
Applied(row, e, now) ==
  LET edited == [row EXCEPT !.title = Asked(@, e.title), !.notes = Asked(@, e.notes),
                            !.status = Asked(@, e.status), !.project = Asked(@, e.project),
                            !.completed = Completion(row, e.status, now)]
  IN  IF edited = row THEN row ELSE [edited EXCEPT !.updated = now]

-----------------------------------------------------------------------------
Init ==
  /\ rows = [i \in Ops |-> NoRow]
  /\ clock = 0
  /\ begun = 0
  /\ calls = [o \in Ops |-> Idle]
  /\ overlapped = {}

Goto(o, c) == calls' = [calls EXCEPT ![o] = c]

\* A call ends; what its caller is told of it is left out.
Finish(o) == calls' = [calls EXCEPT ![o] = [at |-> "done"]]

\* How a call addresses its task: by id, or by text within a project or anywhere.
Addresses ==
  [by : {"id"}, id : Ops] \cup [by : {"text"}, ref : References, scope : Projects \cup {Keep}]

\* The ids a caller can know are those of tasks that it has seen.
Addressed == {a \in Addresses : a.by = "id" => rows[a.id] # NoRow}

Found(address) ==
  IF address.by = "id" THEN Ids \cap {address.id} ELSE Matches(address.ref, address.scope)

\* A title or notes that the task refuses.
Acceptable(asked) == Refused \notin {asked.title, asked.notes}

\* A call begins.  A create whose project is known reads the clock for its row, and
\* ends if the task refuses a text.
Begin(o) ==
  /\ o = begun + 1
  /\ Cardinality(Active) < MaxActive
  /\ begun' = o
  /\ overlapped' = overlapped \cup (IF Active = {} THEN {} ELSE Active \cup {o})
  /\ UNCHANGED rows
  /\ \/ \E c \in Creates :
          /\ Acceptable(c)
          /\ clock' = clock + 1
          /\ Goto(o, [at |-> "insert", row |->
               [id |-> o, title |-> c.title, notes |-> c.notes, status |-> "open",
                project |-> c.project, completed |-> 0, created |-> clock',
                updated |-> clock']])
     \/ /\ \E c \in Creates : ~Acceptable(c)
        /\ clock' = clock + 1
        /\ Finish(o)
     \/ \E a \in Addressed, e \in Edits :
          Goto(o, [at |-> "find", tool |-> "update", address |-> a, edit |-> e])
          /\ UNCHANGED clock
     \/ \E a \in Addressed :
          Goto(o, [at |-> "find", tool |-> "delete", address |-> a]) /\ UNCHANGED clock
     \/ Finish(o) /\ UNCHANGED clock

\* Nothing, or more than one task, is what the address names.
FindNone(o) ==
  /\ At(o, "find")
  /\ Cardinality(Found(calls[o].address)) # 1
  /\ Finish(o)
  /\ UNCHANGED <<rows, clock, begun, overlapped>>

\* The one task to delete is found.
FindDoomed(o) ==
  /\ At(o, "find") /\ calls[o].tool = "delete"
  /\ \E i \in Ids :
       /\ Found(calls[o].address) = {i}
       /\ Goto(o, [at |-> "delete", id |-> i, address |-> calls[o].address])
  /\ UNCHANGED <<rows, clock, begun, overlapped>>

\* The one task to edit is found and changed in memory; a text that the task refuses
\* ends the call, and so does an edit that changes nothing.
FindAndEdit(o) ==
  /\ At(o, "find") /\ calls[o].tool = "update"
  /\ clock' = clock + 1
  /\ \E i \in Ids :
       LET e == calls[o].edit
           edited == Applied(rows[i], e, clock')
       IN  /\ Found(calls[o].address) = {i}
           /\ IF ~Acceptable(e) \/ edited = rows[i] THEN Finish(o)
              ELSE Goto(o, [at |-> "save", row |-> edited, edit |-> e,
                            address |-> calls[o].address])
  /\ UNCHANGED <<rows, begun, overlapped>>

\* An UPSERT of the whole row: a new one, or the edited copy of the one read.
Insert(o) ==
  /\ At(o, "insert")
  /\ rows' = [rows EXCEPT ![o] = calls[o].row]
  /\ Finish(o)
  /\ UNCHANGED <<clock, begun, overlapped>>

\* The row that was edited is stored as a new one.
SaveUnderNewId(o) ==
  /\ At(o, "save")
  /\ rows' = [rows EXCEPT ![o] = calls[o].row]
  /\ Finish(o)
  /\ UNCHANGED <<clock, begun, overlapped>>

Save(o) ==
  /\ At(o, "save")
  /\ rows' = [rows EXCEPT ![calls[o].row.id] = calls[o].row]
  /\ Finish(o)
  /\ UNCHANGED <<clock, begun, overlapped>>

Delete(o) ==
  /\ At(o, "delete")
  /\ rows' = [rows EXCEPT ![calls[o].id] = NoRow]
  /\ Finish(o)
  /\ UNCHANGED <<clock, begun, overlapped>>

\* A datastore call fails before it took effect.
Fail(o) ==
  /\ DatastoreFails
  /\ o \in Active
  /\ Finish(o)
  /\ UNCHANGED <<rows, clock, begun, overlapped>>

Next == \E o \in Ops :
  \/ Begin(o) \/ FindNone(o) \/ FindDoomed(o) \/ FindAndEdit(o)
  \/ Insert(o) \/ Save(o) \/ Delete(o) \/ Fail(o)

Spec == Init /\ [][Next]_vars

-----------------------------------------------------------------------------
Rows == [id : Ops, title : Titles, notes : Notes \cup {NoNotes}, status : Statuses,
         project : Filings, completed : Nat, created : Nat, updated : Nat]

\* What a call holds at each place.
Holds(o, c) ==
  \/ c = Idle
  \/ c = [at |-> "done"]
  \/ /\ c.at = "find" /\ c.tool \in {"update", "delete"} /\ c.address \in Addresses
     /\ c.tool = "update" => c.edit \in Edits
  \/ c.at = "insert" /\ c.row \in Rows /\ c.row.id = o
  \/ c.at = "save" /\ c.row \in Rows /\ c.edit \in Edits /\ c.address \in Addresses
  \/ c.at = "delete" /\ c.id \in Ops /\ c.address \in Addresses

TypeOK ==
  /\ rows \in [Ops -> Rows \cup {NoRow}]
  /\ \A i \in Ids : rows[i].id = i
  /\ clock \in Nat /\ begun \in 0..MaxOps
  /\ DOMAIN calls = Ops
  /\ \A o \in Ops : Holds(o, calls[o])
  /\ overlapped \subseteq Ops

\* The invariant Task names: done exactly when there is a completion instant.  It
\* survives every overlap because a write stores the pair together.
DoneIffCompleted ==
  \A i \in Ids : rows[i].status = "done" <=> rows[i].completed # 0

\* A task is created before it is completed, and completed no later than it was
\* last touched, although a write may bring back an older copy.
TimesOrdered ==
  \A i \in Ids :
    /\ rows[i].created <= rows[i].updated
    /\ rows[i].completed # 0 =>
         rows[i].created <= rows[i].completed /\ rows[i].completed <= rows[i].updated

\* A stored task never contradicts itself.
RowsConsistent == DoneIffCompleted /\ TimesOrdered

Alone(o) == o \notin overlapped
Writes(o) == o \in Active /\ rows' # rows /\ calls'[o] # calls[o]
Changed == {i \in Ops : rows'[i] # rows[i]}

\* An update that runs beside no other call changes nothing it was not asked to,
\* and completing a task anew keeps the instant it was first completed at.
OnlyWhatWasAsked ==
  [][\A o \in Ops : Writes(o) /\ Alone(o) /\ At(o, "save") =>
       \A i \in Changed :
         LET e == calls[o].edit
         IN  /\ i \in Ids
             /\ e.title = Keep => rows'[i].title = rows[i].title
             /\ e.notes = Keep => rows'[i].notes = rows[i].notes
             /\ e.project = Keep => rows'[i].project = rows[i].project
             /\ e.status = Keep => rows'[i].status = rows[i].status
             /\ rows[i].status = "done" /\ rows'[i].status = "done" =>
                  rows'[i].completed = rows[i].completed
             /\ rows'[i].created = rows[i].created]_vars

\* "A write can only ever reach a task the reference identifies without doubt":
\* when it runs beside no other, its text is then the title of that one task, or no
\* title at all and appears in the title or the notes of that one task.
ReachesTheNamedTask ==
  [][\A o \in Ops : Writes(o) /\ Alone(o) /\ calls[o].at \in {"save", "delete"} =>
       LET a == calls[o].address
           inScope == {i \in Ids : a.scope \in {Keep, rows[i].project}}
           titled == {i \in inScope : rows[i].title = a.ref}
           named == {i \in inScope : \/ rows[i].title \in Mentions[a.ref]
                                     \/ rows[i].notes \in Mentions[a.ref]}
       IN  a.by = "text" => titled = Changed \/ (titled = {} /\ named = Changed)]_vars

\* A deleted task comes back only through a call that ran beside another one.
ComesBackOnlyInOverlap ==
  [][\A i \in Ops \ Ids : rows'[i] # NoRow =>
       \/ At(i, "insert")
       \/ \E o \in overlapped : At(o, "save") /\ calls[o].row.id = i]_vars

\* DeleteTaskUseCase "removes one task of the owner for good".
DeletedForGood ==
  [][\A i \in Ops \ Ids : rows'[i] # NoRow => At(i, "insert")]_vars
=============================================================================
