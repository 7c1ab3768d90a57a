----------------------------- MODULE MigrationRun -----------------------------
(***************************************************************************)
(* Runs of "migrate up": apply_pending_migrations plans what the history   *)
(* table says is not completed and applies it in version order; a run may  *)
(* be limited to one module.  The app container starts a run when it       *)
(* comes up and an operator may start another, so runs can overlap: no     *)
(* lock keeps them apart.  An action is one datastore call and the code up *)
(* to the next one.                                                        *)
(*                                                                         *)
(* A migration is a number, its place in the global version order; a       *)
(* statement of it is named for the artifact it creates if it is missing.  *)
(***************************************************************************)
EXTENDS Naturals, Sequences, FiniteSets

CONSTANTS
  Count,         \* how many migration files are discovered
  Modules,
  Everything,    \* the filter of a run without --module
  ModuleOf,      \* the module of each migration
  Artifacts,     \* tables, indexes and columns
  Creates,       \* the statements of up(), in order
  Declares,      \* get_artifacts()
  Runs,
  FilterOf,      \* --module of each run, or Everything
  Sound,         \* the runs that no fault hits
  MaxActive      \* how many runs may overlap

Versions == 1..Count

ASSUME MigrationAssumption ==
  /\ Count \in Nat
  /\ Everything \notin Modules
  /\ ModuleOf \in [Versions -> Modules]
  /\ Creates \in [Versions -> Seq(Artifacts)]
  /\ Declares \in [Versions -> SUBSET Artifacts]
  /\ FilterOf \in [Runs -> Modules \cup {Everything}]
  /\ Sound \subseteq Runs
  /\ MaxActive \in Nat

VARIABLES
  history,   \* schema_migrations: the status of each migration
  schema,    \* the artifacts that exist
  stage,     \* where each run is
  pending,   \* the migrations a run has planned and not completed
  current,   \* the migration a run is applying
  executed,  \* statements of it executed by the run so far
  verdict    \* how each run ended

vars == <<history, schema, stage, pending, current, executed, verdict>>

Stages == {"idle", "loading", "executing", "marking", "completing", "checking", "over"}
Applying == {"executing", "marking", "completing"}
Statuses == {"none", "in_progress", "completed", "failed"}

Scope(r) == {v \in Versions : FilterOf[r] \in {Everything, ModuleOf[v]}}
Active == {r \in Runs : stage[r] \notin {"idle", "over"}}

Init ==
  /\ history = [v \in Versions |-> "none"]
  /\ schema = {}
  /\ stage = [r \in Runs |-> "idle"]
  /\ pending = [r \in Runs |-> {}]
  /\ current = [r \in Runs |-> 0]
  /\ executed = [r \in Runs |-> 0]
  /\ verdict = [r \in Runs |-> "none"]

Goto(r, s) == stage' = [stage EXCEPT ![r] = s] /\ UNCHANGED verdict
End(r, how) == stage' = [stage EXCEPT ![r] = "over"] /\ verdict' = [verdict EXCEPT ![r] = how]

\* A call of the run fails; the call may have taken effect all the same.
Fails(r) == r \notin Sound

Record(v, s) == history' = [history EXCEPT ![v] = s]

-----------------------------------------------------------------------------
(* Mistakes in single steps that the checked properties tell from the code. *)

\* A migration left "in_progress" is taken for one that another run applies.
PlanSkipsInterrupted(r) ==
  /\ stage[r] = "idle"
  /\ Cardinality(Active) < MaxActive
  /\ pending' = [pending EXCEPT ![r] = {v \in Scope(r) : history[v] \in {"none", "failed"}}]
  /\ IF pending'[r] = {} THEN End(r, "ok") ELSE Goto(r, "loading")
  /\ UNCHANGED <<history, schema, current, executed>>

\* What is missing is only logged.
VerifyLeniently(r) ==
  /\ stage[r] = "executing"
  /\ executed[r] = Len(Creates[current[r]])
  /\ Goto(r, "completing")
  /\ UNCHANGED <<history, schema, pending, current, executed>>

\* A failed migration is recorded and the run goes on with the next one.
MarkFailedAndGoOn(r) ==
  /\ stage[r] = "marking"
  /\ Record(current[r], "failed")
  /\ pending' = [pending EXCEPT ![r] = @ \ {current[r]}]
  /\ Goto(r, IF pending'[r] = {} THEN "checking" ELSE "loading")
  /\ UNCHANGED <<schema, current, executed>>

\* The final check trusts the statuses the run has written itself.
CheckNothing(r) ==
  /\ stage[r] = "checking"
  /\ End(r, "ok")
  /\ UNCHANGED <<history, schema, pending, current, executed>>

\* The next migration starts at the statement where the last one stopped.
LoadResumes(r) ==
  /\ stage[r] = "loading"
  /\ \E v \in pending[r] :
       /\ \A u \in pending[r] : v <= u
       /\ Record(v, "in_progress")
       /\ current' = [current EXCEPT ![r] = v]
  /\ Goto(r, "executing")
  /\ UNCHANGED <<schema, pending, executed>>

-----------------------------------------------------------------------------
\* The history table is created if missing and read; the run plans every
\* migration in its scope that is not completed, and ends if there is none.
Plan(r) ==
  /\ stage[r] = "idle"
  /\ Cardinality(Active) < MaxActive
  /\ \/ /\ pending' = [pending EXCEPT ![r] = {v \in Scope(r) : history[v] # "completed"}]
        /\ IF pending'[r] = {} THEN End(r, "ok") ELSE Goto(r, "loading")
     \/ Fails(r) /\ End(r, "failed") /\ UNCHANGED pending
  /\ UNCHANGED <<history, schema, current, executed>>

\* run_migration loads the next class and writes the row as "in_progress".  A
\* file without a class of its version ends the run like any other fault here,
\* before anything is recorded.
Load(r) ==
  /\ stage[r] = "loading"
  /\ \E v \in pending[r] :
       /\ \A u \in pending[r] : v <= u
       /\ current' = [current EXCEPT ![r] = v]
       /\ executed' = [executed EXCEPT ![r] = 0]
       /\ \/ /\ Record(v, "in_progress")
             /\ Goto(r, "executing") \/ (Fails(r) /\ End(r, "failed"))
          \/ /\ Fails(r)
             /\ End(r, "failed")
             /\ UNCHANGED history
  /\ UNCHANGED <<schema, pending>>

\* up() executes its next statement.
Execute(r) ==
  /\ stage[r] = "executing"
  /\ executed[r] < Len(Creates[current[r]])
  /\ \/ /\ schema' = schema \cup {Creates[current[r]][executed[r] + 1]}
        /\ executed' = [executed EXCEPT ![r] = @ + 1]
        /\ Goto(r, "executing") \/ (Fails(r) /\ Goto(r, "marking"))
     \/ /\ Fails(r)
        /\ Goto(r, "marking")
        /\ UNCHANGED <<schema, executed>>
  /\ UNCHANGED <<history, pending, current>>

\* up() has returned: what it declares is looked for in the live schema.
Verify(r) ==
  /\ stage[r] = "executing"
  /\ executed[r] = Len(Creates[current[r]])
  /\ \/ Declares[current[r]] \subseteq schema /\ Goto(r, "completing")
     \/ /\ ~(Declares[current[r]] \subseteq schema) \/ (Fails(r) /\ Declares[current[r]] # {})
        /\ Goto(r, "marking")
  /\ UNCHANGED <<history, schema, pending, current, executed>>

\* The failure is recorded, or the row stays "in_progress"; either way the run
\* stops at its first failure.
MarkFailed(r) ==
  /\ stage[r] = "marking"
  /\ Record(current[r], "failed") \/ (Fails(r) /\ UNCHANGED history)
  /\ End(r, "failed")
  /\ UNCHANGED <<schema, pending, current, executed>>

\* The row becomes "completed"; the run goes on to the next migration.
Complete(r) ==
  /\ stage[r] = "completing"
  /\ \/ /\ Record(current[r], "completed")
        /\ pending' = [pending EXCEPT ![r] = @ \ {current[r]}]
        /\ Goto(r, IF pending'[r] = {} THEN "checking" ELSE "loading")
     \/ /\ Fails(r)
        /\ Record(current[r], "completed") \/ UNCHANGED history
        /\ End(r, "failed")
        /\ UNCHANGED pending
  /\ UNCHANGED <<schema, current, executed>>

\* verify_all_migrations_completed, for every discovered migration whatever the
\* filter; a migration without a row passes.
CheckAll(r) ==
  /\ stage[r] = "checking"
  /\ \/ /\ \A v \in Versions : history[v] \in {"none", "completed"}
        /\ End(r, "ok")
     \/ /\ (\E v \in Versions : history[v] \in {"failed", "in_progress"}) \/ Fails(r)
        /\ End(r, "failed")
  /\ UNCHANGED <<history, schema, pending, current, executed>>

\* The process running the migrations dies.
Crash(r) ==
  /\ r \in Active /\ Fails(r)
  /\ End(r, "crashed")
  /\ UNCHANGED <<history, schema, pending, current, executed>>

Proceed(r) ==
  \/ Load(r) \/ Execute(r) \/ Verify(r) \/ MarkFailed(r) \/ Complete(r) \/ CheckAll(r)

Next == \E r \in Runs : Plan(r) \/ Proceed(r) \/ Crash(r)

Spec == Init /\ [][Next]_vars

\* Every run starts, and goes on: each datastore call returns or raises.
FairSpec == Spec /\ \A r \in Runs : WF_vars(Plan(r) \/ Proceed(r))

-----------------------------------------------------------------------------
Types ==
  /\ history \in [Versions -> Statuses]
  /\ schema \subseteq Artifacts
  /\ stage \in [Runs -> Stages]
  /\ pending \in [Runs -> SUBSET Versions]
  /\ current \in [Runs -> Versions \cup {0}]
  /\ executed \in [Runs -> Nat]
  /\ verdict \in [Runs -> {"none", "ok", "failed", "crashed"}]

\* A run that applies a migration is within its statements.
WithinMigration ==
  \A r \in Runs : stage[r] \in Applying =>
    current[r] \in Versions /\ executed[r] <= Len(Creates[current[r]])

TypeOK == Types /\ WithinMigration

\* "A failed verification is a failed migration: the declared schema is the
\* contract": a migration is recorded as completed only while everything it
\* declares exists, whichever runs wrote the row and whatever they left undone.
CompletedIsDeclared ==
  \A v \in Versions : history[v] = "completed" => Declares[v] \subseteq schema

\* "Migrations run one at a time in global version order.  The first failure
\* stops the run": a run applies a migration only when everything the earlier
\* ones in its scope declare exists.
PredecessorsFirst ==
  \A r \in Runs : stage[r] \in Applying =>
    \A v \in Scope(r) : v < current[r] => Declares[v] \subseteq schema

\* What is recorded as completed is there, and what comes first was first.
AppliedInOrder == CompletedIsDeclared /\ PredecessorsFirst

\* A run that reports success leaves every migration in its scope completed,
\* also when another run works on the same ones.
SuccessMeansCompleted ==
  [][\A r \in Runs : verdict[r] # "ok" /\ verdict'[r] = "ok" =>
       \A v \in Scope(r) : history'[v] = "completed"]_vars

\* Whatever crashes, failures and overlapping runs came before, a run that meets
\* no fault and is left alone completes everything.
Recovers ==
  \A r \in Sound :
    (stage[r] = "idle" /\ \A q \in Runs \ {r} : stage[q] = "over") ~> (verdict[r] = "ok")

\* "The run succeeds only when no discovered migration is left failed or
\* unfinished."
SuccessLeavesNoneUnfinished ==
  [][\A r \in Runs : verdict[r] # "ok" /\ verdict'[r] = "ok" =>
       \A v \in Versions : history'[v] \notin {"failed", "in_progress"}]_vars
=============================================================================
