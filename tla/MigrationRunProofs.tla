--------------------------- MODULE MigrationRunProofs ---------------------------
(***************************************************************************)
(* What holds of MigrationRun for any migrations, any number of runs that  *)
(* overlap in any way, and any faults.                                     *)
(***************************************************************************)
EXTENDS MigrationRun, TLAPS

\* A migration has a number of statements.
LEMMA StatementCount == \A v \in Versions : Len(Creates[v]) \in Nat
  BY MigrationAssumption

\* Every variable keeps its type.
LEMMA TypeStep == TypeOK /\ [Next]_vars => TypeOK'
<1> USE DEF Statuses, Stages, Applying
<1> SUFFICES ASSUME TypeOK, [Next]_vars PROVE TypeOK'
  OBVIOUS
<1> Types /\ WithinMigration
  BY DEF TypeOK
<1>1. CASE UNCHANGED vars
  BY <1>1 DEF vars, Types, WithinMigration, TypeOK
<1>2. ASSUME NEW r \in Runs, Plan(r) \/ Proceed(r) \/ Crash(r)
      PROVE  Types' /\ WithinMigration'
  <2>1. CASE Plan(r)
    <3>1. End(r, "ok") \/ Goto(r, "loading") \/ End(r, "failed")
      BY <2>1 DEF Plan
    <3>2. pending' \in [Runs -> SUBSET Versions]
      BY <2>1 DEF Plan, Scope, Types
    <3>3. UNCHANGED <<history, schema, current, executed>>
      BY <2>1 DEF Plan
    <3> QED
      BY <3>1, <3>2, <3>3 DEF Types, WithinMigration, Goto, End
  <2>2. CASE Load(r)
    <3>1. PICK v \in pending[r] :
            /\ current' = [current EXCEPT ![r] = v]
            /\ executed' = [executed EXCEPT ![r] = 0]
            /\ \/ Record(v, "in_progress") /\ (Goto(r, "executing") \/ End(r, "failed"))
               \/ End(r, "failed") /\ UNCHANGED history
      BY <2>2 DEF Load
    <3> USE DEF Goto, End, Record
    <3>2. v \in Versions /\ 0 <= Len(Creates[v])
      BY StatementCount DEF Types
    <3>3. Types'
      <4>1. UNCHANGED <<schema, pending>>
        BY <2>2 DEF Load
      <4>2. current' \in [Runs -> Versions \cup {0}] /\ executed' \in [Runs -> Nat]
        BY <3>1, <3>2 DEF Types
      <4>3. history' \in [Versions -> Statuses]
        BY <3>1, <3>2 DEF Types
      <4>4. /\ stage' \in [Runs -> Stages]
            /\ verdict' \in [Runs -> {"none", "ok", "failed", "crashed"}]
        BY <3>1 DEF Types
      <4> QED
        BY <4>1, <4>2, <4>3, <4>4 DEF Types
    <3>4. WithinMigration'
      BY <3>1, <3>2 DEF Types, WithinMigration
    <3> QED
      BY <3>3, <3>4
  <2>3. CASE Execute(r)
    <3>1. /\ current[r] \in Versions
          /\ Len(Creates[current[r]]) \in Nat /\ executed[r] \in Nat
          /\ executed[r] < Len(Creates[current[r]])
      BY <2>3, StatementCount DEF Execute, Types, WithinMigration
    <3>2. Creates[current[r]][executed[r] + 1] \in Artifacts
      <4>1. Creates[current[r]] \in Seq(Artifacts)
        BY <3>1, MigrationAssumption
      <4> QED
        BY <3>1, <4>1
    <3>3. schema' \subseteq Artifacts /\ executed' \in [Runs -> Nat]
      <4>1. \/ /\ schema' = schema \cup {Creates[current[r]][executed[r] + 1]}
               /\ executed' = [executed EXCEPT ![r] = executed[r] + 1]
            \/ UNCHANGED <<schema, executed>>
        BY <2>3 DEF Execute
      <4>2. executed' \in [Runs -> Nat]
        BY <3>1, <4>1 DEF Types
      <4>3. schema' \subseteq Artifacts
        BY <3>2, <4>1 DEF Types
      <4> QED
        BY <4>2, <4>3
    <3>4. Goto(r, "executing") \/ Goto(r, "marking")
      BY <2>3 DEF Execute
    <3>5. UNCHANGED <<history, pending, current>>
      BY <2>3 DEF Execute
    <3>6. Types'
      BY <3>3, <3>4, <3>5 DEF Types, Goto
    <3>7. WithinMigration'
      BY <2>3, <3>1 DEF Execute, Types, WithinMigration, Goto
    <3> QED
      BY <3>6, <3>7
  <2>4. CASE Verify(r)
    BY <2>4 DEF Verify, Types, WithinMigration, Goto
  <2>5. CASE MarkFailed(r)
    BY <2>5 DEF MarkFailed, Types, WithinMigration, End, Record
  <2>6. CASE Complete(r)
    <3>1. Goto(r, "checking") \/ Goto(r, "loading") \/ End(r, "failed")
      BY <2>6 DEF Complete
    <3>2. history' \in [Versions -> Statuses] /\ pending' \in [Runs -> SUBSET Versions]
      BY <2>6 DEF Complete, Record, Types
    <3>3. UNCHANGED <<schema, current, executed>>
      BY <2>6 DEF Complete
    <3> QED
      BY <3>1, <3>2, <3>3 DEF Types, WithinMigration, Goto, End
  <2>7. CASE CheckAll(r)
    BY <2>7 DEF CheckAll, Types, WithinMigration, End
  <2>8. CASE Crash(r)
    BY <2>8 DEF Crash, Types, WithinMigration, End
  <2> QED
    BY <1>2, <2>1, <2>2, <2>3, <2>4, <2>5, <2>6, <2>7, <2>8 DEF Proceed
<1> QED
  BY <1>1, <1>2 DEF Next, TypeOK

\* MigrationRun is type-correct.
THEOREM TypeCorrect == Spec => []TypeOK
<1>1. Init => TypeOK
  BY DEF Init, TypeOK, Types, WithinMigration, Statuses, Stages, Applying
<1> QED
  BY <1>1, TypeStep, PTL DEF Spec

-----------------------------------------------------------------------------
\* What a run knows of the migrations it has put behind it, whatever other runs
\* do meanwhile: they have a row, and what they declare exists.  A row can go back
\* to "in_progress" when another run planned earlier; the schema never shrinks.
Behind ==
  \A r \in Runs :
    /\ stage[r] \notin {"idle", "over"} =>
         \A v \in Scope(r) : v \notin pending[r] =>
           Declares[v] \subseteq schema /\ history[v] # "none"
    /\ stage[r] \in Applying =>
         current[r] \in pending[r] /\ \A v \in pending[r] : current[r] <= v
    /\ stage[r] = "completing" => Declares[current[r]] \subseteq schema
    /\ stage[r] = "checking" => pending[r] = {}

\* The inductive invariant.
Order == TypeOK /\ CompletedIsDeclared /\ Behind

\* No step of any run undoes what another run has put behind it.
LEMMA OrderStep == Order /\ [Next]_vars => Order'
<1> SUFFICES ASSUME Order, [Next]_vars PROVE Order'
  OBVIOUS
<1> USE DEF Applying
<1> Types /\ CompletedIsDeclared /\ Behind
  BY DEF Order, TypeOK
<1>1. TypeOK'
  BY TypeStep DEF Order
<1>2. CASE UNCHANGED vars
  <2>1. CompletedIsDeclared' /\ Behind'
    BY <1>2 DEF vars, CompletedIsDeclared, Behind
  <2> QED
    BY <1>1, <2>1 DEF Order
<1>3. ASSUME NEW r \in Runs, Plan(r) \/ Proceed(r) \/ Crash(r)
      PROVE  CompletedIsDeclared' /\ Behind'
  <2>1. CASE Plan(r)
    <3>1. UNCHANGED <<history, schema, current>>
      BY <2>1 DEF Plan
    <3>2. \/ /\ stage' = [stage EXCEPT ![r] = "over"]
             /\ \A q \in Runs : q # r => pending'[q] = pending[q]
          \/ /\ stage' = [stage EXCEPT ![r] = "loading"]
             /\ pending' = [pending EXCEPT ![r] = {v \in Scope(r) : history[v] # "completed"}]
      BY <2>1 DEF Plan, Goto, End, Types
    <3>3. Scope(r) \subseteq Versions
      BY DEF Scope
    <3> QED
      BY <3>1, <3>2, <3>3 DEF CompletedIsDeclared, Behind, Types
  <2>2. CASE Load(r)
    <3>1. PICK v \in pending[r] :
            /\ \A u \in pending[r] : v <= u
            /\ current' = [current EXCEPT ![r] = v]
            /\ \/ Record(v, "in_progress") /\ (Goto(r, "executing") \/ End(r, "failed"))
               \/ End(r, "failed") /\ UNCHANGED history
      BY <2>2 DEF Load
    <3>2. UNCHANGED <<schema, pending>> /\ stage[r] = "loading"
      BY <2>2 DEF Load
    <3>3. \A u \in Versions : history'[u] = history[u] \/ history'[u] = "in_progress"
      BY <3>1 DEF Record, Types
    <3>4. \A q \in Runs : Scope(q) \subseteq Versions
      BY DEF Scope
    <3>5. \/ stage' = [stage EXCEPT ![r] = "executing"]
          \/ stage' = [stage EXCEPT ![r] = "over"]
      BY <3>1 DEF Goto, End
    <3> QED
      BY <3>1, <3>2, <3>3, <3>4, <3>5 DEF CompletedIsDeclared, Behind, Types
  <2>3. CASE Execute(r)
    <3>1. /\ schema \subseteq schema'
          /\ UNCHANGED <<history, pending, current>>
          /\ Goto(r, "executing") \/ Goto(r, "marking")
          /\ stage[r] = "executing"
      BY <2>3 DEF Execute
    <3> QED
      BY <3>1 DEF CompletedIsDeclared, Behind, Types, Goto
  <2>4. CASE Verify(r)
    BY <2>4 DEF Verify, CompletedIsDeclared, Behind, Types, Goto
  <2>5. CASE MarkFailed(r)
    <3>1. /\ \A v \in Versions : history'[v] = history[v] \/ history'[v] = "failed"
          /\ UNCHANGED <<schema, pending, current>>
          /\ stage' = [stage EXCEPT ![r] = "over"]
      BY <2>5 DEF MarkFailed, Record, End, Types
    <3>2. \A q \in Runs : Scope(q) \subseteq Versions
      BY DEF Scope
    <3> QED
      BY <3>1, <3>2 DEF CompletedIsDeclared, Behind, Types
  <2>6. CASE Complete(r)
    <3>1. /\ UNCHANGED <<schema, current>>
          /\ current[r] \in pending[r] /\ Declares[current[r]] \subseteq schema
          /\ \A v \in Versions : \/ history'[v] = history[v]
                                 \/ v = current[r] /\ history'[v] = "completed"
      BY <2>6 DEF Complete, Record, Behind, Types
    <3>2. \/ stage' = [stage EXCEPT ![r] = "over"] /\ UNCHANGED pending
          \/ /\ pending' = [pending EXCEPT ![r] = @ \ {current[r]}]
             /\ history'[current[r]] = "completed"
             /\ \/ stage' = [stage EXCEPT ![r] = "loading"]
                \/ stage' = [stage EXCEPT ![r] = "checking"] /\ pending'[r] = {}
      BY <2>6, <3>1 DEF Complete, Record, Goto, End, Types
    <3>3. \A q \in Runs : Scope(q) \subseteq Versions
      BY DEF Scope
    <3>4. CompletedIsDeclared'
      BY <3>1 DEF CompletedIsDeclared
    <3>5. Behind'
      BY <2>6, <3>1, <3>2, <3>3 DEF Complete, Behind, Types
    <3> QED
      BY <3>4, <3>5
  <2>7. CASE CheckAll(r)
    BY <2>7 DEF CheckAll, CompletedIsDeclared, Behind, Types, End
  <2>8. CASE Crash(r)
    BY <2>8 DEF Crash, CompletedIsDeclared, Behind, Types, End
  <2> QED
    BY <1>3, <2>1, <2>2, <2>3, <2>4, <2>5, <2>6, <2>7, <2>8 DEF Proceed
<1> QED
  BY <1>1, <1>2, <1>3 DEF Next, Order

\* So the order of the migrations is kept by every run, always.
LEMMA OrderInvariant == Spec => []Order
<1>1. Init => Order
  BY DEF Init, Order, TypeOK, Types, WithinMigration, Statuses, Stages, Applying,
       CompletedIsDeclared, Behind
<1> QED
  BY <1>1, OrderStep, PTL DEF Spec

\* A migration is recorded as completed only while all it declares exists, and is
\* applied only when all that the earlier ones of its scope declare exists.
THEOREM Ordering == Spec => []AppliedInOrder
<1>1. Order => AppliedInOrder
  <2> SUFFICES ASSUME Order, NEW r \in Runs, stage[r] \in Applying,
                      NEW v \in Scope(r), v < current[r]
               PROVE  Declares[v] \subseteq schema
    BY DEF Order, PredecessorsFirst, AppliedInOrder
  <2>1. v \in Nat /\ current[r] \in Nat /\ v \notin pending[r]
    BY MigrationAssumption DEF Order, Behind, TypeOK, WithinMigration, Scope, Versions, Applying
  <2> QED
    BY <2>1 DEF Order, Behind, Applying
<1> QED
  BY <1>1, OrderInvariant, PTL

\* A run that reports success leaves every migration of its scope completed.
THEOREM SuccessIsComplete == Spec => SuccessMeansCompleted
<1>1. ASSUME Order, [Next]_vars
      PROVE  [\A r \in Runs : verdict[r] # "ok" /\ verdict'[r] = "ok" =>
                \A v \in Scope(r) : history'[v] = "completed"]_vars
  <2> SUFFICES ASSUME Next, NEW r \in Runs, verdict[r] # "ok", verdict'[r] = "ok"
               PROVE  \A v \in Scope(r) : history'[v] = "completed"
    BY <1>1
  <2> Types /\ Behind
    BY <1>1 DEF Order, TypeOK
  <2>1. PICK s \in Runs : Plan(s) \/ Proceed(s) \/ Crash(s)
    BY DEF Next
  <2>2. End(s, "ok") /\ s = r
    <3>1. \/ UNCHANGED verdict
          \/ \E how \in {"ok", "failed", "crashed"} : End(s, how)
      BY <2>1 DEF Plan, Proceed, Load, Execute, Verify, MarkFailed, Complete, CheckAll, Crash, Goto
    <3> QED
      BY <3>1 DEF End, Types
  <2>3. ~End(r, "failed") /\ ~End(r, "crashed") /\ ~UNCHANGED verdict
    BY <2>2 DEF End, Types
  <2>4. Plan(r) \/ CheckAll(r)
    BY <2>1, <2>2, <2>3 DEF Proceed, Load, Execute, Verify, MarkFailed, Complete, Crash, Goto
  <2>5. CASE Plan(r)
    <3>1. /\ pending'[r] = {v \in Scope(r) : history[v] # "completed"}
          /\ pending'[r] = {}
          /\ UNCHANGED history
      BY <2>3, <2>5 DEF Plan, Goto, Types
    <3> QED
      BY <3>1
  <2>6. CASE CheckAll(r)
    <3>1. pending[r] = {} /\ \A v \in Scope(r) : history[v] # "none"
      BY <2>6 DEF CheckAll, Behind
    <3>2. \A v \in Versions : history'[v] \in {"none", "completed"} /\ history'[v] = history[v]
      BY <2>3, <2>6 DEF CheckAll
    <3> QED
      BY <3>1, <3>2 DEF Scope
  <2> QED
    BY <2>4, <2>5, <2>6
<1> QED
  BY <1>1, OrderInvariant, PTL DEF Spec, SuccessMeansCompleted
=============================================================================
