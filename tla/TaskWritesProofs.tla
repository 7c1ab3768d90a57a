-------------------------- MODULE TaskWritesProofs --------------------------
(***************************************************************************)
(* What holds of the tasks of an owner for any number of calls that        *)
(* overlap in any way, any texts and any edits.                            *)
(***************************************************************************)
EXTENDS TaskWrites, TLAPS

\* What the stored row of a task and every copy of it held in memory satisfies at
\* a given reading of the clock.
Consistent(row, now) ==
  /\ row.status = "done" <=> row.completed # 0
  /\ row.created <= row.updated
  /\ row.completed # 0 => row.created <= row.completed /\ row.completed <= row.updated
  /\ row.updated <= now

\* The inductive invariant: a write stores a copy read earlier, so the copies in
\* memory must satisfy what the table does.
Consistency ==
  /\ TypeOK
  /\ \A i \in Ids : Consistent(rows[i], clock)
  /\ \A o \in Ops : calls[o].at \in {"insert", "save"} => Consistent(calls[o].row, clock)

\* An accepted edit of a consistent row gives a consistent row of the same task.
LEMMA AppliedIsConsistent ==
  ASSUME NEW row \in Rows, NEW e \in Edits, Acceptable(e),
         NEW old \in Nat, Consistent(row, old)
  PROVE  /\ Applied(row, e, old + 1) \in Rows
         /\ Applied(row, e, old + 1).id = row.id
         /\ Consistent(Applied(row, e, old + 1), old + 1)
<1> DEFINE now == old + 1
           done == Completion(row, e.status, now)
           edited == [row EXCEPT !.title = Asked(row.title, e.title),
                                 !.notes = Asked(row.notes, e.notes),
                                 !.status = Asked(row.status, e.status),
                                 !.project = Asked(row.project, e.project),
                                 !.completed = done]
           touched == [edited EXCEPT !.updated = now]
<1>1. now \in Nat /\ now # 0 /\ row.updated < now
  BY DEF Consistent, Rows
<1>2. /\ Asked(row.title, e.title) \in Titles
      /\ Asked(row.notes, e.notes) \in Notes \cup {NoNotes}
      /\ Asked(row.status, e.status) \in Statuses
      /\ Asked(row.project, e.project) \in Filings
  BY TasksAssumption DEF Asked, Rows, Filings, Acceptable
<1>3. /\ done \in Nat
      /\ done # 0 <=> Asked(row.status, e.status) = "done"
      /\ done \in {0, row.completed, now}
  BY <1>1 DEF Completion, Consistent, Rows
<1>4. edited \in Rows /\ touched \in Rows
  BY <1>1, <1>2, <1>3 DEF Rows
<1>5. Consistent(touched, now)
  BY <1>1, <1>2, <1>3 DEF Consistent, Rows
<1>6. Consistent(row, now)
  BY <1>1 DEF Consistent, Rows
<1>7. Applied(row, e, now) \in {row, touched}
  BY DEF Applied
<1> QED
  BY <1>4, <1>5, <1>6, <1>7 DEF Rows

\* A row consistent at one reading of the clock stays so.
LEMMA ConsistentLater ==
  ASSUME NEW row \in Rows, NEW now \in Nat, Consistent(row, now)
  PROVE  Consistent(row, now + 1)
  BY DEF Consistent, Rows

\* A call that leaves the table alone and holds a consistent copy, or none, keeps
\* the invariant.
LEMMA CallGoesOn ==
  ASSUME Consistency, NEW o \in Ops, NEW c,
         calls' = [calls EXCEPT ![o] = c], Holds(o, c),
         c.at \in {"insert", "save"} => Consistent(c.row, clock'),
         UNCHANGED rows, clock' \in {clock, clock + 1},
         begun' \in 0..MaxOps, overlapped' \subseteq Ops
  PROVE  Consistency'
<1>1. TypeOK'
  BY DEF Consistency, TypeOK, Ids, Holds
<1>2. ASSUME NEW i \in Ids PROVE Consistent(rows[i], clock')
  BY ConsistentLater DEF Consistency, TypeOK, Ids
<1>3. ASSUME NEW p \in Ops, calls'[p].at \in {"insert", "save"}
      PROVE  Consistent(calls'[p].row, clock')
  <2>1. CASE p = o
    BY <1>3, <2>1 DEF Consistency, TypeOK
  <2>2. CASE p # o
    <3>1. calls'[p] = calls[p] /\ calls[p].row \in Rows
      BY <1>3, <2>2 DEF Consistency, TypeOK, Holds, Idle
    <3> QED
      BY <1>3, <3>1, ConsistentLater DEF Consistency, TypeOK
  <2> QED
    BY <2>1, <2>2
<1> QED
  BY <1>1, <1>2, <1>3 DEF Consistency, Ids

\* Every step keeps the table and the copies in memory consistent.
LEMMA ConsistencyStep == Consistency /\ [Next]_vars => Consistency'
<1> SUFFICES ASSUME Consistency, [Next]_vars PROVE Consistency'
  OBVIOUS
<1> TypeOK
  BY DEF Consistency
<1>1. CASE UNCHANGED vars
  BY <1>1 DEF vars, Consistency, TypeOK, Holds, Ids, Addresses
<1>2. ASSUME NEW o \in Ops,
             \/ Begin(o) \/ FindNone(o) \/ FindDoomed(o) \/ FindAndEdit(o)
             \/ Insert(o) \/ Save(o) \/ Delete(o) \/ Fail(o)
      PROVE  Consistency'
  <2>1. CASE Begin(o)
    <3>1. /\ UNCHANGED rows
          /\ begun' \in 0..MaxOps
          /\ overlapped' \subseteq Ops
      BY <2>1, TasksAssumption DEF Begin, TypeOK, Active, Ops
    <3>2. CASE \E c \in Creates :
                 /\ Acceptable(c)
                 /\ clock' = clock + 1
                 /\ Goto(o, [at |-> "insert", row |->
                      [id |-> o, title |-> c.title, notes |-> c.notes, status |-> "open",
                       project |-> c.project, completed |-> 0, created |-> clock',
                       updated |-> clock']])
      <4>1. PICK c \in Creates :
              /\ Acceptable(c)
              /\ clock' = clock + 1
              /\ Goto(o, [at |-> "insert", row |->
                   [id |-> o, title |-> c.title, notes |-> c.notes, status |-> "open",
                    project |-> c.project, completed |-> 0, created |-> clock',
                    updated |-> clock']])
        BY <3>2
      <4> DEFINE row == [id |-> o, title |-> c.title, notes |-> c.notes, status |-> "open",
                         project |-> c.project, completed |-> 0, created |-> clock + 1,
                         updated |-> clock + 1]
      <4>a. /\ c.title \in Titles /\ c.notes \in Notes \cup {NoNotes}
            /\ c.project \in Filings
        BY <4>1, TasksAssumption DEF Acceptable, Filings
      <4>2. row \in Rows /\ Consistent(row, clock + 1)
        BY <4>a DEF Rows, Statuses, Consistent, TypeOK
      <4>3. Holds(o, [at |-> "insert", row |-> row])
        BY <4>2 DEF Holds
      <4> QED
        BY <3>1, <4>1, <4>2, <4>3, CallGoesOn DEF Goto
    <3>3. CASE \E a \in Addressed, e \in Edits :
                 /\ Goto(o, [at |-> "find", tool |-> "update", address |-> a, edit |-> e])
                 /\ UNCHANGED clock
      <4>1. PICK a \in Addressed, e \in Edits :
              /\ Goto(o, [at |-> "find", tool |-> "update", address |-> a, edit |-> e])
              /\ UNCHANGED clock
        BY <3>3
      <4>2. Holds(o, [at |-> "find", tool |-> "update", address |-> a, edit |-> e])
        BY DEF Holds, Addressed
      <4> QED
        BY <3>1, <4>1, <4>2, CallGoesOn DEF Goto
    <3>4. CASE \E a \in Addressed :
                 /\ Goto(o, [at |-> "find", tool |-> "delete", address |-> a])
                 /\ UNCHANGED clock
      <4>1. PICK a \in Addressed :
              /\ Goto(o, [at |-> "find", tool |-> "delete", address |-> a])
              /\ UNCHANGED clock
        BY <3>4
      <4>2. Holds(o, [at |-> "find", tool |-> "delete", address |-> a])
        BY DEF Holds, Addressed
      <4> QED
        BY <3>1, <4>1, <4>2, CallGoesOn DEF Goto
    <3>5. CASE Finish(o) /\ clock' \in {clock, clock + 1}
      <4>1. Holds(o, [at |-> "done"])
        BY DEF Holds
      <4> QED
        BY <3>1, <3>5, <4>1, CallGoesOn DEF Finish
    <3> QED
      BY <2>1, <3>2, <3>3, <3>4, <3>5 DEF Begin
  <2>2. CASE FindNone(o) \/ Fail(o)
    <3>1. Finish(o) /\ UNCHANGED <<rows, clock, begun, overlapped>>
      BY <2>2 DEF FindNone, Fail
    <3>2. Holds(o, [at |-> "done"])
      BY DEF Holds
    <3> QED
      BY <3>1, <3>2, CallGoesOn DEF Finish, TypeOK
  <2>3. CASE FindDoomed(o)
    <3>1. PICK i \in Ids :
            Goto(o, [at |-> "delete", id |-> i, address |-> calls[o].address])
      BY <2>3 DEF FindDoomed
    <3>2. UNCHANGED <<rows, clock, begun, overlapped>> /\ At(o, "find")
      BY <2>3 DEF FindDoomed
    <3>3. calls[o].address \in Addresses
      BY <3>2 DEF TypeOK, Holds, At, Idle
    <3>4. Holds(o, [at |-> "delete", id |-> i, address |-> calls[o].address])
      BY <3>3 DEF Holds, Ids
    <3> QED
      BY <3>1, <3>2, <3>4, CallGoesOn DEF Goto, TypeOK
  <2>4. CASE FindAndEdit(o)
    <3> DEFINE e == calls[o].edit
               next(i) == [at |-> "save", row |-> Applied(rows[i], e, clock + 1), edit |-> e,
                           address |-> calls[o].address]
    <3>1. PICK i \in Ids : Finish(o) \/ (Acceptable(e) /\ Goto(o, next(i)))
      BY <2>4 DEF FindAndEdit
    <3>2. /\ UNCHANGED <<rows, begun, overlapped>> /\ clock' = clock + 1
          /\ At(o, "find") /\ calls[o].tool = "update"
      BY <2>4 DEF FindAndEdit
    <3>3. calls[o].address \in Addresses /\ e \in Edits
      BY <3>2 DEF TypeOK, Holds, At, Idle
    <3>4. rows[i] \in Rows /\ Consistent(rows[i], clock) /\ clock \in Nat
      BY DEF Consistency, TypeOK, Ids
    <3>5. CASE Finish(o)
      <4>1. Holds(o, [at |-> "done"])
        BY DEF Holds
      <4> QED
        BY <3>2, <3>5, <4>1, CallGoesOn DEF Finish, TypeOK
    <3>6. CASE Acceptable(e) /\ Goto(o, next(i))
      <4>1. /\ Applied(rows[i], e, clock + 1) \in Rows
            /\ Consistent(Applied(rows[i], e, clock + 1), clock + 1)
        BY <3>3, <3>4, <3>6, AppliedIsConsistent
      <4>2. Holds(o, next(i))
        BY <3>3, <4>1 DEF Holds
      <4> HIDE DEF e
      <4> QED
        BY <3>2, <3>6, <4>1, <4>2, CallGoesOn DEF Goto, TypeOK
    <3> QED
      BY <3>1, <3>5, <3>6
  <2>5. CASE Insert(o) \/ Save(o)
    <3>1. \E i \in Ops :
            /\ rows' = [rows EXCEPT ![i] = calls[o].row]
            /\ calls[o].row \in Rows /\ calls[o].row.id = i
            /\ Consistent(calls[o].row, clock)
      <4>1. CASE Insert(o)
        <5>1. calls[o].row \in Rows /\ calls[o].row.id = o /\ Consistent(calls[o].row, clock)
          BY <4>1 DEF Insert, At, Consistency, TypeOK, Holds, Idle
        <5>2. rows' = [rows EXCEPT ![o] = calls[o].row]
          BY <4>1 DEF Insert
        <5> QED
          BY <5>1, <5>2
      <4>2. CASE Save(o)
        <5>1. calls[o].row \in Rows /\ Consistent(calls[o].row, clock)
          BY <4>2 DEF Save, At, Consistency, TypeOK, Holds, Idle
        <5> QED
          BY <4>2, <5>1 DEF Save, Rows
      <4> QED
        BY <2>5, <4>1, <4>2
    <3>2. Finish(o) /\ UNCHANGED <<clock, begun, overlapped>>
      BY <2>5 DEF Insert, Save
    <3> QED
      BY <3>1, <3>2 DEF Finish, Consistency, TypeOK, Holds, Ids
  <2>6. CASE Delete(o)
    <3>1. /\ rows' = [rows EXCEPT ![calls[o].id] = NoRow]
          /\ Finish(o) /\ UNCHANGED <<clock, begun, overlapped>>
      BY <2>6 DEF Delete
    <3> QED
      BY <3>1 DEF Finish, Consistency, TypeOK, Holds, Ids
  <2> QED
    BY <1>2, <2>1, <2>2, <2>3, <2>4, <2>5, <2>6
<1> QED
  BY <1>1, <1>2 DEF Next

\* So they are always consistent.
LEMMA ConsistencyInvariant == Spec => []Consistency
<1>1. Init => Consistency
  BY TasksAssumption DEF Init, Consistency, TypeOK, Holds, Ids, Idle, Ops
<1> QED
  BY <1>1, ConsistencyStep, PTL DEF Spec

\* Every variable keeps its type.
THEOREM TypeCorrect == Spec => []TypeOK
<1>1. Consistency => TypeOK
  BY DEF Consistency
<1> QED
  BY <1>1, ConsistencyInvariant, PTL

\* A task is done exactly when it has a completion instant, and its instants are in
\* order, however many calls edit it at once and whichever copy is stored last.
THEOREM TasksStayConsistent == Spec => []RowsConsistent
<1>1. Consistency => RowsConsistent
  BY DEF RowsConsistent, Consistency, Consistent, DoneIffCompleted, TimesOrdered
<1> QED
  BY <1>1, ConsistencyInvariant, PTL

-----------------------------------------------------------------------------
\* What a call that runs beside no other has found is what the table still holds.
Knows(c) ==
  /\ c.at = "save" =>
       /\ c.row.id \in Ids /\ Found(c.address) = {c.row.id}
       /\ \E now \in Nat : c.row = Applied(rows[c.row.id], c.edit, now)
  /\ c.at = "delete" => c.id \in Ids /\ Found(c.address) = {c.id}

AloneInv == \A o \in Active : o \notin overlapped => Active = {o} /\ Knows(calls[o])

\* Calls that have not begun are idle, and overlap nothing.
NotBegun == \A o \in Ops : o > begun => calls[o] = Idle /\ o \notin overlapped

LEMMA Steps ==
  ASSUME TypeOK, NEW o \in Ops,
         \/ FindNone(o) \/ FindDoomed(o) \/ FindAndEdit(o)
         \/ Insert(o) \/ Save(o) \/ Delete(o) \/ Fail(o)
  PROVE  /\ o \in Active /\ UNCHANGED <<begun, overlapped>>
         /\ \A p \in Ops : p # o => calls'[p] = calls[p]
         /\ \/ calls'[o].at = "done"
            \/ UNCHANGED rows /\ Knows(calls[o])'
<1>1. CASE FindNone(o) \/ Insert(o) \/ Save(o) \/ Delete(o) \/ Fail(o)
  <2>1. Finish(o) /\ UNCHANGED <<begun, overlapped>> /\ o \in Active
    BY <1>1 DEF FindNone, Insert, Save, Delete, Fail, At, Active, Places
  <2> QED BY <2>1 DEF Finish, TypeOK
<1>2. CASE FindDoomed(o)
  <2>1. PICK i \in Ids : /\ Found(calls[o].address) = {i}
                         /\ Goto(o, [at |-> "delete", id |-> i, address |-> calls[o].address])
    BY <1>2 DEF FindDoomed
  <2>2. o \in Active /\ UNCHANGED <<rows, begun, overlapped>>
    BY <1>2 DEF FindDoomed, At, Active, Places
  <2>3. /\ calls'[o].at = "delete" /\ calls'[o].id = i /\ calls'[o].address = calls[o].address
        /\ \A p \in Ops : p # o => calls'[p] = calls[p]
    BY <2>1 DEF Goto, TypeOK
  <2>4. Ids' = Ids /\ Found(calls[o].address)' = Found(calls[o].address)
    BY <2>2, <2>3 DEF Ids, Found, Matches
  <2> QED BY <2>1, <2>2, <2>3, <2>4 DEF Knows
<1>3. CASE FindAndEdit(o)
  <2> DEFINE e == calls[o].edit
             next(i) == [at |-> "save", row |-> Applied(rows[i], e, clock + 1), edit |-> e,
                         address |-> calls[o].address]
  <2>1. PICK i \in Ids : /\ Found(calls[o].address) = {i}
                         /\ Finish(o) \/ (Acceptable(e) /\ Goto(o, next(i)))
    BY <1>3 DEF FindAndEdit
  <2>2. /\ o \in Active /\ UNCHANGED <<rows, begun, overlapped>>
        /\ At(o, "find") /\ calls[o].tool = "update"
    BY <1>3 DEF FindAndEdit, At, Active, Places
  <2>3. CASE Finish(o)
    BY <2>2, <2>3 DEF Finish, TypeOK
  <2>4. CASE Acceptable(e) /\ Goto(o, next(i))
    <3>1. /\ calls'[o].at = "save" /\ calls'[o].row = Applied(rows[i], e, clock + 1)
          /\ calls'[o].edit = e /\ calls'[o].address = calls[o].address
          /\ \A p \in Ops : p # o => calls'[p] = calls[p]
      BY <2>4 DEF Goto, TypeOK
    <3>2. Applied(rows[i], e, clock + 1).id = i
      <4>1. rows[i] \in Rows /\ rows[i].id = i
        BY DEF TypeOK, Ids
      <4> QED BY <4>1 DEF Applied, Rows
    <3>3. Ids' = Ids /\ Found(calls[o].address)' = Found(calls[o].address)
      BY <2>2, <3>1 DEF Ids, Found, Matches
    <3>4. clock + 1 \in Nat
      BY DEF TypeOK
    <3>5. Applied(rows'[i], e, clock + 1) = Applied(rows[i], e, clock + 1)
      BY <2>2
    <3> HIDE DEF e
    <3> QED BY <2>1, <2>2, <3>1, <3>2, <3>3, <3>4, <3>5 DEF Knows
  <2> QED BY <2>1, <2>3, <2>4
<1> QED BY <1>1, <1>2, <1>3

LEMMA Starts ==
  ASSUME TypeOK, NEW o \in Ops, Begin(o)
  PROVE  /\ o = begun + 1 /\ begun' = o /\ UNCHANGED rows
         /\ overlapped' = overlapped \cup (IF Active = {} THEN {} ELSE Active \cup {o})
         /\ \A p \in Ops : p # o => calls'[p] = calls[p]
         /\ calls'[o].at \in {"insert", "find", "done"}
<1> DEFINE Moved == /\ \A p \in Ops : p # o => calls'[p] = calls[p]
                    /\ calls'[o].at \in {"insert", "find", "done"}
<1> SUFFICES Moved
  BY DEF Begin
<1>1. ASSUME NEW c, calls' = [calls EXCEPT ![o] = c], c.at \in {"insert", "find", "done"}
      PROVE  Moved
  BY <1>1 DEF TypeOK
<1> HIDE DEF Moved
<1>2. CASE \E row : Goto(o, [at |-> "insert", row |-> row])
  <2>1. PICK row : Goto(o, [at |-> "insert", row |-> row])
    BY <1>2
  <2> QED BY <1>1, <2>1 DEF Goto
<1>3. CASE \E a, e : Goto(o, [at |-> "find", tool |-> "update", address |-> a, edit |-> e])
  <2>1. PICK a, e : Goto(o, [at |-> "find", tool |-> "update", address |-> a, edit |-> e])
    BY <1>3
  <2> QED BY <1>1, <2>1 DEF Goto
<1>4. CASE \E a : Goto(o, [at |-> "find", tool |-> "delete", address |-> a])
  <2>1. PICK a : Goto(o, [at |-> "find", tool |-> "delete", address |-> a])
    BY <1>4
  <2> QED BY <1>1, <2>1 DEF Goto
<1>5. CASE Finish(o)
  BY <1>1, <1>5 DEF Finish
<1> QED BY <1>2, <1>3, <1>4, <1>5 DEF Begin

LEMMA AloneStep == TypeOK /\ NotBegun /\ AloneInv /\ [Next]_vars => NotBegun' /\ AloneInv'
<1> SUFFICES ASSUME TypeOK, NotBegun, AloneInv, [Next]_vars PROVE NotBegun' /\ AloneInv'
  OBVIOUS
<1>0. \A o \in Ops : o \in Nat
  BY TasksAssumption DEF Ops
<1>1. CASE UNCHANGED vars
  <2>1. \A o \in Ops : Knows(calls[o]) => Knows(calls[o])'
    BY <1>1 DEF vars, Knows, Ids, Found, Matches
  <2> QED BY <1>1, <2>1 DEF vars, NotBegun, AloneInv, Active
<1>2. ASSUME NEW o \in Ops,
             \/ FindNone(o) \/ FindDoomed(o) \/ FindAndEdit(o)
             \/ Insert(o) \/ Save(o) \/ Delete(o) \/ Fail(o)
      PROVE  NotBegun' /\ AloneInv'
  <2>1. /\ o \in Active /\ UNCHANGED <<begun, overlapped>>
        /\ \A p \in Ops : p # o => calls'[p] = calls[p]
        /\ calls'[o].at = "done" \/ (UNCHANGED rows /\ Knows(calls[o])')
    BY <1>2, Steps
  <2>2. NotBegun'
    BY <2>1 DEF NotBegun, Active, Idle, Places
  <2>3. ASSUME NEW p \in Active', p \notin overlapped' PROVE Active' = {p} /\ Knows(calls[p])'
    <3>1. p \in Active
      BY <2>1 DEF Active
    <3>2. Active = {p} /\ p = o
      BY <2>1, <2>3, <3>1 DEF AloneInv
    <3>3. calls'[o].at # "done"
      BY <2>3, <3>2 DEF Active, Places
    <3>4. Active' = {p}
      BY <2>1, <2>3, <3>2 DEF Active
    <3> QED BY <2>1, <3>2, <3>3, <3>4
  <2> QED BY <2>2, <2>3 DEF AloneInv
<1>3. ASSUME NEW o \in Ops, Begin(o) PROVE NotBegun' /\ AloneInv'
  <2>1. /\ o = begun + 1 /\ begun' = o /\ UNCHANGED rows
        /\ overlapped' = overlapped \cup (IF Active = {} THEN {} ELSE Active \cup {o})
        /\ \A p \in Ops : p # o => calls'[p] = calls[p]
        /\ calls'[o].at \in {"insert", "find", "done"}
    BY <1>3, Starts
  <2>2. begun \in Nat
    BY TasksAssumption DEF TypeOK
  <2>3. NotBegun'
    <3>1. ASSUME NEW p \in Ops, p > o PROVE calls'[p] = Idle /\ p \notin overlapped'
      <4>1. p > begun /\ p # o
        BY <2>1, <2>2, <3>1 DEF Ops
      <4>2. calls[p] = Idle /\ p \notin overlapped
        BY <1>0, <4>1 DEF NotBegun
      <4>3. p \notin Active
        BY <4>2 DEF Active, Idle, Places
      <4> QED BY <2>1, <4>1, <4>2, <4>3
    <3> QED BY <2>1, <3>1 DEF NotBegun
  <2>4. ASSUME NEW p \in Active', p \notin overlapped' PROVE Active' = {p} /\ Knows(calls[p])'
    <3>1. Active = {} /\ p = o
      BY <2>1, <2>4 DEF Active
    <3>2. Active' = {o}
      BY <2>1, <2>4, <3>1 DEF Active
    <3> QED BY <2>1, <3>1, <3>2 DEF Knows
  <2> QED BY <2>3, <2>4 DEF AloneInv
<1> QED BY <1>1, <1>2, <1>3 DEF Next

LEMMA AloneInvariant == Spec => [](TypeOK /\ NotBegun /\ AloneInv)
<1>1. Init => NotBegun /\ AloneInv
  BY DEF Init, NotBegun, AloneInv, Active, Idle, Places
<1> QED BY <1>1, AloneStep, TypeCorrect, PTL DEF Spec

-----------------------------------------------------------------------------
\* A call that runs beside no other changes the one row it has found.
LEMMA AloneWrites ==
  ASSUME TypeOK, AloneInv, [Next]_vars, NEW o \in Ops, Writes(o), Alone(o),
         calls[o].at \in {"save", "delete"}
  PROVE  \E i \in Ids :
           /\ Changed = {i} /\ Found(calls[o].address) = {i}
           /\ calls[o].at = "save" =>
                \E now \in Nat : rows'[i] = Applied(rows[i], calls[o].edit, now)
<1>1. Active = {o} /\ Knows(calls[o]) /\ rows' # rows
  BY DEF AloneInv, Writes, Alone
<1>2. Save(o) \/ Delete(o)
  <2>1. PICK p \in Ops : Insert(p) \/ Save(p) \/ Delete(p)
    BY <1>1 DEF Next, vars, Begin, FindNone, FindDoomed, FindAndEdit, Fail
  <2>2. p = o
    BY <1>1, <2>1 DEF Insert, Save, Delete, At, Active, Places
  <2> QED BY <2>1, <2>2 DEF Insert, At
<1>3. CASE Save(o)
  <2>1. calls[o].at = "save" /\ rows' = [rows EXCEPT ![calls[o].row.id] = calls[o].row]
    BY <1>3 DEF Save, At
  <2>2. PICK i \in Ids : /\ i = calls[o].row.id /\ Found(calls[o].address) = {i}
                         /\ \E now \in Nat : calls[o].row = Applied(rows[i], calls[o].edit, now)
    BY <1>1, <2>1 DEF Knows
  <2>3. rows'[i] = calls[o].row /\ \A j \in Ops : j # i => rows'[j] = rows[j]
    BY <2>1, <2>2 DEF TypeOK, Ids
  <2>4. Changed = {i}
    <3>0. rows = [j \in Ops |-> rows[j]] /\ rows' = [j \in Ops |-> rows'[j]]
      BY <2>1 DEF TypeOK
    <3>1. rows'[i] # rows[i]
      <4> SUFFICES ASSUME rows'[i] = rows[i] PROVE rows' = rows
        BY <1>1
      <4>1. \A j \in Ops : rows'[j] = rows[j]
        BY <2>3
      <4> QED BY <3>0, <4>1
    <3> QED BY <2>3, <3>1 DEF Changed, Ids
  <2> QED BY <2>2, <2>3, <2>4
<1>4. CASE Delete(o)
  <2>1. calls[o].at = "delete" /\ rows' = [rows EXCEPT ![calls[o].id] = NoRow]
    BY <1>4 DEF Delete, At
  <2>2. PICK i \in Ids : i = calls[o].id /\ Found(calls[o].address) = {i}
    BY <1>1, <2>1 DEF Knows
  <2>3. rows'[i] = NoRow /\ rows[i] # NoRow /\ \A j \in Ops : j # i => rows'[j] = rows[j]
    BY <2>1, <2>2 DEF TypeOK, Ids
  <2> QED BY <2>1, <2>2, <2>3 DEF Changed, Ids
<1> QED BY <1>2, <1>3, <1>4

\* An update that runs beside no other call changes one task, and of it only what was
\* asked; a task completed anew keeps its first completion instant.
THEOREM NothingElseChanges == Spec => OnlyWhatWasAsked
<1> DEFINE Kept(o) ==
      \A i \in Changed :
         LET e == calls[o].edit
         IN  /\ i \in Ids
             /\ e.title = Keep => rows'[i].title = rows[i].title
             /\ e.notes = Keep => rows'[i].notes = rows[i].notes
             /\ e.project = Keep => rows'[i].project = rows[i].project
             /\ e.status = Keep => rows'[i].status = rows[i].status
             /\ rows[i].status = "done" /\ rows'[i].status = "done" =>
                  rows'[i].completed = rows[i].completed
             /\ rows'[i].created = rows[i].created
<1>1. ASSUME TypeOK, AloneInv, [Next]_vars, NEW o \in Ops, Writes(o), Alone(o), At(o, "save")
      PROVE  Kept(o)
  <2>1. PICK i \in Ids, now \in Nat :
          Changed = {i} /\ rows'[i] = Applied(rows[i], calls[o].edit, now)
    BY <1>1, AloneWrites DEF At
  <2>2. rows[i] \in Rows
    BY <1>1 DEF TypeOK, Ids
  <2>3. PICK e : e = calls[o].edit
    OBVIOUS
  <2>4. /\ e.title = Keep => Applied(rows[i], e, now).title = rows[i].title
        /\ e.notes = Keep => Applied(rows[i], e, now).notes = rows[i].notes
        /\ e.project = Keep => Applied(rows[i], e, now).project = rows[i].project
        /\ e.status = Keep => Applied(rows[i], e, now).status = rows[i].status
        /\ rows[i].status = "done" /\ Applied(rows[i], e, now).status = "done" =>
             Applied(rows[i], e, now).completed = rows[i].completed
        /\ Applied(rows[i], e, now).created = rows[i].created
    BY <2>2 DEF Applied, Asked, Completion, Rows
  <2> QED BY <2>1, <2>3, <2>4
<1>2. TypeOK /\ AloneInv /\ [Next]_vars =>
        [\A o \in Ops : Writes(o) /\ Alone(o) /\ At(o, "save") => Kept(o)]_vars
  BY <1>1
<1> QED BY <1>2, AloneInvariant, PTL DEF Spec, OnlyWhatWasAsked

\* An update or a deletion by text that runs beside no other call reaches the one task
\* with that title or, if there is none, the one task with the text in its title or notes.
THEOREM NamedTaskReached == Spec => ReachesTheNamedTask
<1> DEFINE Reaches(o) ==
      LET a == calls[o].address
          inScope == {i \in Ids : a.scope \in {Keep, rows[i].project}}
          titled == {i \in inScope : rows[i].title = a.ref}
          named == {i \in inScope : \/ rows[i].title \in Mentions[a.ref]
                                    \/ rows[i].notes \in Mentions[a.ref]}
      IN  a.by = "text" => titled = Changed \/ (titled = {} /\ named = Changed)
<1>1. ASSUME TypeOK, AloneInv, [Next]_vars, NEW o \in Ops, Writes(o), Alone(o),
             calls[o].at \in {"save", "delete"}
      PROVE  Reaches(o)
  <2>1. Found(calls[o].address) = Changed
    BY <1>1, AloneWrites
  <2> QED BY <2>1 DEF Found, Matches, Select
<1>2. TypeOK /\ AloneInv /\ [Next]_vars =>
        [\A o \in Ops : Writes(o) /\ Alone(o) /\ calls[o].at \in {"save", "delete"}
                        => Reaches(o)]_vars
  BY <1>1
<1> QED BY <1>2, AloneInvariant, PTL DEF Spec, ReachesTheNamedTask

\* A deleted task comes back only through the update of a call that overlapped another.
THEOREM ComesBack == Spec => ComesBackOnlyInOverlap
<1> DEFINE Asker(i) ==
      \/ At(i, "insert")
      \/ \E o \in overlapped : At(o, "save") /\ calls[o].row.id = i
<1>1. ASSUME TypeOK, AloneInv, [Next]_vars, NEW i \in Ops, i \notin Ids, rows'[i] # NoRow
      PROVE  Asker(i)
  <2>1. rows[i] = NoRow /\ rows' # rows
    BY <1>1 DEF Ids
  <2>2. PICK o \in Ops : Insert(o) \/ Save(o)
    <3>1. \A o \in Ops : ~Delete(o)
      BY <1>1, <2>1 DEF Delete, TypeOK
    <3> QED BY <1>1, <2>1, <3>1 DEF Next, vars, Begin, FindNone, FindDoomed, FindAndEdit, Fail
  <2>3. CASE Insert(o)
    BY <1>1, <2>1, <2>3 DEF Insert, TypeOK
  <2>4. CASE Save(o)
    <3>1. calls[o].row.id = i /\ At(o, "save") /\ o \in Active
      BY <1>1, <2>1, <2>4 DEF Save, TypeOK, At, Active, Places
    <3>2. o \in overlapped
      BY <1>1, <3>1 DEF AloneInv, Knows, At
    <3> QED BY <3>1, <3>2
  <2> QED BY <2>2, <2>3, <2>4
<1>2. TypeOK /\ AloneInv /\ [Next]_vars => [\A i \in Ops \ Ids : rows'[i] # NoRow => Asker(i)]_vars
  BY <1>1
<1> QED BY <1>2, AloneInvariant, PTL DEF Spec, ComesBackOnlyInOverlap
=============================================================================
