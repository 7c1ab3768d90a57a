---------------------------- MODULE DemoSeedProofs ----------------------------
(***************************************************************************)
(* Proofs about DemoSeed, for any number of commands, rows, edits and      *)
(* attempts: the types, that a command that is over has closed what it     *)
(* opened, and that every step is a step of WorkspaceSeeding, or one that  *)
(* the owner does not see.  The first part is about Connection alone: what *)
(* every step of a process does to its connection, whatever its work is.   *)
(***************************************************************************)
EXTENDS DemoSeed, TLAPS

-----------------------------------------------------------------------------
(* The connection of a process.                                            *)

\* Where a process is determines what it holds: the driver is open from its creation
\* until its stop is begun, and the pool from the end of the attempts until its own.
\* Attempts are left for one that is paused, and nothing has ended before a process
\* begins to close.
Fit(d, o, s, a, e) ==
  /\ s \in {"waiting", "pausing", "using", "stopping pool", "stopping driver"} => d = "open"
  /\ s = "over" => d \in {"stopped", "cut"}
  /\ o = "open" <=> s \in {"using", "stopping pool"}
  /\ s = "pausing" => a < ConnectAttempts
  /\ s \in {"idle", "waiting", "pausing", "using"} => e = "none"

Right(d, o, s, a, e) ==
  /\ d \in Resources /\ o \in Resources /\ s \in Stages /\ a \in 0..ConnectAttempts
  /\ e \in Endings
  /\ Fit(d, o, s, a, e)

ConnectionInv ==
  /\ ConnectionTypes
  /\ \A p \in Commands : Fit(driver[p], pool[p], stage[p], attempt[p], ending[p])

\* The connection of p alone changes, to this.
Becomes(p, d, o, s, a, e) ==
  /\ driver' = [driver EXCEPT ![p] = d]
  /\ pool' = [pool EXCEPT ![p] = o]
  /\ stage' = [stage EXCEPT ![p] = s]
  /\ attempt' = [attempt EXCEPT ![p] = a]
  /\ ending' = [ending EXCEPT ![p] = e]

\* What a step can do to the connection of one process.
Changes(p) ==
  \/ ConnectionStep(p) \/ Interrupt(p) \/ Die(p)
  \/ In(p, "using") /\ \E how \in {"ok", "refused", "failed"} : Leave(p, how)

LEMMA ConnectionBegins == ConnectionInit => ConnectionInv
BY ConnectionAssumption
   DEF ConnectionAssumption, ConnectionInit, ConnectionInv, ConnectionTypes, Fit,
       Resources, Stages, Endings

\* It is enough that what one process comes to hold fits where it is.
LEMMA OneConnection ==
  ASSUME ConnectionInv, NEW p \in Commands, NEW d, NEW o, NEW s, NEW a, NEW e,
         Becomes(p, d, o, s, a, e), Right(d, o, s, a, e)
  PROVE  ConnectionInv'
<1>1. ConnectionTypes'
  BY DEF ConnectionInv, ConnectionTypes, Becomes, Right
<1>2. ASSUME NEW q \in Commands
      PROVE  Fit(driver'[q], pool'[q], stage'[q], attempt'[q], ending'[q])
  <2>1. CASE q = p
    BY <2>1 DEF ConnectionInv, ConnectionTypes, Becomes, Right
  <2>2. CASE q # p
    BY <2>2 DEF ConnectionInv, ConnectionTypes, Becomes
  <2> QED BY <2>1, <2>2
<1> QED BY <1>1, <1>2 DEF ConnectionInv, Fit

LEMMA ConnectionStays ==
  ASSUME ConnectionInv, NEW p \in Commands, Changes(p) \/ UNCHANGED connection
  PROVE  ConnectionInv'
<1> DEFINE d == driver[p]  o == pool[p]  s == stage[p]  a == attempt[p]  e == ending[p]
<1>a. Right(d, o, s, a, e)
  BY DEF ConnectionInv, ConnectionTypes, Right
<1>b. /\ driver = [driver EXCEPT ![p] = d] /\ pool = [pool EXCEPT ![p] = o]
      /\ stage = [stage EXCEPT ![p] = s] /\ attempt = [attempt EXCEPT ![p] = a]
      /\ ending = [ending EXCEPT ![p] = e]
  BY DEF ConnectionInv, ConnectionTypes
<1>c. 0 \in 0..ConnectAttempts /\ 1 \in 0..ConnectAttempts /\ ConnectAttempts \in Nat
  BY ConnectionAssumption DEF ConnectionAssumption
<1> HIDE DEF d, o, s, a, e
<1>1. CASE CreateDriver(p)
  <2>1. s = "idle" /\ Becomes(p, "open", o, "waiting", 1, e)
    BY <1>b, <1>1 DEF d, o, s, a, e, CreateDriver, Becomes, In, Enter, SetDriver
  <2>2. Right("open", o, "waiting", 1, e)
    BY <1>a, <1>c, <2>1 DEF Right, Fit, Resources, Stages, Endings
  <2> QED BY <2>1, <2>2, OneConnection
<1>2. CASE Connect(p)
  <2>1. s = "waiting" /\ Becomes(p, d, "open", "using", 0, e)
    BY <1>b, <1>2 DEF d, o, s, a, e, Connect, Becomes, In, Enter, SetPool, NoAttempt
  <2>2. Right(d, "open", "using", 0, e)
    BY <1>a, <1>c, <2>1 DEF Right, Fit, Resources, Stages, Endings
  <2> QED BY <2>1, <2>2, OneConnection
<1>3. CASE NotReady(p)
  <2>1. CASE s = "waiting" /\ a < ConnectAttempts /\ Becomes(p, d, o, "pausing", a, e)
    <3>1. Right(d, o, "pausing", a, e)
      BY <1>a, <1>c, <2>1 DEF Right, Fit, Resources, Stages, Endings
    <3> QED BY <2>1, <3>1, OneConnection
  <2>2. CASE s = "waiting" /\ Becomes(p, d, o, "stopping driver", 0, "failed")
    <3>1. Right(d, o, "stopping driver", 0, "failed")
      BY <1>a, <1>c, <2>2 DEF Right, Fit, Resources, Stages, Endings
    <3> QED BY <2>2, <3>1, OneConnection
  <2> QED BY <1>b, <1>3, <2>1, <2>2 DEF d, o, s, a, e, NotReady, Becomes, In, Enter, EndAs,
              NoAttempt
<1>4. CASE TryAgain(p)
  <2>1. s = "pausing" /\ Becomes(p, d, o, "waiting", a + 1, e)
    BY <1>b, <1>4 DEF d, o, s, a, e, TryAgain, Becomes, In, Enter
  <2>2. Right(d, o, "waiting", a + 1, e)
    BY <1>a, <1>c, <2>1 DEF Right, Fit, Resources, Stages, Endings
  <2> QED BY <2>1, <2>2, OneConnection
<1>5. CASE StopPool(p)
  <2>1. CASE s = "stopping pool" /\ Becomes(p, d, "stopped", "stopping driver", a, e)
    <3>1. Right(d, "stopped", "stopping driver", a, e)
      BY <1>a, <1>c, <2>1 DEF Right, Fit, Resources, Stages, Endings
    <3> QED BY <2>1, <3>1, OneConnection
  <2>2. CASE s = "stopping pool" /\ Becomes(p, d, "cut", "stopping driver", a, "failed")
    <3>1. Right(d, "cut", "stopping driver", a, "failed")
      BY <1>a, <1>c, <2>2 DEF Right, Fit, Resources, Stages, Endings
    <3> QED BY <2>2, <3>1, OneConnection
  <2> QED BY <1>b, <1>5, <2>1, <2>2 DEF d, o, s, a, e, StopPool, Becomes, In, Enter, SetPool, EndAs
<1>6. CASE StopDriver(p)
  <2>1. CASE s = "stopping driver" /\ Becomes(p, "stopped", o, "over", a, e)
    <3>1. Right("stopped", o, "over", a, e)
      BY <1>a, <1>c, <2>1 DEF Right, Fit, Resources, Stages, Endings
    <3> QED BY <2>1, <3>1, OneConnection
  <2>2. CASE s = "stopping driver" /\ Becomes(p, "cut", o, "over", a, "failed")
    <3>1. Right("cut", o, "over", a, "failed")
      BY <1>a, <1>c, <2>2 DEF Right, Fit, Resources, Stages, Endings
    <3> QED BY <2>2, <3>1, OneConnection
  <2> QED BY <1>b, <1>6, <2>1, <2>2 DEF d, o, s, a, e, StopDriver, Becomes, In, Enter,
              SetDriver, EndAs
<1>7. CASE Interrupt(p)
  <2>1. CASE s \in {"waiting", "pausing"} /\ Becomes(p, d, o, "stopping driver", 0, "interrupted")
    <3>1. Right(d, o, "stopping driver", 0, "interrupted")
      BY <1>a, <1>c, <2>1 DEF Right, Fit, Resources, Stages, Endings
    <3> QED BY <2>1, <3>1, OneConnection
  <2>2. CASE s = "using" /\ Becomes(p, d, o, "stopping pool", 0, "interrupted")
    <3>1. Right(d, o, "stopping pool", 0, "interrupted")
      BY <1>a, <1>c, <2>2 DEF Right, Fit, Resources, Stages, Endings
    <3> QED BY <2>2, <3>1, OneConnection
  <2>3. CASE s = "stopping pool" /\ Becomes(p, d, "cut", "stopping driver", 0, "interrupted")
    <3>1. Right(d, "cut", "stopping driver", 0, "interrupted")
      BY <1>a, <1>c, <2>3 DEF Right, Fit, Resources, Stages, Endings
    <3> QED BY <2>3, <3>1, OneConnection
  <2>4. CASE s = "stopping driver" /\ Becomes(p, "cut", o, "over", 0, "interrupted")
    <3>1. Right("cut", o, "over", 0, "interrupted")
      BY <1>a, <1>c, <2>4 DEF Right, Fit, Resources, Stages, Endings
    <3> QED BY <2>4, <3>1, OneConnection
  <2> QED BY <1>b, <1>7, <2>1, <2>2, <2>3, <2>4 DEF d, o, s, a, e, Interrupt, Becomes, In, Enter,
              SetDriver, SetPool, EndAs, NoAttempt
<1>8. CASE Die(p)
  <2>1. Becomes(p, "stopped", "stopped", "over", 0, "killed")
    BY <1>b, <1>8 DEF d, o, s, a, e, Die, Becomes, In, Enter, SetDriver, SetPool, EndAs, NoAttempt
  <2>2. Right("stopped", "stopped", "over", 0, "killed")
    BY <1>a, <1>c, <2>1 DEF Right, Fit, Resources, Stages, Endings
  <2> QED BY <2>1, <2>2, OneConnection
<1>9. CASE In(p, "using") /\ \E how \in {"ok", "refused", "failed"} : Leave(p, how)
  <2>1. PICK how \in {"ok", "refused", "failed"} : Becomes(p, d, o, "stopping pool", a, how)
    BY <1>b, <1>9 DEF d, o, s, a, e, Leave, Becomes, Enter, EndAs
  <2>2. Right(d, o, "stopping pool", a, how)
    BY <1>a, <1>9 DEF s, Right, Fit, Stages, Endings, In
  <2> QED BY <2>1, <2>2, OneConnection
<1>10. CASE UNCHANGED connection
  BY <1>10 DEF connection, ConnectionInv, ConnectionTypes, Fit
<1> QED BY <1>1, <1>2, <1>3, <1>4, <1>5, <1>6, <1>7, <1>8, <1>9, <1>10 DEF Changes, ConnectionStep

\* A process that is over does nothing more, and a step is of one process.
LEMMA StepsOfOne ==
  ASSUME ConnectionInv, NEW p \in Commands, Changes(p)
  PROVE  /\ ~In(p, "over")
         /\ \A q \in Commands \ {p} : stage'[q] = stage[q] /\ ending'[q] = ending[q]
<1> USE DEF ConnectionInv, ConnectionTypes, In, Enter, EndAs, NoAttempt
<1>1. CASE CreateDriver(p) \/ Connect(p) \/ TryAgain(p)
  BY <1>1 DEF CreateDriver, Connect, TryAgain
<1>2. CASE NotReady(p)
  BY <1>2 DEF NotReady
<1>3. CASE StopPool(p)
  BY <1>3 DEF StopPool
<1>4. CASE StopDriver(p)
  BY <1>4 DEF StopDriver
<1>5. CASE Interrupt(p)
  BY <1>5 DEF Interrupt
<1>6. CASE Die(p)
  BY <1>6 DEF Die
<1>7. CASE In(p, "using") /\ \E how \in {"ok", "refused", "failed"} : Leave(p, how)
  BY <1>7 DEF Leave
<1> QED BY <1>1, <1>2, <1>3, <1>4, <1>5, <1>6, <1>7 DEF Changes, ConnectionStep

LEMMA InvLeavesNothingOpen == ConnectionInv => NothingLeftOpen
BY DEF ConnectionInv, Fit, NothingLeftOpen, In

-----------------------------------------------------------------------------
(* The command, its workspace and the owner's edits.                       *)

\* A command has work only while it is connected, and its counters stay below their
\* limits while they may still grow.
Counters ==
  /\ at \in [Commands -> Works]
  /\ written \in [Commands -> 0..Projects + Tasks]
  /\ runs \in [Commands -> 0..MaxAttempts]
  /\ \A p \in Commands :
       /\ ~In(p, "using") => at[p] = "none"
       /\ at[p] = "writing" => written[p] < Projects + Tasks
       /\ at[p] \in {"none", "resolving", "beginning"} => runs[p] < MaxAttempts

\* Nothing is stored before a command has turned to its workspace, one that ends well
\* has stored its rows, and one that has refused closes its connection without having
\* stored any.
Closing == {"stopping pool", "stopping driver", "over"}
StoredInv ==
  /\ stored \subseteq Commands /\ refusals \subseteq Commands
  /\ \A p \in Commands :
       /\ stage[p] \in {"idle", "waiting", "pausing"} => p \notin stored
       /\ At(p, "resolving") => p \notin stored
       /\ ending[p] = "ok" => p \in stored
       /\ p \in refusals => p \notin stored /\ stage[p] \in Closing

\* Every content, in a row or in the hands of an edit, derives from a seeding that
\* was stored, or from none.
Derived(c) == c \in Contents /\ (c.anchor # None => \E p \in stored : c.anchor = AnchorOf[p])

RowsInv ==
  /\ rows \in [Demo \cup Own -> Contents]
  /\ edits \in [Edits -> [at : {"to come", "holding", "made"}, row : Editable \cup {0},
                          content : Contents]]
  /\ \A i \in Demo \cup Own : Derived(rows[i])
  /\ \A e \in Edits :
       Derived(edits[e].content) /\ (edits[e].at = "holding" => edits[e].row \in Editable)

Inv == ConnectionInv /\ Counters /\ StoredInv /\ RowsInv

\* A command's part of a step, as WorkspaceSeeding sees it: its transaction takes
\* effect, or it does not.
Stores(p) == At(p, "committing") /\ Take(p)

-----------------------------------------------------------------------------
LEMMA Sizes ==
  /\ Projects + Tasks \in Nat \ {0} /\ MaxAttempts \in Nat \ {0}
  /\ Editable \subseteq Demo \cup Own /\ Demo \cup Editable = Demo \cup Own
BY SeedAssumption DEF SeedAssumption, Demo, Editable

LEMMA SeededIsContent ==
  ASSUME NEW p \in Commands
  PROVE  Seeded(p) \in Contents /\ Seeded(p).anchor = AnchorOf[p]
BY DEF Seeded, Contents, Anchors

LEMMA PlainContents == Derived(Absent) /\ Derived(Untouched)
BY DEF Derived, Absent, Untouched, Contents

LEMMA EditedIsDerived ==
  ASSUME RowsInv, NEW e \in Edits
  PROVE  Derived([edits[e].content EXCEPT !.edit = e])
<1> DEFINE old == edits[e].content
           new == [old EXCEPT !.edit = e]
<1>1. Derived(old)
  BY DEF RowsInv
<1>2. new \in Contents
  BY <1>1 DEF Derived, Contents
<1>3. new.anchor = old.anchor
  BY <1>1 DEF Derived, Contents
<1> QED BY <1>1, <1>2, <1>3 DEF Derived

\* A command refuses before it has work on its rows.
Refuses(p) ==
  At(p, "resolving") /\ Leave(p, "refused") /\ refusals' = refusals \cup {p} /\ Nothing

\* Each step of a command is a step of its connection, and stores its rows or not.
LEMMA CommandSteps ==
  ASSUME NEW p \in Commands, Step(p) \/ CutShort(p)
  PROVE  /\ Changes(p) \/ UNCHANGED connection
         /\ Stores(p) \/ Nothing
         /\ UNCHANGED refusals \/ Refuses(p)
         /\ UNCHANGED edits
<1>1. CASE AroundWork(p)
  BY <1>1 DEF AroundWork, Changes, ConnectionStep, Nothing
<1>2. CASE Open(p)
  BY <1>2 DEF Open, Changes, ConnectionStep, Nothing
<1>3. CASE Resolve(p)
  BY <1>3 DEF Resolve, Refuse, Refuses, GoOn, Finish, Changes, Nothing, At
<1>4. CASE Begin(p)
  BY <1>4 DEF Begin, GoOn, Finish, Changes, Nothing, At
<1>5. CASE Write(p)
  BY <1>5 DEF Write, GoOn, Nothing
<1>6. CASE FailToWrite(p)
  BY <1>6 DEF FailToWrite, Finish, Changes, Nothing, At
<1>7. CASE Commit(p)
  BY <1>7 DEF Commit, ReplayOrGiveUp, GoOn, Finish, Changes, Stores, At
<1>8. CASE CutShort(p)
  BY <1>8 DEF CutShort, Changes, Stores
<1> QED BY <1>1, <1>2, <1>3, <1>4, <1>5, <1>6, <1>7, <1>8 DEF Step

-----------------------------------------------------------------------------
LEMMA Begins == Init => Inv
<1> SUFFICES ASSUME Init PROVE Inv
  OBVIOUS
<1>1. ConnectionInv
  BY ConnectionBegins DEF Init
<1>2. Counters
  <2>1. 0 \in 0..Projects + Tasks /\ 0 \in 0..MaxAttempts /\ 0 < MaxAttempts
    BY Sizes
  <2> QED BY <2>1 DEF Init, Counters, Works
<1>3. StoredInv
  BY DEF Init, ConnectionInit, StoredInv, At, In
<1>4. RowsInv
  <2>1. \A i \in Demo \cup Own : rows[i] \in {Absent, Untouched}
    BY DEF Init
  <2>2. \A e \in Edits : edits[e] = Idle("to come")
    BY DEF Init
  <2>3. \A i \in Demo \cup Own : Derived(rows[i])
    BY <2>1, PlainContents
  <2>4. rows \in [Demo \cup Own -> Contents]
    BY <2>1, PlainContents DEF Init, Derived
  <2>5. Idle("to come").content = Absent /\ Idle("to come").at = "to come"
    BY DEF Idle
  <2>6. edits \in [Edits -> [at : {"to come", "holding", "made"}, row : Editable \cup {0},
                             content : Contents]]
    BY <2>2, PlainContents DEF Init, Idle, Derived
  <2> QED BY <2>2, <2>3, <2>4, <2>5, <2>6, PlainContents DEF RowsInv
<1> QED BY <1>1, <1>2, <1>3, <1>4 DEF Inv

LEMMA CountersStay ==
  ASSUME ConnectionInv, Counters, NEW p \in Commands, Step(p) \/ CutShort(p)
  PROVE  Counters'
<1>0. \A q \in Commands \ {p} : stage'[q] = stage[q]
  BY CommandSteps, StepsOfOne DEF connection
<1> USE Sizes, <1>0 DEF Counters, Works, Goto, In
<1>1. CASE AroundWork(p)
  BY <1>1 DEF AroundWork, work, CreateDriver, NotReady, TryAgain, StopPool, StopDriver,
              Enter, ConnectionInv, ConnectionTypes
<1>2. CASE Open(p)
  BY <1>2 DEF Open, Connect, Enter, ConnectionInv, ConnectionTypes
<1>3. CASE Drop(p)
  BY <1>3 DEF Drop
<1>4. CASE At(p, "resolving") /\ GoOn(p, "beginning") /\ UNCHANGED <<written, runs>>
  BY <1>4 DEF GoOn, connection, At
<1>5. CASE /\ GoOn(p, "writing")
           /\ At(p, "beginning")
           /\ runs' = [runs EXCEPT ![p] = @ + 1]
           /\ written' = [written EXCEPT ![p] = 0]
  BY <1>5 DEF GoOn, connection, At
<1>6. CASE /\ runs[p] + 1 < MaxAttempts /\ At(p, "beginning")
           /\ GoOn(p, "beginning")
           /\ runs' = [runs EXCEPT ![p] = @ + 1]
           /\ UNCHANGED written
  BY <1>6 DEF At, GoOn, connection
<1>7. CASE Write(p)
  BY <1>7 DEF Write, GoOn, connection, At
<1>8. CASE /\ runs[p] < MaxAttempts /\ At(p, "committing")
           /\ GoOn(p, "beginning") /\ UNCHANGED <<written, runs>>
  BY <1>8 DEF At, GoOn, connection
<1> QED
  BY <1>1, <1>2, <1>3, <1>4, <1>5, <1>6, <1>7, <1>8
     DEF Step, CutShort, Resolve, Refuse, Begin, FailToWrite, Commit, ReplayOrGiveUp, Finish

LEMMA StoredStays ==
  ASSUME ConnectionInv, StoredInv, Counters, NEW p \in Commands, Step(p) \/ CutShort(p)
  PROVE  StoredInv'
<1>1. \A q \in Commands \ {p} : stage'[q] = stage[q] /\ ending'[q] = ending[q]
  BY CommandSteps, StepsOfOne DEF connection
<1>2. \A q \in Commands \ {p} : at'[q] = at[q]
  BY DEF Counters, Step, CutShort, AroundWork, work, Open, Resolve, Refuse, Begin, Write,
         FailToWrite, Commit, ReplayOrGiveUp, Finish, Drop, GoOn, Goto
<1>3. stored' \subseteq Commands /\ \A q \in Commands \ {p} : q \in stored' <=> q \in stored
  BY CommandSteps DEF StoredInv, Stores, Take, Nothing
<1> DEFINE Good == /\ stage'[p] \in {"idle", "waiting", "pausing"} => p \notin stored'
                   /\ stage'[p] = "using" /\ at'[p] = "resolving" => p \notin stored'
                   /\ ending'[p] = "ok" => p \in stored'
                   /\ p \in refusals' => p \notin stored' /\ stage'[p] \in Closing
<1>4. /\ refusals' \subseteq Commands
      /\ \A q \in Commands \ {p} : q \in refusals' <=> q \in refusals
  BY CommandSteps DEF StoredInv, Refuses
<1>5. Good
  <2> USE DEF ConnectionInv, ConnectionTypes, Counters, StoredInv, Closing, Fit, Goto, At, In, Enter, EndAs
  <2>1. CASE AroundWork(p)
    BY <2>1 DEF AroundWork, work, CreateDriver, NotReady, TryAgain, StopPool, StopDriver
  <2>2. CASE Open(p)
    BY <2>2 DEF Open, Connect
  <2>3. CASE Resolve(p)
    BY <2>3 DEF Resolve, Refuse, GoOn, Finish, Drop, Leave, connection
  <2>4. CASE Begin(p)
    BY <2>4 DEF Begin, GoOn, Finish, Drop, Leave, connection
  <2>5. CASE Write(p)
    BY <2>5 DEF Write, GoOn, connection
  <2>6. CASE FailToWrite(p)
    BY <2>6 DEF FailToWrite, Finish, Drop, Leave
  <2>7. CASE Commit(p)
    BY <2>7 DEF Commit, Take, Nothing, ReplayOrGiveUp, GoOn, Finish, Drop, Leave, connection
  <2>8. CASE CutShort(p)
    BY <2>8 DEF CutShort, Interrupt, Die, Take, Nothing, Drop
  <2> QED BY <2>1, <2>2, <2>3, <2>4, <2>5, <2>6, <2>7, <2>8 DEF Step
<1> QED BY <1>1, <1>2, <1>3, <1>4, <1>5 DEF StoredInv, At, In

LEMMA RowsStay ==
  ASSUME RowsInv, NEW p \in Commands, Step(p) \/ CutShort(p)
  PROVE  RowsInv'
<1>1. UNCHANGED edits /\ (Take(p) \/ Nothing)
  BY CommandSteps DEF Stores
<1>2. stored \subseteq stored'
  BY <1>1 DEF Take, Nothing
<1>3. \A c : Derived(c) => Derived(c)'
  BY <1>2 DEF Derived
<1>4. CASE Nothing
  BY <1>1, <1>3, <1>4 DEF Nothing, RowsInv
<1>5. CASE Take(p)
  <2>1. Derived(Seeded(p))'
    BY <1>5, SeededIsContent DEF Take, Derived
  <2>2. DOMAIN rows' = Demo \cup Own /\ \A i \in Demo \cup Own : rows'[i] \in {Seeded(p), rows[i]}
    BY <1>5 DEF Take, RowsInv
  <2>3. \A i \in Demo \cup Own : Derived(rows[i])'
    BY <2>1, <2>2, <1>3 DEF RowsInv
  <2>4. rows' \in [Demo \cup Own -> Contents]
    BY <1>5, SeededIsContent DEF Take, RowsInv
  <2> QED BY <2>3, <2>4, <1>1, <1>3 DEF RowsInv
<1> QED BY <1>1, <1>4, <1>5

LEMMA OwnerStays ==
  ASSUME Inv, Owner
  PROVE  Inv'
<1>1. UNCHANGED <<connection, stored, work, refusals>>
  BY DEF Owner, ReadTask, WriteTask
<1>2. ConnectionInv'
  BY <1>1 DEF connection, Inv, ConnectionInv, ConnectionTypes, Fit
<1>3. Counters' /\ StoredInv'
  BY <1>1 DEF Inv, Counters, StoredInv, connection, work, At, In
<1>4. \A c : Derived(c)' <=> Derived(c)
  BY <1>1 DEF Derived
<1>5. RowsInv'
  <2>1. PICK e \in Edits : WriteTask(e) \/ \E i \in Editable : ReadTask(e, i)
    BY DEF Owner
  <2>2. CASE \E i \in Editable : ReadTask(e, i)
    <3>1. PICK i \in Editable : ReadTask(e, i)
      BY <2>2
    <3> QED BY <3>1, <1>4, Sizes DEF ReadTask, Inv, RowsInv
  <2>3. CASE WriteTask(e)
    <3>1. PICK c \in {[edits[e].content EXCEPT !.edit = e], Absent} :
            rows' = [rows EXCEPT ![edits[e].row] = c]
      BY <2>3 DEF WriteTask
    <3>2. Derived(c)
      BY <3>1, EditedIsDerived, PlainContents DEF Inv
    <3>3. rows' \in [Demo \cup Own -> Contents] /\ \A i \in Demo \cup Own : Derived(rows'[i])
      BY <3>1, <3>2 DEF Inv, RowsInv, Derived
    <3>4. Idle("made").content = Absent /\ Idle("made").at = "made" /\ Idle("made").row = 0
      BY DEF Idle
    <3>5. edits' = [edits EXCEPT ![e] = Idle("made")]
      BY <2>3 DEF WriteTask
    <3>6. Idle("made") \in [at : {"to come", "holding", "made"}, row : Editable \cup {0},
                             content : Contents]
      BY PlainContents DEF Idle, Derived
    <3>7. edits' \in [Edits -> [at : {"to come", "holding", "made"}, row : Editable \cup {0},
                              content : Contents]]
      BY <3>5, <3>6 DEF Inv, RowsInv
    <3>8. \A f \in Edits : /\ Derived(edits'[f].content)
                           /\ edits'[f].at = "holding" => edits'[f].row \in Editable
      BY <3>4, <3>5, PlainContents DEF Inv, RowsInv
    <3> QED BY <3>3, <3>7, <3>8, <1>4 DEF RowsInv
  <2> QED BY <2>1, <2>2, <2>3
<1> QED BY <1>2, <1>3, <1>5 DEF Inv

LEMMA Stays == Inv /\ [Next]_vars => Inv'
<1> SUFFICES ASSUME Inv, [Next]_vars PROVE Inv'
  OBVIOUS
<1>1. ASSUME NEW p \in Commands, Step(p) \/ CutShort(p) PROVE Inv'
  <2>1. ConnectionInv'
    BY <1>1, CommandSteps, ConnectionStays DEF Inv
  <2> QED BY <1>1, <2>1, CountersStay, StoredStays, RowsStay DEF Inv
<1>2. CASE UNCHANGED vars
  BY <1>2 DEF vars, work, connection, Inv, ConnectionInv, ConnectionTypes, Counters, StoredInv,
              RowsInv, Derived, At, In
<1> QED BY <1>1, <1>2, OwnerStays DEF Next

LEMMA Invariance == Spec => []Inv
BY Begins, Stays, PTL DEF Spec

-----------------------------------------------------------------------------
\* Every variable keeps its type, and so every counter its limit, however many
\* commands run and whatever they meet.
THEOREM TypeCorrect == Spec => []TypeOK
<1>1. Inv => TypeOK
  BY DEF Inv, ConnectionInv, Counters, StoredInv, RowsInv, TypeOK
<1> QED BY <1>1, Invariance, PTL

\* A command that is over has at least begun to stop its driver and its pool, and
\* no pool is left on a driver that is not open.
THEOREM ConnectionsClosed == Spec => []NothingLeftOpen
<1>1. Inv => NothingLeftOpen
  BY InvLeavesNothingOpen DEF Inv
<1> QED BY <1>1, Invariance, PTL

-----------------------------------------------------------------------------
\* What a command has reported, told by where it is.
LEMMA Reports ==
  ASSUME NEW p
  PROVE  /\ Report(p) \in {"none", "seeded", "refused", "unknown"}
         /\ Report(p) = "none" <=> p \notin refusals /\ ~In(p, "over")
         /\ Report(p) = "seeded" => ending[p] = "ok"
         /\ Report(p) = "refused" <=> p \in refusals
BY DEF Report

\* The same of the state after a step.
LEMMA ReportsAfter ==
  ASSUME NEW p
  PROVE  /\ Report(p)' \in {"none", "seeded", "refused", "unknown"}
         /\ Report(p)' = "none" <=> p \notin refusals' /\ stage'[p] # "over"
         /\ Report(p)' = "seeded" => ending'[p] = "ok"
         /\ Report(p)' = "refused" <=> p \in refusals'
BY DEF Report, In

\* A step of a command is a step of its promise: it stores, reports, or neither.
LEMMA CommandKeepsPromise ==
  ASSUME Inv, Inv', NEW p \in Commands, Step(p) \/ CutShort(p)
  PROVE  Promise!Run(p)
<1> DEFINE Told == [q \in Commands |-> Report(q)]
           Shown == [q \in Commands |-> Report(q)']
<1>1. \A q \in Commands \ {p} : Report(q)' = Report(q)
  BY CommandSteps, StepsOfOne DEF Inv, connection, Report, In, Refuses
<1>a. Stores(p) => Told[p] = "none"
  BY Reports DEF Stores, At, In, Inv, StoredInv, Closing
<1>2. CASE UNCHANGED connection
  <2>1. UNCHANGED refusals
    BY <1>2, CommandSteps DEF Refuses, Leave, Enter, At, In, connection, Inv, ConnectionInv,
                              ConnectionTypes
  <2>2. Shown = Told
    BY <1>2, <2>1 DEF connection, Report, In
  <2> QED BY <1>a, <2>2, CommandSteps
          DEF Stores, Take, Nothing, Seeded, Promise!Run, Promise!Store, Promise!Rest,
              Promise!Pending, Promise!Seeded
<1>3. CASE Changes(p)
  <2>1. Promise!Store(p) \/ Promise!Rest
    BY <1>a, CommandSteps
       DEF Stores, Take, Nothing, Seeded, Promise!Store, Promise!Rest, Promise!Pending,
           Promise!Seeded
  <2>2. p \in refusals => p \in refusals'
    BY CommandSteps DEF Refuses
  <2>3. CASE Told[p] # "none" \/ Report(p)' = "none"
    <3>1. Told[p] # "none" => p \in refusals
      BY <1>3, StepsOfOne, Reports DEF Inv
    <3>2. Report(p)' = Report(p)
      BY <2>2, <2>3, <3>1, Reports, ReportsAfter
    <3>3. Shown = Told
      BY <1>1, <3>2
    <3> QED BY <2>1, <3>3 DEF Promise!Run
  <2>4. CASE Told[p] = "none" /\ Report(p)' # "none"
    <3> DEFINE r == Report(p)'
    <3>1. r \in {"seeded", "refused", "unknown"}
      BY <2>4, ReportsAfter
    <3>2. (r = "seeded" => p \in stored') /\ (r = "refused" => p \notin stored')
      BY ReportsAfter DEF Inv, StoredInv
    <3>3. Shown = [Told EXCEPT ![p] = r]
      BY <1>1
    <3> HIDE DEF r
    <3> QED BY <2>1, <2>4, <3>1, <3>2, <3>3 DEF Promise!Run, Promise!Pending
  <2> QED BY <2>3, <2>4
<1> QED BY <1>2, <1>3, CommandSteps DEF Inv

\* An edit of the owner is an edit that the promise allows for.
LEMMA OwnerKeepsPromise ==
  ASSUME Inv, Owner
  PROVE  Promise!Next \/ UNCHANGED Promise!vars
<1>1. \A q \in Commands : Report(q)' = Report(q)
  BY DEF Owner, ReadTask, WriteTask, connection, Report, In
<1>2. UNCHANGED stored /\ [q \in Commands |-> Report(q)'] = [q \in Commands |-> Report(q)]
  BY <1>1 DEF Owner, ReadTask, WriteTask
<1>3. PICK e \in Edits : WriteTask(e) \/ \E i \in Editable : ReadTask(e, i)
  BY DEF Owner
<1>4. CASE \E i \in Editable : ReadTask(e, i)
  BY <1>2, <1>4 DEF ReadTask, Promise!vars
<1>5. CASE WriteTask(e)
  <2>1. PICK c \in {[edits[e].content EXCEPT !.edit = e], Absent} :
          rows' = [rows EXCEPT ![edits[e].row] = c]
    BY <1>5 DEF WriteTask
  <2>2. Derived(c)
    BY <2>1, EditedIsDerived, PlainContents DEF Inv
  <2>3. edits[e].row \in Editable
    BY <1>5 DEF WriteTask, Inv, RowsInv
  <2>4. c \in Promise!Contents
    BY <2>2 DEF Derived, Contents, Anchors, Promise!Contents, Promise!Anchors
  <2>5. Promise!Edit(edits[e].row)
    BY <1>2, <2>1, <2>2, <2>4 DEF Derived, Promise!Edit
  <2> QED BY <2>3, <2>5 DEF Promise!Next
<1> QED BY <1>3, <1>4, <1>5

LEMMA PromiseBegins == Init => Promise!Init
<1> SUFFICES ASSUME Init PROVE Promise!Init
  OBVIOUS
<1>1. \A p \in Commands : Report(p) = "none"
  BY Reports DEF Init, ConnectionInit, In
<1>2. Untouched.anchor = None /\ Absent.anchor = None
  BY DEF Untouched, Absent
<1>3. rows \in [Demo \cup Own -> Contents]
  BY Begins DEF Inv, RowsInv
<1>4. \A i \in DOMAIN rows : rows[i].anchor = None
  BY <1>2 DEF Init
<1>5. rows \in [Demo \cup Editable -> Promise!Contents]
  BY <1>3, Sizes DEF Contents, Anchors, Promise!Contents, Promise!Anchors
<1> QED BY <1>1, <1>4, <1>5 DEF Init, Promise!Init

\* The seed command keeps its promise: the demo rows are replaced all at once or not
\* at all, nothing else of the owner is touched, and what is reported is true.
THEOREM PromiseKept == Spec => Promised
<1>1. Inv /\ Inv' /\ [Next]_vars => [Promise!Next]_(Promise!vars)
  <2> SUFFICES ASSUME Inv, Inv', [Next]_vars
               PROVE  Promise!Next \/ UNCHANGED Promise!vars
    OBVIOUS
  <2>1. ASSUME NEW p \in Commands, Step(p) \/ CutShort(p) PROVE Promise!Next
    BY <2>1, CommandKeepsPromise DEF Promise!Next
  <2>2. CASE UNCHANGED vars
    BY <2>2 DEF vars, connection, Report, In, Promise!vars
  <2> QED BY <2>1, <2>2, OwnerKeepsPromise DEF Next
<1> QED BY <1>1, PromiseBegins, Invariance, PTL DEF Promised, Promise!Spec, Spec
=============================================================================
