--------------------------- MODULE TaskQueryProofs ---------------------------
(***************************************************************************)
(* What the answers to questions say of the owner's tasks, for any finite  *)
(* set of tasks and projects, any calendar, any set of questions and any   *)
(* number of writes that fall into a call.                                 *)
(***************************************************************************)
EXTENDS TaskQuery, FiniteSetTheorems, WellFoundedInduction, TLAPS

Tables == [Tasks -> Shapes \cup {NoRow}]

LEMMA SmallestExists ==
  ASSUME NEW S \in SUBSET Nat, S # {}
  PROVE  \E x \in S : \A y \in S : x <= y
<1>1. PICK x \in S : \A y \in S : <<y, x>> \notin OpToRel(<, Nat)
  BY WFMin, NatLessThanWellFounded, Zenon
<1>2. \A y \in S : ~(y < x)
  BY <1>1, Zenon DEF OpToRel
<1> QED BY <1>2

\* A bounded set of numbers has a largest member.
LEMMA LargestExists ==
  ASSUME NEW n \in Nat, NEW S \in SUBSET (0..n), S # {}
  PROVE  \E x \in S : \A y \in S : y <= x
<1> DEFINE T == {n - x : x \in S}
<1>1. T \in SUBSET Nat /\ T # {}
  OBVIOUS
<1>2. PICK z \in T : \A y \in T : z <= y
  <2> HIDE DEF T
  <2> QED BY <1>1, SmallestExists
<1>3. PICK x \in S : z = n - x
  OBVIOUS
<1>4. \A y \in S : n - x <= n - y
  BY <1>2, <1>3
<1> QED BY <1>4

-----------------------------------------------------------------------------
(* The calendar: days follow each other, and every instant is in one day.  *)

LEMMA Calendar ==
  /\ LastDay \in Nat /\ Days = 0..LastDay /\ DayStart \in [0..(LastDay + 1) -> Nat]
  /\ \A d \in Days : DayStart[d] < DayStart[d + 1]
  BY QueryAssumption DEF QueryAssumption, Days

LEMMA DaysAscend ==
  ASSUME NEW d \in 0..(LastDay + 1), NEW e \in 0..(LastDay + 1), d < e
  PROVE  DayStart[d] < DayStart[e]
<1> DEFINE Bad == {x \in 0..(LastDay + 1) : d < x /\ ~(DayStart[d] < DayStart[x])}
<1> SUFFICES ASSUME Bad # {} PROVE FALSE
  BY Calendar
<1>1. Bad \in SUBSET Nat
  BY Calendar
<1>2. PICK x \in Bad : \A y \in Bad : x <= y
  <2> HIDE DEF Bad
  <2> QED BY <1>1, SmallestExists
<1>3. x - 1 \in Days /\ x - 1 \in 0..(LastDay + 1) /\ x - 1 \notin Bad /\ (x - 1) + 1 = x
  BY <1>2, Calendar
<1>4. DayStart[x - 1] < DayStart[x]
  BY <1>3, Calendar
<1>5. d = x - 1 \/ DayStart[d] < DayStart[x - 1]
  BY <1>3, <1>2, Calendar
<1> QED BY <1>2, <1>3, <1>4, <1>5, Calendar

LEMMA DaysNeverDescend ==
  ASSUME NEW d \in 0..(LastDay + 1), NEW e \in 0..(LastDay + 1), d <= e
  PROVE  DayStart[d] <= DayStart[e] /\ DayStart[d] \in Nat /\ DayStart[e] \in Nat
<1>1. DayStart[d] \in Nat /\ DayStart[e] \in Nat
  BY Calendar
<1>2. CASE d = e
  BY <1>1, <1>2
<1>3. CASE d < e
  BY <1>1, <1>3, DaysAscend
<1> QED BY <1>1, <1>2, <1>3, Calendar

LEMMA DayOfInstant ==
  ASSUME NEW i \in Instants
  PROVE  /\ DayOf(i) \in Days
         /\ DayStart[DayOf(i)] <= i /\ i < DayStart[DayOf(i) + 1]
<1> DEFINE S == {d \in 1..(LastDay + 1) : i < DayStart[d]}
<1>1. i \in Nat /\ DayStart[0] <= i /\ i < DayStart[LastDay + 1]
  BY Calendar DEF Instants
<1>2. S \in SUBSET Nat /\ LastDay + 1 \in S
  BY <1>1, Calendar
<1>3. PICK d \in S : \A e \in S : d <= e
  <2> HIDE DEF S
  <2> QED BY <1>2, SmallestExists
<1>4. d - 1 \in Days /\ d - 1 \notin S /\ (d - 1) + 1 = d
  BY <1>3, Calendar
<1>5. DayStart[d - 1] <= i
  BY <1>1, <1>4, Calendar
<1>6. \E e \in Days : DayStart[e] <= i /\ i < DayStart[e + 1]
  BY <1>3, <1>4, <1>5
<1> QED BY <1>6 DEF DayOf

\* A day has begun by an instant iff it is not after the day of the instant, and has
\* not ended iff it is not before.
LEMMA DayCompares ==
  ASSUME NEW i \in Instants, NEW d \in Days
  PROVE  /\ DayStart[d] <= i <=> d <= DayOf(i)
         /\ i < EndOf(d) <=> DayOf(i) <= d
<1> DEFINE e == DayOf(i)
<1>1. e \in Days /\ DayStart[e] <= i /\ i < DayStart[e + 1]
  BY DayOfInstant
<1>2. i \in Nat /\ d \in Nat /\ e \in Nat /\ d + 1 \in 0..(LastDay + 1)
      /\ e + 1 \in 0..(LastDay + 1) /\ d \in 0..(LastDay + 1) /\ e \in 0..(LastDay + 1)
  BY <1>1, Calendar DEF Instants
<1> HIDE DEF e
<1>3. CASE d = e
  BY <1>1, <1>2, <1>3 DEF EndOf, e
<1>4. CASE d < e
  <2>1. DayStart[d] <= DayStart[e] /\ DayStart[d + 1] <= DayStart[e]
        /\ DayStart[d] \in Nat /\ DayStart[d + 1] \in Nat /\ DayStart[e] \in Nat
    BY <1>2, <1>4, DaysNeverDescend
  <2>2. DayStart[d] <= i /\ ~(i < DayStart[d + 1])
    BY <1>1, <1>2, <2>1
  <2> QED BY <1>2, <1>4, <2>2 DEF EndOf, e
<1>5. CASE e < d
  <2>1. DayStart[e + 1] <= DayStart[d] /\ DayStart[e + 1] <= DayStart[d + 1]
        /\ DayStart[d] \in Nat /\ DayStart[d + 1] \in Nat /\ DayStart[e + 1] \in Nat
    BY <1>2, <1>5, DaysNeverDescend
  <2>2. ~(DayStart[d] <= i) /\ i < DayStart[d + 1]
    BY <1>1, <1>2, <2>1
  <2> QED BY <1>2, <1>5, <2>2 DEF EndOf, e
<1> QED BY <1>2, <1>3, <1>4, <1>5

LEMMA DayBoundsType ==
  ASSUME NEW d \in Days
  PROVE  DayStart[d] \in Instants /\ EndOf(d) \in 0..DayStart[LastDay + 1]
<1>1. d \in 0..(LastDay + 1) /\ d + 1 \in 0..(LastDay + 1) /\ d < LastDay + 1
      /\ 0 \in 0..(LastDay + 1) /\ LastDay + 1 \in 0..(LastDay + 1)
  BY Calendar
<1>2. DayStart[d] < DayStart[LastDay + 1] /\ (0 < d => DayStart[0] < DayStart[d])
  BY <1>1, DaysAscend, Calendar
<1>3. DayStart[d + 1] <= DayStart[LastDay + 1]
  BY <1>1, DaysAscend, Calendar
<1> QED BY <1>1, <1>2, <1>3, Calendar DEF Instants, EndOf

-----------------------------------------------------------------------------
(* Tables, what is on an axis, and the coverage of an axis.                *)

LEMMA NoneMissing ==
  /\ None \notin Int /\ None \notin Projects /\ None \notin References
  /\ None \notin Questions /\ None \notin Coverage /\ None \notin Criterion
  BY QueryAssumption DEF QueryAssumption

LEMMA RowsOf ==
  ASSUME NEW table \in Tables, NEW i \in Ids(table)
  PROVE  /\ i \in Tasks /\ table[i] \in Row
         /\ table[i].status \in Statuses /\ table[i].project \in Projects \cup {None}
         /\ table[i].created \in Instants /\ table[i].updated \in Instants
         /\ \A axis \in Axes : table[i][axis] \in Instants \cup {None}
         /\ table[i].completed # None <=> table[i].status = "done"
<1>1. table[i] \in Row /\ i \in Tasks
  BY QueryAssumption DEF QueryAssumption, Tables, Ids
<1> QED BY <1>1 DEF Row, Axes

LEMMA IdsFinite ==
  ASSUME NEW ids \in SUBSET Tasks
  PROVE  IsFiniteSet(ids) /\ Cardinality(ids) \in 0..Cardinality(Tasks)
<1>1. IsFiniteSet(Tasks)
  BY QueryAssumption DEF QueryAssumption
<1> QED BY <1>1, FS_Subset, FS_CardinalityType

LEMMA CoverageTells ==
  ASSUME NEW table \in Tables, NEW q, q.axis \in Axes
  PROVE  LET c == CoverageOf(table, q.axis)
             day(i) == DayOf(table[i][q.axis])
         IN  \/ c = None /\ OnAxis(table, q) = {}
             \/ /\ c \in Coverage /\ c # None
                /\ \E i \in OnAxis(table, q) : day(i) = c.first
                /\ \E i \in OnAxis(table, q) : day(i) = c.last
                /\ \A i \in OnAxis(table, q) : c.first <= day(i) /\ day(i) <= c.last
<1> DEFINE day(i) == DayOf(table[i][q.axis])
           on == OnAxis(table, q)
           days == {day(i) : i \in on}
           c == CoverageOf(table, q.axis)
<1>1. \A i \in on : day(i) \in 0..LastDay
  BY RowsOf, DayOfInstant, Calendar DEF OnAxis
<1>2. {j \in Ids(table) : table[j][q.axis] # None} = on
  BY DEF OnAxis
<1>3. c = IF days = {} THEN None
          ELSE [first |-> CHOOSE d \in days : \A e \in days : d <= e,
                last |-> CHOOSE d \in days : \A e \in days : e <= d]
  BY <1>2 DEF CoverageOf
<1>4. days \in SUBSET (0..LastDay) /\ days \in SUBSET Nat
  BY <1>1, Calendar
<1>5. CASE days = {}
  BY <1>3, <1>5
<1>6. ASSUME days # {}
      PROVE  /\ c \in Coverage /\ c # None
             /\ \E i \in on : day(i) = c.first
             /\ \E i \in on : day(i) = c.last
             /\ \A i \in on : c.first <= day(i) /\ day(i) <= c.last
  <2> HIDE DEF days, c
  <2>1. \E d \in days : \A e \in days : d <= e
    BY <1>4, <1>6, SmallestExists
  <2>2. \E d \in days : \A e \in days : e <= d
    BY <1>4, <1>6, LargestExists, Calendar
  <2>3. /\ c.first \in days /\ \A e \in days : c.first <= e
        /\ c.last \in days /\ \A e \in days : e <= c.last
        /\ c = [first |-> c.first, last |-> c.last]
    BY <1>3, <1>6, <2>1, <2>2
  <2>4. c \in Coverage
    BY <2>3, <1>4, Calendar DEF Coverage
  <2>5. c # None
    BY <2>4, NoneMissing
  <2> HIDE DEF on, day
  <2> QED BY <2>3, <2>4, <2>5 DEF days
<1> QED BY <1>5, <1>6

-----------------------------------------------------------------------------
(* A search by instants finds what is wanted by days.                      *)

\* A question that can reach the datastore, and it with another period.
Askable(q) == (q \in Question /\ ~Contradicts(q)) \/ q \in PageRequest
Over(q, from, to) == [q EXCEPT !.from = from, !.to = to]

LEMMA AskableTypes ==
  ASSUME NEW q, Askable(q)
  PROVE  /\ q.axis \in Axes /\ q.statuses \in SUBSET Statuses
         /\ q.from \in Days \cup {None} /\ q.to \in Days \cup {None}
         /\ \A from, to : LET o == Over(q, from, to)
                          IN  /\ o.axis = q.axis /\ o.statuses = q.statuses /\ o.tool = q.tool
                              /\ o.from = from /\ o.to = to
  BY DEF Askable, Question, PageRequest, Over, Statuses

\* Every gap lies before every task on its axis or after.
LEMMA GapIsOutside ==
  ASSUME NEW table \in Tables, NEW q, Askable(q), Gap(q, CoverageOf(table, q.axis))
  PROVE  OutsideCoverage(table, q)
<1> DEFINE c == CoverageOf(table, q.axis)
           day(i) == DayOf(table[i][q.axis])
           on == OnAxis(table, q)
<1>1. q.axis \in Axes /\ q.from \in Days \cup {None} /\ q.to \in Days \cup {None}
  BY AskableTypes
<1>2. \/ c = None /\ on = {}
      \/ c \in Coverage /\ c # None /\ \A i \in on : c.first <= day(i) /\ day(i) <= c.last
  BY <1>1, CoverageTells
<1>3. \A i \in on : day(i) \in Int
  BY <1>1, RowsOf, DayOfInstant, Calendar DEF OnAxis
<1>4. \/ c = None
      \/ q.from # None /\ q.from > c.last
      \/ q.to # None /\ q.to < c.first
  BY DEF Gap
<1>5. OutsideCoverage(table, q) <=> \/ \A i \in on : q.from # None /\ day(i) < q.from
                                    \/ \A i \in on : q.to # None /\ day(i) > q.to
  BY DEF OutsideCoverage
<1> HIDE DEF c, day, on
<1>6. CASE on = {}
  BY <1>5, <1>6
<1>7. CASE c \in Coverage /\ c # None /\ \A i \in on : c.first <= day(i) /\ day(i) <= c.last
  <2>1. c.first \in Int /\ c.last \in Int
    BY <1>7, Calendar DEF Coverage
  <2>2. CASE q.from # None /\ q.from > c.last
    BY <1>1, <1>3, <1>5, <1>7, <2>1, <2>2, Calendar
  <2>3. CASE q.to # None /\ q.to < c.first
    BY <1>1, <1>3, <1>5, <1>7, <2>1, <2>3, Calendar
  <2> QED BY <1>4, <1>7, <2>2, <2>3
<1> QED BY <1>2, <1>6, <1>7

\* Every gap is a period without a task.
LEMMA GapIsEmpty ==
  ASSUME NEW table \in Tables, NEW q, Askable(q), Gap(q, CoverageOf(table, q.axis))
  PROVE  InPeriod(table, q) = {}
<1> DEFINE c == CoverageOf(table, q.axis)
           day(i) == DayOf(table[i][q.axis])
           on == OnAxis(table, q)
<1>1. q.axis \in Axes /\ q.from \in Days \cup {None} /\ q.to \in Days \cup {None}
  BY AskableTypes
<1>2. \/ c = None /\ on = {}
      \/ c \in Coverage /\ c # None /\ \A i \in on : c.first <= day(i) /\ day(i) <= c.last
  BY <1>1, CoverageTells
<1>3. \A i \in on : day(i) \in Days
  BY <1>1, RowsOf, DayOfInstant DEF OnAxis
<1>4. InPeriod(table, q) = {i \in on : q.from \in {None} \cup 0..day(i)
                                       /\ q.to \in {None} \cup day(i)..LastDay}
  BY DEF InPeriod
<1>5. Gap(q, c)
  OBVIOUS
<1> HIDE DEF c, day, on
<1>6. CASE on = {}
  BY <1>4, <1>6
<1>7. CASE c \in Coverage /\ c # None /\ \A i \in on : c.first <= day(i) /\ day(i) <= c.last
  <2>1. c.first \in Days /\ c.last \in Days
    BY <1>7 DEF Coverage
  <2>2. ASSUME NEW i \in InPeriod(table, q)
        PROVE  FALSE
    <3>1. /\ i \in on
          /\ q.from \in {None} \cup 0..day(i) /\ q.to \in {None} \cup day(i)..LastDay
      BY <1>4
    <3>2. day(i) \in 0..LastDay /\ c.first <= day(i) /\ day(i) <= c.last
      BY <3>1, <1>3, <1>7, Calendar
    <3> DEFINE d == day(i)
    <3> HIDE DEF d
    <3>3. (q.from # None => q.from \in 0..d) /\ (q.to # None => q.to \in d..LastDay)
      BY <3>1 DEF d
    <3>4. d \in 0..LastDay /\ c.first <= d /\ d <= c.last /\ LastDay \in Nat
          /\ c.first \in 0..LastDay /\ c.last \in 0..LastDay
      BY <3>2, <2>1, Calendar DEF d
    <3>5. (q.from # None /\ q.from > c.last) \/ (q.to # None /\ q.to < c.first)
      BY <1>5, <1>7 DEF Gap
    <3>6. CASE q.from # None /\ q.from > c.last
      BY <3>3, <3>4, <3>6
    <3>7. CASE q.to # None /\ q.to < c.first
      BY <3>3, <3>4, <3>7
    <3> QED BY <3>5, <3>6, <3>7
  <2> QED BY <2>2
<1> QED BY <1>2, <1>6, <1>7

\* The status filter that is sent leaves out what the question leaves out.
LEMMA NarrowingFits ==
  ASSUME NEW q, Askable(q), NEW s, s \in HeldBy(q.axis),
         NEW sent, sent = IF q.tool = "page" THEN q.statuses ELSE Narrowing(q)
  PROVE  (sent = {} \/ s \in sent) <=> (q.statuses = {} \/ s \in q.statuses)
<1>1. CASE q \in PageRequest
  BY <1>1 DEF PageRequest
<1>2. CASE q \in Question /\ ~Contradicts(q)
  <2>1. sent = Narrowing(q)
    BY <1>2 DEF Question
  <2>2. CASE HeldBy(q.axis) \subseteq q.statuses
    BY <2>1, <2>2 DEF Narrowing
  <2>3. CASE ~(HeldBy(q.axis) \subseteq q.statuses)
    <3>1. sent = q.statuses \cap HeldBy(q.axis)
      BY <2>1, <2>3 DEF Narrowing
    <3>2. q.statuses = {} \/ q.statuses \cap HeldBy(q.axis) # {}
      BY <1>2 DEF Contradicts
    <3> QED BY <3>1, <3>2
  <2> QED BY <2>2, <2>3
<1> QED BY <1>1, <1>2 DEF Askable

LEMMA HitsAreWanted ==
  ASSUME NEW table \in Tables, NEW q, Askable(q), NEW p,
         NEW from \in Days \cup {None}, NEW to \in Days \cup {None}
  PROVE  LET c == Criteria(q, from, to, p)
         IN  /\ Hits(table, c) = Wanted(table, Over(q, from, to), p)
             /\ Hits(table, WithoutFilters(c)) = InPeriod(table, Over(q, from, to))
<1> DEFINE c == Criteria(q, from, to, p)
           o == Over(q, from, to)
           u == WithoutFilters(c)
<1>1. q.axis \in Axes /\ o.axis = q.axis /\ o.from = from /\ o.to = to /\ o.statuses = q.statuses
  BY AskableTypes
<1>2. /\ c.axis = q.axis /\ c.project = p
      /\ c.start = IF from = None THEN None ELSE DayStart[from]
      /\ c.end = IF to = None THEN None ELSE EndOf(to)
      /\ c.statuses = IF q.tool = "page" THEN q.statuses ELSE Narrowing(q)
  BY DEF Criteria
<1>3. /\ u.axis = c.axis /\ u.project = None /\ u.start = c.start /\ u.end = c.end
      /\ u.statuses = {}
  BY DEF WithoutFilters, Criteria
<1> HIDE DEF c, o, u
<1>4. ASSUME NEW i \in Ids(table), table[i][q.axis] # None
      PROVE  /\ (c.start = None \/ c.start <= table[i][q.axis])
                  <=> from \in {None} \cup 0..DayOf(table[i][q.axis])
             /\ (c.end = None \/ table[i][q.axis] < c.end)
                  <=> to \in {None} \cup DayOf(table[i][q.axis])..LastDay
             /\ Passes(table[i], c) <=> Fits(table[i], q, p)
             /\ Passes(table[i], u)
  <2> DEFINE t == table[i][q.axis]
             day == DayOf(t)
  <2>1. t \in Instants /\ table[i].status \in HeldBy(q.axis)
    BY <1>1, <1>4, RowsOf DEF HeldBy
  <2>2. day \in Days
    BY <2>1, DayOfInstant
  <2> HIDE DEF t, day
  <2>3. (c.start = None \/ c.start <= t) <=> from \in {None} \cup 0..day
    <3>1. CASE from = None
      BY <1>2, <3>1
    <3>2. CASE from \in Days /\ from # None
      <4>1. c.start = DayStart[from] /\ c.start # None
        BY <1>2, <3>2, Calendar, NoneMissing
      <4>2. DayStart[from] <= t <=> from <= day
        BY <2>1, <3>2, DayCompares DEF day
      <4> QED BY <3>2, <4>1, <4>2, <2>2, Calendar
    <3> QED BY <3>1, <3>2
  <2>4. (c.end = None \/ t < c.end) <=> to \in {None} \cup day..LastDay
    <3>1. CASE to = None
      BY <1>2, <3>1
    <3>2. CASE to \in Days /\ to # None
      <4>1. c.end = EndOf(to) /\ c.end # None
        BY <1>2, <3>2, Calendar, NoneMissing DEF EndOf
      <4>2. t < EndOf(to) <=> day <= to
        BY <2>1, <3>2, DayCompares DEF day
      <4> QED BY <3>2, <4>1, <4>2, <2>2, Calendar
    <3> QED BY <3>1, <3>2
  <2>5. Passes(table[i], c) <=> Fits(table[i], q, p)
    BY <1>2, <2>1, NarrowingFits DEF Passes, Fits
  <2>6. Passes(table[i], u)
    BY <1>3 DEF Passes
  <2> QED BY <2>3, <2>4, <2>5, <2>6 DEF t, day
<1>5. InPeriod(table, o) =
        {i \in Ids(table) : /\ table[i][q.axis] # None
                            /\ c.start = None \/ c.start <= table[i][q.axis]
                            /\ c.end = None \/ table[i][q.axis] < c.end}
  BY <1>1, <1>4 DEF InPeriod, OnAxis
<1>6. Hits(table, c) = {i \in InPeriod(table, o) : Fits(table[i], q, p)}
  BY <1>2, <1>4, <1>5 DEF Hits
<1>7. Hits(table, u) = InPeriod(table, o)
  BY <1>2, <1>3, <1>4, <1>5 DEF Hits
<1>8. Wanted(table, o, p) = {i \in InPeriod(table, o) : Fits(table[i], q, p)}
  BY <1>1 DEF Wanted, Fits
<1> QED BY <1>6, <1>7, <1>8 DEF c, o, u

-----------------------------------------------------------------------------
(* The inductive invariant: what a call knows at each place.  A call reads *)
(* at several moments, so what it knows was so at some moment since it     *)
(* began, and each such moment is in seen.                                 *)

Now == [tasks |-> rows, projects |-> made]

Begun == asked \in Questions /\ Now \in seen /\ IsFiniteSet(seen)

OfQuery == asked.tool = "query" /\ Askable(asked) /\ ~Inverted(asked)
OfPage ==
  /\ asked.tool = "page" /\ Askable(asked) /\ ~Inverted(asked)
  /\ criteria = Criteria(asked, asked.from, asked.to, asked.project)

SomeTasks == \E t \in seen : Ids(t.tasks) # {}
Listed == \E t \in seen : listed = t.projects

\* The window fits the coverage that was read.
Fitted ==
  /\ OfQuery /\ SomeTasks /\ Listed
  /\ coverage \in Coverage /\ ~Gap(asked, coverage)
  /\ \E t \in seen : coverage = CoverageOf(t.tasks, asked.axis)

Window(p) == Criteria(asked, Closed(asked).from, Closed(asked).to, p)

\* One project is meant, or none has to be, and the search is for it.
Aimed == Fitted /\ \E p \in Projects \cup {None} : Meant(asked) = {p} /\ criteria = Window(p)

NoHits == \E t \in seen : Hits(t.tasks, criteria) = {}
Filtered ==
  /\ Fitted
  /\ \/ Meant(asked) = {} /\ criteria = Window(None)
     \/ Aimed /\ NoHits

Counted == \E t \in seen : total = Cardinality(Hits(t.tasks, criteria))

Shows(table) ==
  LET hits == Hits(table, criteria)
  IN  [i \in IF asked.view = "list" THEN FirstOf(table, criteria.axis, hits, ListCap)
             ELSE hits |-> table[i]]
Read == \E t \in seen : found = Shows(t.tasks)

\* What the answers say was so at moments since the call began.
ToldOfQuery ==
  \/ answer.status = "error"
  \/ answer.status = "filter_error" /\ (Inverted(asked) \/ Contradicts(asked))
  \/ answer.status = "no_data" /\ \E t \in seen : Ids(t.tasks) = {}
  \/ /\ answer.status = "coverage_gap" /\ OfQuery /\ SomeTasks
     /\ \E t \in seen : Gap(asked, CoverageOf(t.tasks, asked.axis))
  \/ answer.status = "ambiguous_source" /\ Cardinality(Meant(asked)) > 1
  \/ /\ answer.status = "no_records" /\ Aimed /\ NoHits /\ ~Narrows(criteria)
     /\ \E t \in seen : answer.unwindowed = Cardinality(Hits(t.tasks, WithoutWindow(criteria)))
  \/ /\ answer.status = "empty_filter" /\ Filtered
     /\ \E t \in seen : LET present == Hits(t.tasks, WithoutFilters(criteria))
                        IN  /\ answer.unfiltered = Cardinality(present)
                            /\ answer.statuses = {t.tasks[i].status : i \in present}
  \/ /\ answer.status = "ok" /\ Aimed /\ Counted /\ total > 0 /\ Read
     /\ answer.total = total
     /\ answer.shown = IF asked.view = "list"
                       THEN [tasks |-> DOMAIN found,
                             truncated |-> total > Cardinality(DOMAIN found)]
                       ELSE [counts |-> StatusCounts(found), groups |-> GroupsOf(found, asked)]
     /\ \E t \in seen : answer.undated = Cardinality(Undated(t.tasks, criteria))

ToldOfPage ==
  \/ answer.status \in {"error", "filter_error"}
  \/ /\ answer.status = "page" /\ OfPage /\ Counted /\ answer.total = total
     /\ \E t \in seen : answer.tasks = PageOf(t.tasks, criteria.axis, Hits(t.tasks, criteria),
                                              asked.limit, asked.offset)
     /\ answer.more <=> asked.offset + Cardinality(answer.tasks) < total

ToldOfProjects ==
  \/ answer.status = "error"
  \/ /\ answer.status = "no_data" /\ listed = {}
     /\ \E t \in seen : Activity(t.tasks) = {}
  \/ /\ answer.status = "ok"
     /\ Listed
     /\ \E t \in seen : /\ answer.projects = [p \in listed |-> Totals(Activity(t.tasks), p)]
                        /\ answer.unfiled = Totals(Activity(t.tasks), None)

Progress ==
  /\ at = "asking" <=> asked = None
  /\ at # "asking" => Begun
  /\ at = "listing" => asked.tool = "projects" \/ OfQuery
  /\ at = "summing" => asked.tool = "projects" /\ Listed
  /\ at \in {"counting", "bounding"} => OfQuery /\ Listed
  /\ at = "bounding" => SomeTasks
  /\ at \in {"matching", "searching", "undated", "unwindowed"} => Aimed
  /\ at = "unfiltered" => Filtered
  /\ at = "unwindowed" => NoHits /\ ~Narrows(criteria)
  /\ at \in {"searching", "undated"} => Counted
  /\ at = "undated" => Read
  /\ at \in {"paging", "turning"} => OfPage
  /\ at = "turning" => Counted
  /\ at = "answered" => CASE asked.tool = "query" -> ToldOfQuery
                          [] asked.tool = "page" -> ToldOfPage
                          [] asked.tool = "projects" -> ToldOfProjects

QueryInv == TypeOK /\ Progress

-----------------------------------------------------------------------------
(* What a call knows stays so: moments are only added to seen.             *)

LEMMA AskedStays ==
  ASSUME asked' = asked, seen \subseteq seen'
  PROVE  /\ OfQuery => OfQuery'
         /\ SomeTasks => SomeTasks'
         /\ listed' = listed /\ Listed => Listed'
  BY DEF OfQuery, SomeTasks, Listed

LEMMA FittedStays ==
  ASSUME asked' = asked, seen \subseteq seen', UNCHANGED <<listed, coverage>>
  PROVE  Fitted => Fitted'
<1>1. OfQuery /\ SomeTasks /\ Listed => OfQuery' /\ SomeTasks' /\ Listed'
  BY AskedStays
<1> QED BY <1>1 DEF Fitted

LEMMA AimStays ==
  ASSUME asked' = asked, seen \subseteq seen', UNCHANGED <<listed, coverage, criteria>>
  PROVE  /\ Aimed => Aimed'
         /\ NoHits => NoHits'
         /\ Filtered => Filtered'
         /\ OfPage => OfPage'
         /\ Meant(asked)' = Meant(asked) /\ \A p : Window(p)' = Window(p)
<1>1. Fitted => Fitted'
  BY FittedStays
<1>2. Meant(asked)' = Meant(asked)
  BY DEF Meant
<1>3. \A p : Window(p)' = Window(p)
  BY DEF Window, Closed
<1>4. Aimed => Aimed'
  BY <1>1, <1>2, <1>3 DEF Aimed
<1>5. NoHits => NoHits'
  BY DEF NoHits
<1>6. Filtered => Filtered'
  BY <1>1, <1>2, <1>3, <1>4, <1>5 DEF Filtered
<1>7. OfPage => OfPage'
  BY DEF OfPage
<1> QED BY <1>2, <1>3, <1>4, <1>5, <1>6, <1>7

LEMMA CountStays ==
  ASSUME asked' = asked, seen \subseteq seen', UNCHANGED <<criteria, total, found>>
  PROVE  (Counted => Counted') /\ (Read => Read')
  BY DEF Counted, Read, Shows

\* A step that reads and does not answer leaves the call, and what it was asked.
LEMMA BegunStays ==
  ASSUME asked' = asked, UNCHANGED tables, UNCHANGED seen, Begun
  PROVE  Begun'
  BY DEF Begun, Now, tables

-----------------------------------------------------------------------------
(* Every action keeps the invariant.                                       *)

LEMMA Tools ==
  ASSUME NEW q \in Questions
  PROVE  \/ q.tool = "query" /\ q \in Question /\ q # None
         \/ q.tool = "page" /\ q \in PageRequest /\ q # None
         \/ q.tool = "projects" /\ q \in Overview /\ q # None
  BY QueryAssumption DEF QueryAssumption, Question, PageRequest, Overview

LEMMA CriteriaType ==
  ASSUME NEW q, Askable(q), NEW p \in Projects \cup {None},
         NEW from \in Days \cup {None}, NEW to \in Days \cup {None}
  PROVE  Criteria(q, from, to, p) \in Criterion /\ Criteria(q, from, to, p) # None
<1>1. q.axis \in Axes /\ q.statuses \in SUBSET Statuses
  BY AskableTypes
<1>2. (IF from = None THEN None ELSE DayStart[from]) \in Instants \cup {None}
  BY DayBoundsType
<1>3. (IF to = None THEN None ELSE EndOf(to)) \in 0..DayStart[LastDay + 1] \cup {None}
  BY DayBoundsType
<1>4. (IF q.tool = "page" THEN q.statuses ELSE Narrowing(q)) \in SUBSET Statuses
  BY <1>1 DEF Narrowing
<1>5. Criteria(q, from, to, p) \in Criterion
  BY <1>1, <1>2, <1>3, <1>4 DEF Criteria, Criterion
<1> QED BY <1>5, NoneMissing

LEMMA HitsType ==
  ASSUME NEW table \in Tables, NEW c
  PROVE  /\ Hits(table, c) \in SUBSET Tasks /\ Hits(table, c) \subseteq Ids(table)
         /\ IsFiniteSet(Hits(table, c))
         /\ Cardinality(Hits(table, c)) \in 0..Cardinality(Tasks)
<1>1. Hits(table, c) \in SUBSET Tasks /\ Hits(table, c) \subseteq Ids(table)
  BY DEF Hits, Ids
<1> QED BY <1>1, IdsFinite

LEMMA Begins == Init => QueryInv
<1> SUFFICES ASSUME Init PROVE QueryInv
  OBVIOUS
<1>1. TypeOK
  <2>1. Cardinality(Tasks) \in Nat
    BY QueryAssumption, FS_CardinalityType DEF QueryAssumption
  <2>2. DOMAIN found = {}
    BY DEF Init
  <2> QED BY <2>1, <2>2 DEF Init, TypeOK, Places
<1>2. Progress
  BY DEF Init, Progress
<1> QED BY <1>1, <1>2 DEF QueryInv

LEMMA AskKeeps ==
  ASSUME QueryInv, Ask
  PROVE  QueryInv'
<1>1. PICK q \in Questions :
        /\ asked' = q
        /\ IF Inverted(q) \/ (q.tool = "query" /\ Contradicts(q))
           THEN Answer([status |-> "filter_error"]) /\ UNCHANGED criteria
           ELSE IF q.tool # "page" THEN Goto("listing") /\ UNCHANGED criteria
           ELSE Goto("paging") /\ criteria' = Criteria(q, q.from, q.to, q.project)
  BY DEF Ask
<1>2. /\ at = "asking" /\ UNCHANGED tables /\ UNCHANGED <<listed, coverage, total, found>>
      /\ seen' = {Now}
  BY DEF Ask, Now
<1>3. Begun'
  <2>1. Now' = Now
    BY <1>2 DEF Now, tables
  <2> QED BY <1>1, <1>2, <2>1, FS_Singleton DEF Begun
<1>4. q # None
  BY Tools
<1>5. at' # "asking" /\ at' \in {"answered", "listing", "paging"}
  BY <1>1 DEF Answer, Goto
<1>6. criteria' \in Criterion \cup {None} /\ (at' = "paging" => criteria' # None)
  <2>1. CASE at' = "paging"
    <3>1. q.tool = "page" /\ criteria' = Criteria(q, q.from, q.to, q.project)
      BY <1>1, <2>1 DEF Answer, Goto
    <3>2. q \in PageRequest
      BY <3>1, Tools
    <3> QED BY <3>1, <3>2, CriteriaType DEF Askable, PageRequest
  <2>2. CASE at' # "paging"
    BY <1>1, <2>2 DEF Answer, Goto, QueryInv, TypeOK
  <2> QED BY <2>1, <2>2
<1>7. TypeOK'
  <2>1. seen' \subseteq [tasks : [Tasks -> Shapes \cup {NoRow}], projects : SUBSET made]
    BY <1>2 DEF Now, QueryInv, TypeOK
  <2> QED BY <1>1, <1>2, <1>5, <1>6, <2>1 DEF QueryInv, TypeOK, tables, Places, Filed, Ids
<1>8. Progress'
  <2>1. CASE at' = "answered"
    <3>1. /\ answer' = [status |-> "filter_error"]
          /\ Inverted(q) \/ (q.tool = "query" /\ Contradicts(q))
      BY <1>1, <2>1 DEF Answer, Goto
    <3>2. q.tool \in {"query", "page"}
      BY <3>1, Tools DEF Inverted
    <3>3. (q.tool = "query" => ToldOfQuery') /\ (q.tool = "page" => ToldOfPage')
      BY <1>1, <3>1, <3>2 DEF ToldOfQuery, ToldOfPage
    <3> QED BY <1>1, <1>3, <1>4, <2>1, <3>2, <3>3 DEF Progress
  <2>2. CASE at' = "listing"
    <3>1. q.tool # "page" /\ ~Inverted(q) /\ ~(q.tool = "query" /\ Contradicts(q))
      BY <1>1, <2>2 DEF Answer, Goto
    <3>2. q.tool = "projects" \/ OfQuery'
      BY <1>1, <3>1, Tools DEF OfQuery, Askable
    <3> QED BY <1>1, <1>3, <1>4, <2>2, <3>2 DEF Progress
  <2>3. CASE at' = "paging"
    <3>1. q.tool = "page" /\ ~Inverted(q) /\ criteria' = Criteria(q, q.from, q.to, q.project)
      BY <1>1, <2>3 DEF Answer, Goto
    <3>2. OfPage'
      BY <1>1, <3>1, Tools DEF OfPage, Askable
    <3> QED BY <1>1, <1>3, <1>4, <2>3, <3>2 DEF Progress
  <2> QED BY <1>5, <2>1, <2>2, <2>3
<1> QED BY <1>7, <1>8 DEF QueryInv

LEMMA ListProjectsKeeps ==
  ASSUME QueryInv, ListProjects
  PROVE  QueryInv'
<1>1. /\ at = "listing" /\ listed' = made /\ asked' = asked /\ seen' = seen
      /\ UNCHANGED tables /\ UNCHANGED <<coverage, criteria, total, found>>
      /\ at' = IF asked.tool = "query" THEN "counting" ELSE "summing"
  BY DEF ListProjects, Goto
<1>2. TypeOK'
  BY <1>1 DEF QueryInv, TypeOK, tables, Places, Filed, Ids
<1>3. Begun /\ (asked.tool = "projects" \/ OfQuery) /\ asked # None
  BY <1>1 DEF QueryInv, Progress
<1>4. Begun' /\ (OfQuery => OfQuery')
  BY <1>1, <1>3, BegunStays, AskedStays
<1>5. Listed'
  BY <1>1, <1>3 DEF Begun, Now, Listed
<1>6. CASE asked.tool = "query"
  <2>1. at' = "counting" /\ OfQuery'
    BY <1>1, <1>3, <1>4, <1>6
  <2> QED BY <1>1, <1>2, <1>3, <1>4, <1>5, <2>1 DEF QueryInv, Progress
<1>7. CASE asked.tool # "query"
  <2>1. asked.tool = "projects"
    BY <1>3, <1>7 DEF OfQuery
  <2>2. at' = "summing" /\ asked'.tool = "projects"
    BY <1>1, <1>7, <2>1
  <2> QED BY <1>1, <1>2, <1>3, <1>4, <1>5, <2>2 DEF QueryInv, Progress
<1> QED BY <1>6, <1>7

\* A step that only answers.
LEMMA AnswersKeep ==
  ASSUME QueryInv, UNCHANGED <<tables, asked, reading, seen>>, at' = "answered", at # "asking",
         (CASE asked.tool = "query" -> ToldOfQuery
            [] asked.tool = "page" -> ToldOfPage
            [] asked.tool = "projects" -> ToldOfProjects)'
  PROVE  QueryInv'
<1>1. TypeOK'
  BY DEF QueryInv, TypeOK, tables, reading, Places, Filed, Ids
<1>2. Begun' /\ asked' # None
  BY BegunStays DEF QueryInv, Progress, Begun
<1>3. Progress'
  BY <1>2 DEF Progress
<1> QED BY <1>1, <1>3 DEF QueryInv

LEMMA SumUpKeeps ==
  ASSUME QueryInv, SumUp
  PROVE  QueryInv'
<1>1. /\ at = "summing" /\ UNCHANGED <<tables, asked, reading, seen>> /\ at' = "answered"
      /\ answer' = IF listed = {} /\ Activity(rows) = {} THEN [status |-> "no_data"]
                   ELSE [status |-> "ok",
                         projects |-> [p \in listed |-> Totals(Activity(rows), p)],
                         unfiled |-> Totals(Activity(rows), None)]
  BY DEF SumUp, Answer
<1>2. asked.tool = "projects" /\ Begun /\ Listed
  BY <1>1 DEF QueryInv, Progress
<1>3. Now \in seen /\ Now.tasks = rows
  BY <1>2 DEF Begun, Now
<1>4. asked' = asked /\ seen' = seen /\ listed' = listed
  BY <1>1 DEF reading
<1>5. ToldOfProjects'
  <2>1. CASE listed = {} /\ Activity(rows) = {}
    BY <1>1, <1>3, <1>4, <2>1 DEF ToldOfProjects
  <2>2. CASE ~(listed = {} /\ Activity(rows) = {})
    <3>1. answer'.status = "ok" /\ answer'.unfiled = Totals(Activity(rows), None)
          /\ answer'.projects = [p \in listed |-> Totals(Activity(rows), p)]
      BY <1>1, <2>2
    <3> QED BY <1>2, <1>3, <1>4, <3>1 DEF ToldOfProjects, Listed
  <2> QED BY <2>1, <2>2
<1> QED BY <1>1, <1>2, <1>4, <1>5, AnswersKeep

LEMMA CountAllKeeps ==
  ASSUME QueryInv, CountAll
  PROVE  QueryInv'
<1>1. at = "counting" /\ UNCHANGED <<tables, asked, reading, seen>>
  BY DEF CountAll
<1>2. OfQuery /\ Listed /\ Begun /\ asked # None /\ asked.tool = "query"
  BY <1>1 DEF QueryInv, Progress, OfQuery
<1>3. Now \in seen /\ Now.tasks = rows /\ asked' = asked /\ seen' = seen
  BY <1>1, <1>2 DEF Begun, Now
<1>4. CASE Ids(rows) = {}
  <2>1. at' = "answered" /\ answer' = [status |-> "no_data"]
    BY <1>4 DEF CountAll, Answer
  <2>2. ToldOfQuery'
    BY <1>3, <1>4, <2>1 DEF ToldOfQuery
  <2> QED BY <1>1, <1>2, <1>3, <2>1, <2>2, AnswersKeep
<1>5. CASE Ids(rows) # {}
  <2>1. at' = "bounding"
    BY <1>5 DEF CountAll, Goto
  <2>2. TypeOK'
    BY <1>1, <2>1 DEF QueryInv, TypeOK, tables, reading, Places, Filed, Ids
  <2>3. SomeTasks
    BY <1>3, <1>5 DEF SomeTasks
  <2>4. OfQuery' /\ SomeTasks' /\ Listed' /\ Begun'
    BY <1>1, <1>2, <1>3, <2>3, AskedStays, BegunStays DEF reading
  <2>5. Progress'
    BY <1>2, <1>3, <2>1, <2>4 DEF Progress
  <2> QED BY <2>2, <2>5 DEF QueryInv
<1> QED BY <1>4, <1>5

\* The window that is searched, from the coverage that was read.
LEMMA ClosedIs ==
  ASSUME NEW q, Askable(q)
  PROVE  LET from == IF q.from = None /\ coverage # None THEN coverage.first ELSE q.from
             to == IF q.to = None /\ coverage # None THEN coverage.last ELSE q.to
         IN  /\ Closed(q) = Over(q, from, to)
             /\ Closed(q).from = from /\ Closed(q).to = to
             /\ coverage \in Coverage \cup {None} =>
                  from \in Days \cup {None} /\ to \in Days \cup {None}
<1>1. q.from \in Days \cup {None} /\ q.to \in Days \cup {None}
  BY AskableTypes
<1> DEFINE from == IF q.from = None /\ coverage # None THEN coverage.first ELSE q.from
           to == IF q.to = None /\ coverage # None THEN coverage.last ELSE q.to
<1>2. coverage \in Coverage \cup {None} => from \in Days \cup {None} /\ to \in Days \cup {None}
  BY <1>1 DEF Coverage
<1>3. Closed(q) = Over(q, from, to)
  BY DEF Closed, Over
<1>4. Over(q, from, to).from = from /\ Over(q, from, to).to = to
  <2> HIDE DEF from, to
  <2> QED BY AskableTypes
<1> QED BY <1>2, <1>3, <1>4

\* The projects a question can mean are some of those listed.
LEMMA MeantAreListed ==
  ASSUME TypeOK, OfQuery
  PROVE  Meant(asked) \in SUBSET (listed \cup {None}) /\ IsFiniteSet(Meant(asked))
         /\ Meant(asked) \in SUBSET (Projects \cup {None})
<1>1. Meant(asked) \in SUBSET (listed \cup {None})
  BY DEF Meant, Resolved
<1>2. listed \cup {None} \in SUBSET (Projects \cup {None})
  BY DEF TypeOK
<1>3. IsFiniteSet(Projects \cup {None})
  BY QueryAssumption, FS_AddElement DEF QueryAssumption
<1> QED BY <1>1, <1>2, <1>3, FS_Subset

LEMMA ReadBoundsKeeps ==
  ASSUME QueryInv, ReadBounds
  PROVE  QueryInv'
<1> DEFINE c == CoverageOf(rows, asked.axis)
           matches == IF asked.reference = None THEN {None} ELSE Resolved(asked.reference, listed)
           window(p) == Criteria(asked, IF asked.from = None THEN c.first ELSE asked.from,
                                 IF asked.to = None THEN c.last ELSE asked.to, p)
<1>1. /\ at = "bounding" /\ coverage' = c
      /\ UNCHANGED <<tables, asked, listed, total, found, seen>>
      /\ IF Gap(asked, c) THEN Answer([status |-> "coverage_gap"]) /\ UNCHANGED criteria
         ELSE IF Cardinality(matches) > 1
         THEN Answer([status |-> "ambiguous_source"]) /\ UNCHANGED criteria
         ELSE IF matches = {} THEN Goto("unfiltered") /\ criteria' = window(None)
         ELSE Goto("matching") /\ criteria' = window(CHOOSE p \in matches : TRUE)
  BY DEF ReadBounds
<1> HIDE DEF c, matches, window
<1>2. OfQuery /\ SomeTasks /\ Listed /\ Begun /\ asked # None /\ TypeOK
  BY <1>1 DEF QueryInv, Progress
<1>3. Askable(asked) /\ asked.tool = "query" /\ asked.axis \in Axes
  BY <1>2, AskableTypes DEF OfQuery
<1>4. Now \in seen /\ Now.tasks = rows /\ rows \in Tables
  BY <1>2 DEF Begun, Now, TypeOK, Tables
<1>5. c \in Coverage \/ c = None
  BY <1>3, <1>4, CoverageTells DEF c
<1>6. OfQuery' /\ SomeTasks' /\ Listed' /\ Begun' /\ asked' # None /\ asked'.tool = "query"
  BY <1>1, <1>2, <1>3, AskedStays, BegunStays
<1>7. Meant(asked)' = matches /\ Meant(asked) = matches
  BY <1>1 DEF Meant, matches
<1>8. matches \in SUBSET (Projects \cup {None}) /\ IsFiniteSet(matches)
  BY <1>2, <1>7, MeantAreListed
<1>9. ASSUME ~Gap(asked, c), NEW p \in Projects \cup {None}
      PROVE  Window(p)' = window(p) /\ window(p) \in Criterion /\ window(p) # None
  <2>1. c # None /\ c \in Coverage
    BY <1>5, <1>9 DEF Gap
  <2> DEFINE from == IF asked.from = None THEN c.first ELSE asked.from
             to == IF asked.to = None THEN c.last ELSE asked.to
  <2>2. from \in Days \cup {None} /\ to \in Days \cup {None}
    BY <1>3, <2>1, AskableTypes DEF Coverage
  <2>3. window(p) = Criteria(asked, from, to, p)
    BY DEF window
  <2>4. Closed(asked)' = [asked EXCEPT !.from = from, !.to = to]
    BY <1>1, <2>1 DEF Closed
  <2>5. Closed(asked)'.from = from /\ Closed(asked)'.to = to
    <3> HIDE DEF from, to
    <3> QED BY <2>4, <1>3, AskableTypes DEF Over
  <2>6. Window(p)' = window(p)
    <3> HIDE DEF from, to
    <3> QED BY <1>1, <2>3, <2>5 DEF Window
  <2>7. window(p) \in Criterion /\ window(p) # None
    <3> HIDE DEF from, to
    <3> QED BY <1>3, <2>2, <2>3, CriteriaType
  <2> QED BY <2>6, <2>7
<1>10. ~Gap(asked, c) => Fitted'
  <2> SUFFICES ASSUME ~Gap(asked, c) PROVE Fitted'
    OBVIOUS
  <2>1. coverage' \in Coverage /\ ~Gap(asked', coverage')
    BY <1>1, <1>5 DEF Gap
  <2>2. \E t \in seen' : coverage' = CoverageOf(t.tasks, asked'.axis)
    BY <1>1, <1>4 DEF c
  <2> QED BY <1>6, <2>1, <2>2 DEF Fitted
<1>11. criteria' \in Criterion \cup {None} /\ (at' # "answered" => criteria' # None)
  <2>1. CASE Gap(asked, c) \/ Cardinality(matches) > 1
    BY <1>1, <1>2, <2>1 DEF Answer, TypeOK
  <2>2. CASE ~Gap(asked, c) /\ ~(Cardinality(matches) > 1) /\ matches = {}
    BY <1>1, <1>9, <2>2
  <2>3. CASE ~Gap(asked, c) /\ ~(Cardinality(matches) > 1) /\ matches # {}
    BY <1>1, <1>8, <1>9, <2>3
  <2> QED BY <2>1, <2>2, <2>3
<1>12. at' \in {"answered", "unfiltered", "matching"}
  BY <1>1 DEF Answer, Goto
<1>13. TypeOK'
  <2>1. coverage' \in Coverage \cup {None}
    BY <1>1, <1>5
  <2> QED BY <1>1, <1>2, <1>11, <1>12, <2>1 DEF TypeOK, tables, Places, Filed, Ids
<1>14. CASE Gap(asked, c)
  <2>1. at' = "answered" /\ answer' = [status |-> "coverage_gap"]
    BY <1>1, <1>14 DEF Answer
  <2>2. \E t \in seen' : Gap(asked', CoverageOf(t.tasks, asked'.axis))
    BY <1>1, <1>4, <1>14 DEF c
  <2>3. ToldOfQuery'
    BY <1>6, <2>1, <2>2 DEF ToldOfQuery
  <2> QED BY <1>6, <1>13, <2>1, <2>3 DEF QueryInv, Progress
<1>15. CASE ~Gap(asked, c) /\ Cardinality(matches) > 1
  <2>1. at' = "answered" /\ answer' = [status |-> "ambiguous_source"]
    BY <1>1, <1>15 DEF Answer
  <2>2. ToldOfQuery'
    BY <1>1, <1>7, <1>15, <2>1 DEF ToldOfQuery
  <2> QED BY <1>6, <1>13, <2>1, <2>2 DEF QueryInv, Progress
<1>16. CASE ~Gap(asked, c) /\ matches = {}
  <2>1. ~(Cardinality(matches) > 1)
    BY <1>16, FS_EmptySet
  <2>2. at' = "unfiltered" /\ criteria' = window(None)
    BY <1>1, <1>16, <2>1 DEF Goto
  <2>3. Filtered'
    BY <1>7, <1>9, <1>10, <1>16, <2>2, <1>1 DEF Filtered
  <2> QED BY <1>6, <1>13, <2>2, <2>3 DEF QueryInv, Progress
<1>17. CASE ~Gap(asked, c) /\ matches # {} /\ ~(Cardinality(matches) > 1)
  <2>1. at' = "matching" /\ criteria' = window(CHOOSE x \in matches : TRUE)
    BY <1>1, <1>17 DEF Goto
  <2>2. PICK p \in matches : criteria' = window(p)
    BY <1>17, <2>1
  <2>3. matches = {p}
    <3>1. Cardinality(matches) \in Nat /\ Cardinality(matches) # 0
      BY <1>8, <1>17, FS_CardinalityType, FS_EmptySet
    <3>2. Cardinality(matches) = 1
      BY <3>1, <1>17
    <3> QED BY <3>2, <1>8, <2>2, FS_Singleton
  <2>4. p \in Projects \cup {None}
    BY <1>8, <2>2
  <2>5. Aimed'
    <3>1. Window(p)' = criteria' /\ Meant(asked)' = {p}
      BY <1>7, <1>9, <1>17, <2>1, <2>3, <2>4
    <3> QED BY <1>1, <1>10, <1>17, <2>4, <3>1 DEF Aimed
  <2> QED BY <1>6, <1>13, <2>1, <2>5 DEF QueryInv, Progress
<1> QED BY <1>14, <1>15, <1>16, <1>17

LEMMA CountMatchesKeeps ==
  ASSUME QueryInv, CountMatches
  PROVE  QueryInv'
<1>1. /\ at = "matching" /\ total' = Cardinality(Hits(rows, criteria)) /\ UNCHANGED answer
      /\ at' = IF total' > 0 THEN "searching"
               ELSE IF Narrows(criteria) THEN "unfiltered" ELSE "unwindowed"
      /\ UNCHANGED <<tables, asked, listed, coverage, criteria, found, seen>>
  BY DEF CountMatches, Goto
<1>2. Aimed /\ Begun /\ asked # None /\ TypeOK /\ criteria # None
  BY <1>1 DEF QueryInv, Progress, TypeOK
<1>3. Now \in seen /\ Now.tasks = rows /\ rows \in Tables
  BY <1>2 DEF Begun, Now, TypeOK, Tables
<1>4. total' \in 0..Cardinality(Tasks) /\ IsFiniteSet(Hits(rows, criteria))
  BY <1>1, <1>3, HitsType
<1>5. Begun' /\ Aimed' /\ (Filtered => Filtered')
  BY <1>1, <1>2, BegunStays, AimStays
<1>6. Counted'
  BY <1>1, <1>3 DEF Counted
<1>7. CASE total' > 0
  <2>1. at' = "searching"
    BY <1>1, <1>7
  <2>2. TypeOK'
    BY <1>1, <1>2, <1>4, <1>7, <2>1 DEF TypeOK, tables, Places, Filed, Ids
  <2> QED BY <1>1, <1>2, <1>5, <1>6, <2>1, <2>2 DEF QueryInv, Progress
<1>8. CASE ~(total' > 0)
  <2>1. Hits(rows, criteria) = {}
    BY <1>1, <1>4, <1>8, FS_EmptySet
  <2>2. NoHits /\ (Narrows(criteria)' <=> Narrows(criteria))
    BY <1>1, <1>3, <2>1 DEF NoHits, Narrows
  <2>3. NoHits' /\ Filtered'
    <3>1. Filtered
      BY <1>2, <2>2 DEF Filtered, Aimed
    <3> QED BY <1>1, <1>5, <2>2, <3>1 DEF NoHits
  <2>4. \/ at' = "unfiltered"
        \/ at' = "unwindowed" /\ ~Narrows(criteria)
    BY <1>1, <1>8
  <2>5. TypeOK'
    BY <1>1, <1>2, <1>4, <2>4 DEF TypeOK, tables, Places, Filed, Ids
  <2> QED BY <1>1, <1>2, <1>5, <2>2, <2>3, <2>4, <2>5 DEF QueryInv, Progress
<1> QED BY <1>7, <1>8

LEMMA SearchUnfilteredKeeps ==
  ASSUME QueryInv, SearchUnfiltered
  PROVE  QueryInv'
<1> DEFINE present == Hits(rows, WithoutFilters(criteria))
<1>1. /\ at = "unfiltered" /\ at' = "answered" /\ UNCHANGED <<tables, asked, reading, seen>>
      /\ answer' = [status |-> "empty_filter", unfiltered |-> Cardinality(present),
                    statuses |-> {rows[i].status : i \in present}]
  BY DEF SearchUnfiltered, Answer
<1>2. Filtered /\ Begun
  BY <1>1 DEF QueryInv, Progress
<1>3. Now \in seen /\ Now.tasks = rows
  BY <1>2 DEF Begun, Now
<1>4. Filtered' /\ seen' = seen /\ criteria' = criteria /\ asked' = asked
  BY <1>1, <1>2, AimStays DEF reading
<1>5. \E t \in seen' : LET hits == Hits(t.tasks, WithoutFilters(criteria'))
                       IN  /\ answer'.unfiltered = Cardinality(hits)
                           /\ answer'.statuses = {t.tasks[i].status : i \in hits}
  BY <1>1, <1>3, <1>4
<1>6. ToldOfQuery' /\ asked.tool = "query"
  BY <1>1, <1>2, <1>4, <1>5 DEF ToldOfQuery, Filtered, Fitted, OfQuery
<1> QED BY <1>1, <1>4, <1>6, AnswersKeep

LEMMA CountUnwindowedKeeps ==
  ASSUME QueryInv, CountUnwindowed
  PROVE  QueryInv'
<1>1. /\ at = "unwindowed" /\ at' = "answered" /\ UNCHANGED <<tables, asked, reading, seen>>
      /\ answer' = [status |-> "no_records",
                    unwindowed |-> Cardinality(Hits(rows, WithoutWindow(criteria)))]
  BY DEF CountUnwindowed, Answer
<1>2. Aimed /\ NoHits /\ ~Narrows(criteria) /\ Begun
  BY <1>1 DEF QueryInv, Progress
<1>3. Now \in seen /\ Now.tasks = rows
  BY <1>2 DEF Begun, Now
<1>4. Aimed' /\ NoHits' /\ seen' = seen /\ criteria' = criteria /\ asked' = asked
  BY <1>1, <1>2, AimStays DEF reading
<1>5. \E t \in seen' : answer'.unwindowed = Cardinality(Hits(t.tasks, WithoutWindow(criteria')))
  BY <1>1, <1>3, <1>4
<1>6. ToldOfQuery' /\ asked.tool = "query"
  BY <1>1, <1>2, <1>4, <1>5 DEF ToldOfQuery, Aimed, Fitted, OfQuery
<1> QED BY <1>1, <1>4, <1>6, AnswersKeep

LEMMA SearchKeeps ==
  ASSUME QueryInv, Search
  PROVE  QueryInv'
<1>1. /\ at = "searching" /\ at' = "undated" /\ UNCHANGED answer /\ found' = Shows(rows)
      /\ UNCHANGED <<tables, asked, listed, coverage, criteria, total, seen>>
  BY DEF Search, Goto, Shows
<1>2. Aimed /\ Counted /\ Begun /\ asked # None /\ TypeOK
  BY <1>1 DEF QueryInv, Progress
<1>3. Now \in seen /\ Now.tasks = rows /\ rows \in Tables
  BY <1>2 DEF Begun, Now, TypeOK, Tables
<1>4. Shows(rows)' = Shows(rows)
  BY <1>1 DEF Shows, tables
<1>5. Begun' /\ Aimed' /\ Counted'
  BY <1>1, <1>2, BegunStays, AimStays DEF Counted
<1>6. Read'
  <2>1. \A t \in seen : Shows(t.tasks)' = Shows(t.tasks)
    BY <1>1 DEF Shows
  <2> QED BY <1>1, <1>3, <2>1 DEF Read
<1>7. DOMAIN found' \subseteq Tasks
  <2>1. DOMAIN found' \subseteq Hits(rows, criteria)
    BY <1>1 DEF Shows, FirstOf
  <2> QED BY <2>1, <1>3, HitsType
<1>8. TypeOK'
  BY <1>1, <1>2, <1>7 DEF TypeOK, tables, Places, Filed, Ids
<1> QED BY <1>1, <1>2, <1>5, <1>6, <1>8 DEF QueryInv, Progress

LEMMA CountUndatedKeeps ==
  ASSUME QueryInv, CountUndated
  PROVE  QueryInv'
<1>1. /\ at = "undated" /\ at' = "answered" /\ UNCHANGED <<tables, asked, reading, seen>>
      /\ answer'.status = "ok" /\ answer'.total = total
      /\ answer'.shown = IF asked.view = "list"
                         THEN [tasks |-> DOMAIN found,
                               truncated |-> total > Cardinality(DOMAIN found)]
                         ELSE [counts |-> StatusCounts(found), groups |-> GroupsOf(found, asked)]
      /\ answer'.undated = Cardinality(Undated(rows, criteria))
  BY DEF CountUndated, Answer
<1>2. Aimed /\ Counted /\ Read /\ Begun /\ TypeOK
  BY <1>1 DEF QueryInv, Progress
<1>3. Now \in seen /\ Now.tasks = rows /\ total > 0
  BY <1>1, <1>2 DEF Begun, Now, TypeOK
<1>4. /\ seen' = seen /\ asked' = asked
      /\ UNCHANGED <<listed, coverage, criteria, total, found>>
  BY <1>1 DEF reading
<1>5. Aimed' /\ Counted' /\ Read'
  BY <1>2, <1>4, AimStays, CountStays
<1>6. GroupsOf(found, asked)' = GroupsOf(found, asked)
  BY <1>4 DEF GroupsOf
<1>7. \E t \in seen' : answer'.undated = Cardinality(Undated(t.tasks, criteria'))
  BY <1>1, <1>3, <1>4
<1>8. ToldOfQuery'
  BY <1>1, <1>3, <1>4, <1>5, <1>6, <1>7 DEF ToldOfQuery
<1>9. asked.tool = "query"
  BY <1>2 DEF Aimed, Fitted, OfQuery
<1> QED BY <1>1, <1>4, <1>8, <1>9, AnswersKeep

LEMMA CountPageKeeps ==
  ASSUME QueryInv, CountPage
  PROVE  QueryInv'
<1>1. /\ at = "paging" /\ at' = "turning" /\ total' = Cardinality(Hits(rows, criteria))
      /\ UNCHANGED answer
      /\ UNCHANGED <<tables, asked, listed, coverage, criteria, found, seen>>
  BY DEF CountPage, Goto
<1>2. OfPage /\ Begun /\ asked # None /\ TypeOK
  BY <1>1 DEF QueryInv, Progress
<1>3. Now \in seen /\ Now.tasks = rows /\ rows \in Tables
  BY <1>2 DEF Begun, Now, TypeOK, Tables
<1>4. total' \in 0..Cardinality(Tasks)
  BY <1>1, <1>3, HitsType
<1>5. Begun' /\ OfPage' /\ Counted'
  <2>1. Counted'
    BY <1>1, <1>3 DEF Counted
  <2> QED BY <1>1, <1>2, <2>1, BegunStays, AimStays
<1>6. TypeOK'
  BY <1>1, <1>2, <1>4 DEF TypeOK, tables, Places, Filed, Ids
<1> QED BY <1>1, <1>2, <1>5, <1>6 DEF QueryInv, Progress

LEMMA TurnPageKeeps ==
  ASSUME QueryInv, TurnPage
  PROVE  QueryInv'
<1> DEFINE page == PageOf(rows, criteria.axis, Hits(rows, criteria), asked.limit, asked.offset)
<1>1. /\ at = "turning" /\ at' = "answered" /\ UNCHANGED <<tables, asked, reading, seen>>
      /\ answer' = [status |-> "page", tasks |-> page, total |-> total,
                    more |-> asked.offset + Cardinality(page) < total]
  BY DEF TurnPage, Answer
<1>2. OfPage /\ Counted /\ Begun
  BY <1>1 DEF QueryInv, Progress
<1>3. Now \in seen /\ Now.tasks = rows
  BY <1>2 DEF Begun, Now
<1>4. /\ seen' = seen /\ asked' = asked
      /\ UNCHANGED <<listed, coverage, criteria, total, found>>
  BY <1>1 DEF reading
<1>5. OfPage' /\ Counted'
  BY <1>2, <1>4, AimStays, CountStays
<1>6. \E t \in seen' : answer'.tasks = PageOf(t.tasks, criteria'.axis, Hits(t.tasks, criteria'),
                                              asked'.limit, asked'.offset)
  BY <1>1, <1>3, <1>4
<1>7. answer'.more <=> asked'.offset + Cardinality(answer'.tasks) < total'
  <2> HIDE DEF page
  <2> QED BY <1>1, <1>4
<1>8. ToldOfPage' /\ asked.tool = "page"
  <2>1. answer'.status = "page" /\ answer'.total = total'
    BY <1>1, <1>4
  <2> QED BY <1>2, <1>5, <1>6, <1>7, <2>1 DEF ToldOfPage, OfPage
<1> QED BY <1>1, <1>4, <1>8, AnswersKeep

LEMMA FailKeeps ==
  ASSUME QueryInv, Fail
  PROVE  QueryInv'
<1>1. /\ at \notin {"asking", "answered"} /\ at' = "answered" /\ answer' = [status |-> "error"]
      /\ UNCHANGED <<tables, asked, reading, seen>>
  BY DEF Fail, Answer
<1>2. ToldOfQuery' /\ ToldOfPage' /\ ToldOfProjects'
  BY <1>1 DEF ToldOfQuery, ToldOfPage, ToldOfProjects
<1>3. asked.tool \in {"query", "page", "projects"} /\ asked' = asked
  BY <1>1, Tools DEF QueryInv, Progress, Begun
<1> QED BY <1>1, <1>2, <1>3, AnswersKeep

LEMMA WritesKeep ==
  ASSUME QueryInv, Change \/ CreateProject
  PROVE  QueryInv'
<1>1. /\ at \notin {"asking", "answered"} /\ seen' = seen \cup {Now'}
      /\ UNCHANGED <<at, asked, listed, coverage, criteria, total, found, answer>>
  BY DEF Change, CreateProject, Meanwhile, Now, reading
<1>2. Begun /\ asked # None /\ TypeOK
  BY <1>1 DEF QueryInv, Progress
<1>3. rows' \in Tables /\ made \subseteq made' /\ made' \subseteq Projects
  BY <1>2 DEF Change, CreateProject, TypeOK, Tables
<1>4. Filed(rows', made')
  <2>1. CASE Change
    <3>1. made' = made /\ Filed(rows', made)
      BY <2>1 DEF Change
    <3> QED BY <3>1
  <2>2. CASE CreateProject
    <3>1. rows' = rows /\ Filed(rows, made)
      BY <1>2, <2>2 DEF CreateProject, TypeOK
    <3> QED BY <1>3, <3>1 DEF Filed
  <2> QED BY <2>1, <2>2
<1>5. TypeOK'
  <2>1. seen' \subseteq [tasks : [Tasks -> Shapes \cup {NoRow}], projects : SUBSET made']
    <3>1. seen \subseteq [tasks : [Tasks -> Shapes \cup {NoRow}], projects : SUBSET made']
      BY <1>2, <1>3 DEF TypeOK
    <3>2. Now' \in [tasks : [Tasks -> Shapes \cup {NoRow}], projects : SUBSET made']
      BY <1>3 DEF Now, Tables
    <3> QED BY <1>1, <3>1, <3>2
  <2>2. listed' \subseteq made' /\ Filed(rows, made)'
    BY <1>1, <1>2, <1>3, <1>4 DEF TypeOK, Filed, Ids
  <2> QED BY <1>1, <1>2, <1>3, <2>1, <2>2 DEF TypeOK, Tables
<1>6. Begun'
  <2>1. IsFiniteSet(seen')
    BY <1>1, <1>2, FS_AddElement DEF Begun
  <2> QED BY <1>1, <1>2, <2>1 DEF Begun
<1>7. seen \subseteq seen'
  BY <1>1
<1>8. /\ OfQuery => OfQuery'
      /\ SomeTasks => SomeTasks'
      /\ Listed => Listed'
      /\ Aimed => Aimed'
      /\ NoHits => NoHits'
      /\ Filtered => Filtered'
      /\ OfPage => OfPage'
      /\ Counted => Counted'
      /\ Read => Read'
      /\ Narrows(criteria)' <=> Narrows(criteria)
  BY <1>1, <1>7, AskedStays, AimStays, CountStays DEF Narrows
<1>9. Progress'
  BY <1>1, <1>2, <1>6, <1>8 DEF QueryInv, Progress
<1> QED BY <1>5, <1>9 DEF QueryInv

\* A call that changes nothing knows what it knew.
LEMMA StutterKeeps ==
  ASSUME QueryInv, UNCHANGED vars
  PROVE  QueryInv'
<1>1. /\ UNCHANGED <<rows, made, at, asked, listed, coverage, criteria, total, found, answer, seen>>
      /\ UNCHANGED tables
  BY DEF vars, tables, reading
<1>2. TypeOK'
  BY <1>1 DEF QueryInv, TypeOK, Filed, Ids
<1>3. /\ (OfQuery' <=> OfQuery) /\ (SomeTasks' <=> SomeTasks) /\ (Listed' <=> Listed)
      /\ (Aimed => Aimed')
      /\ (NoHits => NoHits') /\ (Filtered => Filtered') /\ (OfPage => OfPage')
      /\ (Counted => Counted') /\ (Read => Read')
      /\ (Narrows(criteria)' <=> Narrows(criteria)) /\ (Begun => Begun')
      /\ Meant(asked)' = Meant(asked) /\ GroupsOf(found, asked)' = GroupsOf(found, asked)
  <2>1. (OfQuery' <=> OfQuery) /\ (SomeTasks' <=> SomeTasks) /\ (Listed' <=> Listed)
    BY <1>1 DEF OfQuery, SomeTasks, Listed
  <2>2. GroupsOf(found, asked)' = GroupsOf(found, asked)
    BY <1>1 DEF GroupsOf
  <2> QED BY <1>1, <2>1, <2>2, AimStays, CountStays, BegunStays DEF Narrows
<1>4. (ToldOfQuery => ToldOfQuery') /\ (ToldOfPage => ToldOfPage')
      /\ (ToldOfProjects => ToldOfProjects')
  <2>1. ToldOfQuery => ToldOfQuery'
    BY <1>1, <1>3 DEF ToldOfQuery
  <2>2. ToldOfPage => ToldOfPage'
    BY <1>1, <1>3 DEF ToldOfPage
  <2>3. ToldOfProjects => ToldOfProjects'
    BY <1>1, <1>3 DEF ToldOfProjects
  <2> QED BY <2>1, <2>2, <2>3
<1>5. CASE at = "answered"
  <2>1. Begun' /\ asked' # None
    BY <1>1, <1>3, <1>5 DEF QueryInv, Progress
  <2>2. asked.tool \in {"query", "page", "projects"}
    BY <1>5, Tools DEF QueryInv, Progress, Begun
  <2>3. CASE asked.tool = "query"
    BY <1>1, <1>2, <1>4, <1>5, <2>1, <2>3 DEF QueryInv, Progress
  <2>4. CASE asked.tool = "page"
    BY <1>1, <1>2, <1>4, <1>5, <2>1, <2>4 DEF QueryInv, Progress
  <2>5. CASE asked.tool = "projects"
    BY <1>1, <1>2, <1>4, <1>5, <2>1, <2>5 DEF QueryInv, Progress
  <2> QED BY <2>2, <2>3, <2>4, <2>5
<1>6. CASE at # "answered"
  BY <1>1, <1>2, <1>3, <1>6 DEF QueryInv, Progress
<1> QED BY <1>5, <1>6

LEMMA Keeps == QueryInv /\ [Next]_vars => QueryInv'
  BY AskKeeps, ListProjectsKeeps, SumUpKeeps, CountAllKeeps, ReadBoundsKeeps, CountMatchesKeeps,
     SearchUnfilteredKeeps, CountUnwindowedKeeps, SearchKeeps, CountUndatedKeeps, CountPageKeeps,
     TurnPageKeeps, FailKeeps, WritesKeep, StutterKeeps DEF Next

LEMMA Invariance == Spec => []QueryInv
  BY Begins, Keeps, PTL DEF Spec

\* Every variable keeps its type: the criteria name instants of the calendar, the
\* coverage is in order, and no more is counted than there are tasks.
THEOREM TypeCorrect == Spec => []TypeOK
<1>1. QueryInv => TypeOK
  BY DEF QueryInv
<1> QED BY <1>1, Invariance, PTL

-----------------------------------------------------------------------------
(* Nothing found.                                                          *)

LEMMA SeenTables ==
  ASSUME TypeOK, NEW t \in seen
  PROVE  t.tasks \in Tables
  BY DEF TypeOK, Tables

\* The search for a project finds what is wanted of it in the closed period.
LEMMA SearchIs ==
  ASSUME Fitted, NEW p \in Projects \cup {None}, NEW table \in Tables
  PROVE  /\ Window(p) \in Criterion
         /\ Hits(table, Window(p)) = Wanted(table, Closed(asked), p)
         /\ Hits(table, WithoutFilters(Window(p))) = InPeriod(table, Closed(asked))
<1> DEFINE from == IF asked.from = None /\ coverage # None THEN coverage.first ELSE asked.from
           to == IF asked.to = None /\ coverage # None THEN coverage.last ELSE asked.to
<1>1. Askable(asked) /\ coverage \in Coverage
  BY DEF Fitted, OfQuery
<1>2. /\ Closed(asked) = Over(asked, from, to)
      /\ Closed(asked).from = from /\ Closed(asked).to = to
      /\ from \in Days \cup {None} /\ to \in Days \cup {None}
  BY <1>1, ClosedIs
<1>3. Window(p) = Criteria(asked, from, to, p)
  <2> HIDE DEF from, to
  <2> QED BY <1>2 DEF Window
<1> HIDE DEF from, to
<1> QED BY <1>1, <1>2, <1>3, HitsAreWanted, CriteriaType

LEMMA NothingLeftOut ==
  ASSUME NEW c \in Criterion, ~Narrows(c)
  PROVE  WithoutFilters(c) = c
  BY DEF Narrows, WithoutFilters, Criterion

LEMMA NoRecordsMeans ==
  ASSUME Aimed, ~Narrows(criteria), NEW table \in Tables
  PROVE  /\ Hits(table, criteria) = InPeriod(table, Closed(asked))
         /\ criteria \in Criterion
<1>1. PICK p \in Projects \cup {None} : criteria = Window(p)
  BY DEF Aimed
<1>2. /\ criteria \in Criterion
      /\ Hits(table, WithoutFilters(criteria)) = InPeriod(table, Closed(asked))
  BY <1>1, SearchIs DEF Aimed
<1> QED BY <1>2, NothingLeftOut

\* Whatever is written while a question is answered: when it finds nothing, there
\* was a moment since it was asked at which there was nothing to find.
THEOREM NothingFound == Spec => []NothingFoundWasTrue
<1>1. ASSUME QueryInv
      PROVE  NothingFoundWasTrue
  <2> SUFFICES ASSUME Answered("query") PROVE
        /\ answer.status = "no_data" => \E t \in seen : Ids(t.tasks) = {}
        /\ answer.status = "coverage_gap" => \E t \in seen : InPeriod(t.tasks, asked) = {}
        /\ answer.status = "no_records" => \E t \in seen : InPeriod(t.tasks, Closed(asked)) = {}
        /\ answer.status = "empty_filter" => \A p \in Meant(asked) :
             \E t \in seen : Wanted(t.tasks, Closed(asked), p) = {}
    BY DEF NothingFoundWasTrue
  <2>1. ToldOfQuery /\ TypeOK
    BY <1>1 DEF Answered, QueryInv, Progress
  <2>2. CASE answer.status = "no_data"
    BY <2>1, <2>2 DEF ToldOfQuery
  <2>3. CASE answer.status = "coverage_gap"
    <3>1. OfQuery /\ \E t \in seen : Gap(asked, CoverageOf(t.tasks, asked.axis))
      BY <2>1, <2>3 DEF ToldOfQuery
    <3>2. \E t \in seen : InPeriod(t.tasks, asked) = {}
      BY <2>1, <3>1, GapIsEmpty, SeenTables DEF OfQuery
    <3> QED BY <2>3, <3>2
  <2>4. CASE answer.status = "no_records"
    <3>1. Aimed /\ NoHits /\ ~Narrows(criteria)
      BY <2>1, <2>4 DEF ToldOfQuery
    <3>2. \E t \in seen : InPeriod(t.tasks, Closed(asked)) = {}
      BY <2>1, <3>1, NoRecordsMeans, SeenTables DEF NoHits
    <3> QED BY <2>4, <3>2
  <2>5. CASE answer.status = "empty_filter"
    <3>1. Filtered
      BY <2>1, <2>5 DEF ToldOfQuery
    <3>2. ASSUME NEW p \in Meant(asked)
          PROVE  \E t \in seen : Wanted(t.tasks, Closed(asked), p) = {}
      <4>1. Aimed /\ NoHits
        BY <3>1, <3>2 DEF Filtered
      <4>2. p \in Projects \cup {None} /\ criteria = Window(p) /\ Fitted
        BY <4>1, <3>2 DEF Aimed
      <4> QED BY <2>1, <4>1, <4>2, SearchIs, SeenTables DEF NoHits
    <3> QED BY <2>5, <3>2
  <2> QED BY <2>2, <2>3, <2>4, <2>5
<1> QED BY <1>1, Invariance, PTL

-----------------------------------------------------------------------------
(* Answers given while nothing is written.                                 *)

LEMMA OnlyNow ==
  ASSUME Begun, Quiet
  PROVE  seen = {Now} /\ Now.tasks = rows /\ Now.projects = made
  BY FS_Singleton DEF Begun, Quiet, Now

\* A period without bounds is closed by the coverage without losing a task.
LEMMA ClosedIsSame ==
  ASSUME Askable(asked), coverage \in Coverage, rows \in Tables,
         coverage = CoverageOf(rows, asked.axis), NEW p
  PROVE  /\ InPeriod(rows, Closed(asked)) = InPeriod(rows, asked)
         /\ Wanted(rows, Closed(asked), p) = Wanted(rows, asked, p)
         /\ Closed(asked).axis = asked.axis
<1> DEFINE day(i) == DayOf(rows[i][asked.axis])
           from == IF asked.from = None /\ coverage # None THEN coverage.first ELSE asked.from
           to == IF asked.to = None /\ coverage # None THEN coverage.last ELSE asked.to
           o == Over(asked, from, to)
<1>1. asked.axis \in Axes /\ asked.from \in Days \cup {None} /\ asked.to \in Days \cup {None}
  BY AskableTypes
<1>2. coverage # None /\ coverage.first \in Days /\ coverage.last \in Days
  BY NoneMissing DEF Coverage
<1>3. Closed(asked) = o /\ o.from = from /\ o.to = to
  BY ClosedIs
<1>4. o.axis = asked.axis /\ o.statuses = asked.statuses
  BY AskableTypes
<1>5. \A i \in OnAxis(rows, asked) : coverage.first <= day(i) /\ day(i) <= coverage.last
  BY <1>1, <1>2, CoverageTells
<1>6. \A i \in OnAxis(rows, asked) : day(i) \in Days
  BY <1>1, RowsOf, DayOfInstant DEF OnAxis
<1>7. OnAxis(rows, o) = OnAxis(rows, asked)
  BY <1>4 DEF OnAxis
<1>8. ASSUME NEW i \in OnAxis(rows, asked)
      PROVE  /\ from \in {None} \cup 0..day(i) <=> asked.from \in {None} \cup 0..day(i)
             /\ to \in {None} \cup day(i)..LastDay <=> asked.to \in {None} \cup day(i)..LastDay
  <2> DEFINE d == day(i)
  <2>1. d \in 0..LastDay /\ coverage.first <= d /\ d <= coverage.last
    BY <1>5, <1>6, Calendar
  <2> HIDE DEF d, day
  <2>2. coverage.first \in 0..d /\ coverage.last \in d..LastDay
    BY <1>2, <2>1, Calendar
  <2>3. from \in {None} \cup 0..d <=> asked.from \in {None} \cup 0..d
    BY <1>2, <2>2
  <2>4. to \in {None} \cup d..LastDay <=> asked.to \in {None} \cup d..LastDay
    BY <1>2, <2>2
  <2> QED BY <2>3, <2>4 DEF d
<1> HIDE DEF o, from, to
<1>9. InPeriod(rows, o) = InPeriod(rows, asked)
  BY <1>3, <1>4, <1>7, <1>8 DEF InPeriod
<1>10. \A i : Fits(rows[i], o, p) <=> Fits(rows[i], asked, p)
  BY <1>4 DEF Fits
<1>11. Wanted(rows, o, p) = Wanted(rows, asked, p)
  BY <1>9, <1>10 DEF Wanted
<1> QED BY <1>3, <1>4, <1>9, <1>11

\* The prompt says of "no_records" that the period is inside the covered range:
\* there are tasks before the period and after it.
THEOREM NoRecordsInside == Spec => []NoRecordsIsInsideCoverage
<1>1. ASSUME QueryInv
      PROVE  NoRecordsIsInsideCoverage
  <2> DEFINE day(i) == DayOf(rows[i][asked.axis])
             on == OnAxis(rows, asked)
  <2> SUFFICES ASSUME Answered("query"), answer.status = "no_records", Quiet
               PROVE  /\ asked.from # None /\ asked.to # None
                      /\ \E i \in on : day(i) < asked.from
                      /\ \E i \in on : day(i) > asked.to
    BY DEF NoRecordsIsInsideCoverage
  <2>1. ToldOfQuery /\ TypeOK /\ Begun
    BY <1>1 DEF Answered, QueryInv, Progress
  <2>2. Aimed /\ NoHits /\ ~Narrows(criteria)
    BY <2>1 DEF ToldOfQuery
  <2>3. seen = {Now} /\ Now.tasks = rows /\ rows \in Tables
    BY <2>1, OnlyNow DEF TypeOK, Tables
  <2>4. /\ Askable(asked) /\ coverage \in Coverage /\ ~Gap(asked, coverage)
        /\ coverage = CoverageOf(rows, asked.axis) /\ asked.axis \in Axes
        /\ asked.from \in Days \cup {None} /\ asked.to \in Days \cup {None}
    BY <2>2, <2>3, AskableTypes DEF Aimed, Fitted, OfQuery
  <2>5. InPeriod(rows, asked) = {}
    <3>1. Hits(rows, criteria) = {}
      BY <2>2, <2>3 DEF NoHits
    <3>2. Hits(rows, criteria) = InPeriod(rows, Closed(asked))
      BY <2>2, <2>3, NoRecordsMeans
    <3>3. InPeriod(rows, Closed(asked)) = InPeriod(rows, asked)
      BY <2>3, <2>4, ClosedIsSame
    <3> QED BY <3>1, <3>2, <3>3
  <2>6. PICK i \in on : day(i) = coverage.first
    BY <2>3, <2>4, CoverageTells, NoneMissing
  <2>7. PICK j \in on : day(j) = coverage.last
    BY <2>3, <2>4, CoverageTells, NoneMissing
  <2>8. coverage.first \in 0..LastDay /\ coverage.last \in 0..LastDay
        /\ coverage.first <= coverage.last /\ coverage # None
    BY <2>4, Calendar, NoneMissing DEF Coverage
  <2>9. \A k \in on : ~(/\ asked.from \in {None} \cup 0..day(k)
                        /\ asked.to \in {None} \cup day(k)..LastDay)
    BY <2>5 DEF InPeriod
  <2>10. /\ asked.from # None => asked.from \in 0..LastDay /\ asked.from <= coverage.last
         /\ asked.to # None => asked.to \in 0..LastDay /\ coverage.first <= asked.to
    <3>1. /\ asked.from # None => asked.from \in 0..LastDay /\ ~(asked.from > coverage.last)
          /\ asked.to # None => asked.to \in 0..LastDay /\ ~(asked.to < coverage.first)
      BY <2>4, Calendar DEF Gap
    <3> QED BY <3>1, <2>8
  <2> DEFINE f == coverage.first  l == coverage.last  a == asked.from  b == asked.to
  <2>11. ~(a \in {None} \cup 0..f /\ b \in {None} \cup f..LastDay)
    BY <2>6, <2>9
  <2>12. ~(a \in {None} \cup 0..l /\ b \in {None} \cup l..LastDay)
    BY <2>7, <2>9
  <2>13. /\ f \in 0..LastDay /\ l \in 0..LastDay /\ f <= l /\ LastDay \in Nat
         /\ a = None \/ (a \in 0..LastDay /\ a <= l)
         /\ b = None \/ (b \in 0..LastDay /\ f <= b)
    BY <2>8, <2>10, Calendar
  <2>14. a # None /\ b # None /\ f < a /\ l > b
    <3> HIDE DEF a, b, f, l
    <3> QED BY <2>11, <2>12, <2>13
  <2> QED BY <2>6, <2>7, <2>14
<1> QED BY <1>1, Invariance, PTL

-----------------------------------------------------------------------------
(* Places in an order, and pages.                                          *)

\* The members of a finite set in a strict total order have the places 0, 1, 2 ...,
\* one each, by the number of members after them.
LEMMA PlacesInOrder ==
  ASSUME NEW S, IsFiniteSet(S), NEW R,
         \A x \in S : <<x, x>> \notin R,
         \A x, y, z \in S : <<x, y>> \in R /\ <<y, z>> \in R => <<x, z>> \in R,
         \A x, y \in S : x = y \/ <<x, y>> \in R \/ <<y, x>> \in R,
         NEW place, place = [x \in S |-> Cardinality({y \in S : <<x, y>> \in R})]
  PROVE  /\ place \in Bijection(S, 0..(Cardinality(S) - 1))
         /\ \A x, y \in S : <<x, y>> \in R <=> place[y] < place[x]
         /\ \A x \in S : place[x] \in Nat
<1> DEFINE After(x) == {y \in S : <<x, y>> \in R}
           n == Cardinality(S)
<1>1. \A x \in S : After(x) \in SUBSET S /\ IsFiniteSet(After(x)) /\ Cardinality(After(x)) \in Nat
  BY FS_Subset, FS_CardinalityType
<1>2. \A x \in S : place[x] = Cardinality(After(x))
  OBVIOUS
<1>3. ASSUME NEW x \in S, NEW y \in S, <<x, y>> \in R
      PROVE  place[y] < place[x]
  <2>1. After(y) \in SUBSET After(x) /\ y \in After(x) /\ y \notin After(y)
    BY <1>3
  <2>2. Cardinality(After(y)) <= Cardinality(After(x))
        /\ Cardinality(After(y)) # Cardinality(After(x))
    <3> HIDE DEF After
    <3> QED BY <2>1, <1>1, FS_Subset
  <2>3. place[x] = Cardinality(After(x)) /\ place[y] = Cardinality(After(y))
    BY <1>2
  <2>4. Cardinality(After(x)) \in Nat /\ Cardinality(After(y)) \in Nat
    BY <1>1
  <2> HIDE DEF After
  <2> QED BY <2>2, <2>3, <2>4
<1>4. n \in Nat
  BY FS_CardinalityType
<1>5. ASSUME NEW x \in S
      PROVE  place[x] \in 0..(n - 1)
  <2>1. After(x) \in SUBSET S /\ x \notin After(x)
    OBVIOUS
  <2>2. Cardinality(After(x)) <= n /\ Cardinality(After(x)) # n
    <3> HIDE DEF After
    <3> QED BY <2>1, FS_Subset
  <2>3. place[x] = Cardinality(After(x)) /\ Cardinality(After(x)) \in Nat
    BY <1>1, <1>2
  <2> HIDE DEF After, n
  <2> QED BY <2>2, <2>3, <1>4
<1>6. ASSUME NEW x \in S, NEW y \in S
      PROVE  <<x, y>> \in R <=> place[y] < place[x]
  <2> HIDE DEF n
  <2>1. place[x] \in Int /\ place[y] \in Int
    BY <1>4, <1>5
  <2>2. x = y \/ <<x, y>> \in R \/ <<y, x>> \in R
    OBVIOUS
  <2>3. CASE x = y
    BY <2>1, <2>3
  <2>4. CASE <<x, y>> \in R
    BY <2>4, <1>3
  <2>5. CASE <<y, x>> \in R
    <3>1. place[x] < place[y]
      BY <2>5, <1>3
    <3>2. <<x, y>> \notin R
      BY <2>5
    <3> QED BY <3>1, <3>2, <2>1
  <2> QED BY <2>2, <2>3, <2>4, <2>5
<1>7. place \in Injection(S, 0..(n - 1))
  <2>1. place \in [S -> 0..(n - 1)]
    <3> HIDE DEF n
    <3> QED BY <1>5
  <2>2. \A x, y \in S : place[x] = place[y] => x = y
    <3> HIDE DEF n
    <3> QED BY <1>4, <1>5, <1>6
  <2> QED BY <2>1, <2>2 DEF Injection, IsInjective
<1>8. IsFiniteSet(0..(n - 1)) /\ Cardinality(0..(n - 1)) = n
  <2> HIDE DEF n
  <2> QED BY <1>4, FS_Interval
<1>9. place \in Surjection(S, 0..(n - 1))
  BY <1>7, <1>8, FS_Injection
<1>10. \A x \in S : place[x] \in Nat
  BY <1>5
<1> QED BY <1>6, <1>7, <1>9, <1>10 DEF Bijection

\* So as many have a place in a range as the range has numbers below the size.
LEMMA PlacesCounted ==
  ASSUME NEW S, IsFiniteSet(S), NEW place \in Bijection(S, 0..(Cardinality(S) - 1)),
         NEW a \in Nat, NEW b \in Int, a <= b + 1
  PROVE  LET n == Cardinality(S)
         IN  Cardinality({x \in S : place[x] \in a..b})
               = IF n <= a THEN 0 ELSE IF n <= b THEN n - a ELSE b - a + 1
<1> DEFINE n == Cardinality(S)
           top == IF n <= b THEN n - 1 ELSE b
           T == {x \in S : place[x] \in a..b}
           part == [x \in T |-> place[x]]
<1>1. n \in Nat
  BY FS_CardinalityType
<1>2. /\ place \in [S -> 0..(n - 1)]
      /\ \A x, y \in S : place[x] = place[y] => x = y
      /\ \A k \in 0..(n - 1) : \E x \in S : place[x] = k
  BY DEF Bijection, Injection, Surjection, IsInjective
<1> HIDE DEF n
<1>3. \A x \in S : place[x] \in a..b <=> place[x] \in a..top
  BY <1>1, <1>2
<1>4. \A k \in a..top : k \in 0..(n - 1)
  BY <1>1
<1>5. part \in Bijection(T, a..top)
  <2>1. part \in [T -> a..top] /\ \A x, y \in T : part[x] = part[y] => x = y
    BY <1>2, <1>3
  <2>2. \A k \in a..top : \E x \in T : part[x] = k
    <3> SUFFICES ASSUME NEW k \in a..top PROVE \E x \in T : part[x] = k
      OBVIOUS
    <3>1. PICK x \in S : place[x] = k
      BY <1>2, <1>4
    <3> QED BY <3>1, <1>3
  <2> HIDE DEF part, T, top
  <2> QED BY <2>1, <2>2 DEF Bijection, Injection, Surjection, IsInjective
<1>6. IsFiniteSet(T)
  BY FS_Subset
<1>7. Cardinality(T) = Cardinality(a..top)
  <2> HIDE DEF part, T, top
  <2>1. ExistsBijection(T, a..top)
    BY <1>5 DEF ExistsBijection
  <2> QED BY <1>6, <2>1, FS_Bijection
<1>8. Cardinality(a..top) = IF a > top THEN 0 ELSE top - a + 1
  <2>1. top \in Int
    BY <1>1
  <2> HIDE DEF top
  <2> QED BY <2>1, FS_Interval
<1>9. (IF a > top THEN 0 ELSE top - a + 1)
         = IF n <= a THEN 0 ELSE IF n <= b THEN n - a ELSE b - a + 1
  BY <1>1
<1> QED BY <1>7, <1>8, <1>9 DEF n

\* Instants, and ids among equal instants, put the tasks of an axis in an order.
InOrder(table, axis, S) == {r \in S \X S : Before(table, axis, r[1], r[2])}
FromLatest(table, axis, S) ==
  [i \in S |-> Cardinality({j \in S : Before(table, axis, i, j)})]
FromEarliest(table, axis, S) ==
  [i \in S |-> Cardinality({j \in S : Before(table, axis, j, i)})]

LEMMA AxisOrders ==
  ASSUME NEW table \in Tables, NEW axis \in Axes,
         NEW S, S \subseteq Ids(table), \A i \in S : table[i][axis] # None
  PROVE  /\ IsFiniteSet(S) /\ S \in SUBSET Tasks
         /\ FromLatest(table, axis, S) \in Bijection(S, 0..(Cardinality(S) - 1))
         /\ FromEarliest(table, axis, S) \in Bijection(S, 0..(Cardinality(S) - 1))
         /\ \A i, j \in S :
              /\ FromLatest(table, axis, S)[i] \in Nat /\ FromEarliest(table, axis, S)[i] \in Nat
              /\ Before(table, axis, i, j)
                   <=> FromLatest(table, axis, S)[j] < FromLatest(table, axis, S)[i]
              /\ Before(table, axis, j, i)
                   <=> FromEarliest(table, axis, S)[j] < FromEarliest(table, axis, S)[i]
<1> DEFINE R == InOrder(table, axis, S)
           Q == {r \in S \X S : Before(table, axis, r[2], r[1])}
<1>1. S \in SUBSET Tasks /\ IsFiniteSet(S)
  BY IdsFinite DEF Ids
<1>2. \A i \in S : i \in Nat /\ table[i][axis] \in Int
  BY <1>1, RowsOf, QueryAssumption, Calendar DEF QueryAssumption, Instants
<1>3. \A i, j \in S : <<i, j>> \in R <=> Before(table, axis, i, j)
  BY DEF InOrder
<1>4. \A i, j \in S : <<i, j>> \in Q <=> Before(table, axis, j, i)
  OBVIOUS
<1> HIDE DEF R, Q
<1>5. /\ \A x \in S : ~Before(table, axis, x, x)
      /\ \A x, y, z \in S : Before(table, axis, x, y) /\ Before(table, axis, y, z)
                              => Before(table, axis, x, z)
      /\ \A x, y \in S : x = y \/ Before(table, axis, x, y) \/ Before(table, axis, y, x)
  BY <1>2 DEF Before
<1>6. /\ \A x \in S : <<x, x>> \notin R
      /\ \A x, y, z \in S : <<x, y>> \in R /\ <<y, z>> \in R => <<x, z>> \in R
      /\ \A x, y \in S : x = y \/ <<x, y>> \in R \/ <<y, x>> \in R
  BY <1>3, <1>5
<1>7. /\ \A x \in S : <<x, x>> \notin Q
      /\ \A x, y, z \in S : <<x, y>> \in Q /\ <<y, z>> \in Q => <<x, z>> \in Q
      /\ \A x, y \in S : x = y \/ <<x, y>> \in Q \/ <<y, x>> \in Q
  BY <1>4, <1>5
<1>8. FromLatest(table, axis, S) = [x \in S |-> Cardinality({y \in S : <<x, y>> \in R})]
  <2>1. \A x \in S : {y \in S : <<x, y>> \in R} = {y \in S : Before(table, axis, x, y)}
    BY <1>3
  <2> QED BY <2>1 DEF FromLatest
<1>9. FromEarliest(table, axis, S) = [x \in S |-> Cardinality({y \in S : <<x, y>> \in Q})]
  <2>1. \A x \in S : {y \in S : <<x, y>> \in Q} = {y \in S : Before(table, axis, y, x)}
    BY <1>4
  <2> QED BY <2>1 DEF FromEarliest
<1>10. /\ FromLatest(table, axis, S) \in Bijection(S, 0..(Cardinality(S) - 1))
       /\ \A x, y \in S : <<x, y>> \in R
            <=> FromLatest(table, axis, S)[y] < FromLatest(table, axis, S)[x]
       /\ \A x \in S : FromLatest(table, axis, S)[x] \in Nat
  BY <1>1, <1>6, <1>8, PlacesInOrder
<1>11. /\ FromEarliest(table, axis, S) \in Bijection(S, 0..(Cardinality(S) - 1))
       /\ \A x, y \in S : <<x, y>> \in Q
            <=> FromEarliest(table, axis, S)[y] < FromEarliest(table, axis, S)[x]
       /\ \A x \in S : FromEarliest(table, axis, S)[x] \in Nat
  BY <1>1, <1>7, <1>9, PlacesInOrder
<1> QED BY <1>1, <1>3, <1>4, <1>10, <1>11

\* The tasks that come before some task of a page, and not on it.
AheadOf(table, axis, rest, page) == {i \in rest : \E j \in page : Before(table, axis, j, i)}

\* A page is full or ends with the last task; when it holds any, as many come before it
\* as its offset skips, and those come before every task of it.
InPlace(table, axis, S, limit, offset, page) ==
  /\ page \subseteq S /\ Cardinality(S) \in Nat
  /\ Cardinality(page) = IF Cardinality(S) <= offset THEN 0
                         ELSE IF Cardinality(S) <= offset + limit - 1
                              THEN Cardinality(S) - offset ELSE limit
  /\ page # {} => Cardinality(AheadOf(table, axis, S \ page, page)) = offset
  /\ \A i \in AheadOf(table, axis, S \ page, page), j \in page : Before(table, axis, j, i)

LEMMA PageHolds ==
  ASSUME NEW table \in Tables, NEW axis \in Axes,
         NEW S, S \subseteq Ids(table), \A i \in S : table[i][axis] # None,
         NEW limit \in Nat \ {0}, NEW offset \in Nat, NEW page,
         page = PageOf(table, axis, S, limit, offset)
  PROVE  InPlace(table, axis, S, limit, offset, page)
<1> DEFINE n == Cardinality(S)
           place == FromLatest(table, axis, S)
           ahead == AheadOf(table, axis, S \ page, page)
<1>1. IsFiniteSet(S) /\ n \in Nat
  BY AxisOrders, FS_CardinalityType
<1>2. place \in Bijection(S, 0..(n - 1)) /\ \A i \in S : place[i] \in Nat
  BY AxisOrders
<1>3. \A i, j \in S : Before(table, axis, j, i) <=> place[i] < place[j]
  BY AxisOrders
<1>4. page = {i \in S : place[i] \in offset..(offset + limit - 1)}
  BY DEF PageOf, FromLatest
<1> HIDE DEF place
<1>5. Cardinality(page) = IF n <= offset THEN 0
                          ELSE IF n <= offset + limit - 1 THEN n - offset ELSE limit
  <2> DEFINE last == offset + limit - 1
  <2>1. last \in Int /\ offset <= last + 1 /\ last - offset + 1 = limit
    OBVIOUS
  <2>2. page = {i \in S : place[i] \in offset..last}
    BY <1>4
  <2> HIDE DEF last
  <2>3. Cardinality({i \in S : place[i] \in offset..last})
          = IF n <= offset THEN 0 ELSE IF n <= last THEN n - offset ELSE last - offset + 1
    BY <1>1, <1>2, <2>1, PlacesCounted
  <2> QED BY <2>1, <2>2, <2>3 DEF last
\* A task not on the page comes before one of its tasks only from a smaller place, and
\* then before all of them.
<1>6. \A i \in ahead : i \in S /\ place[i] < offset
  <2> SUFFICES ASSUME NEW i \in ahead PROVE i \in S /\ place[i] < offset
    OBVIOUS
  <2>1. PICK j \in page : Before(table, axis, j, i)
    BY DEF AheadOf
  <2>2. i \in S /\ i \notin page /\ j \in S
    BY <1>4 DEF AheadOf
  <2>3. place[i] < place[j] /\ place[i] \in Nat
    BY <1>2, <1>3, <2>1, <2>2
  <2>4. place[j] \in offset..(offset + limit - 1) /\ place[i] \notin offset..(offset + limit - 1)
    BY <1>4, <2>2
  <2> QED BY <2>2, <2>3, <2>4
<1>7. ASSUME NEW i \in S, place[i] < offset, NEW j \in page
      PROVE  Before(table, axis, j, i) /\ i \in S \ page
  <2>1. j \in S /\ place[j] \in offset..(offset + limit - 1) /\ place[i] \in Nat
    BY <1>2, <1>4
  <2>2. place[i] < place[j] /\ place[i] \notin offset..(offset + limit - 1)
    BY <1>7, <2>1
  <2> QED BY <1>3, <1>4, <2>1, <2>2
<1>8. \A i \in ahead, j \in page : Before(table, axis, j, i)
  BY <1>6, <1>7
<1>9. ASSUME page # {}
      PROVE  Cardinality(ahead) = offset
  <2> DEFINE last == offset - 1
  <2>1. last \in Int /\ 0 <= last + 1 /\ 0 \in Nat /\ last - 0 + 1 = offset
        /\ \A k \in Nat : k \in 0..last <=> k < offset
    OBVIOUS
  <2>2. ahead = {i \in S : place[i] \in 0..last}
    <3>1. \A i \in S : place[i] \in 0..last <=> place[i] < offset
      BY <1>2, <2>1
    <3>2. PICK j \in page : TRUE
      BY <1>9
    <3>3. ASSUME NEW i \in S, place[i] < offset
          PROVE  i \in ahead
      BY <1>7, <3>2, <3>3 DEF AheadOf
    <3> HIDE DEF ahead, last
    <3> QED BY <1>6, <3>1, <3>3
  <2>3. ~(n <= offset)
    <3>1. PICK j \in page : TRUE
      BY <1>9
    <3>2. place[j] \in 0..(n - 1) /\ place[j] >= offset
      BY <1>2, <1>4, <3>1 DEF Bijection, Injection
    <3> HIDE DEF n
    <3> QED BY <1>1, <3>2
  <2> HIDE DEF last, ahead
  <2>4. Cardinality({i \in S : place[i] \in 0..last})
          = IF n <= 0 THEN 0 ELSE IF n <= last THEN n - 0 ELSE last - 0 + 1
    BY <1>1, <1>2, <2>1, PlacesCounted
  <2> HIDE DEF n
  <2>5. (IF n <= 0 THEN 0 ELSE IF n <= last THEN n - 0 ELSE last - 0 + 1) = offset
    BY <1>1, <2>1, <2>3 DEF last
  <2> QED BY <2>2, <2>4, <2>5 DEF n
<1>10. page \subseteq S
  BY <1>4
<1> QED BY <1>1, <1>5, <1>8, <1>9, <1>10 DEF InPlace

\* A page of the listing holds the tasks of its places and no others: as many tasks
\* are shown before it as its offset skips, it falls short of its limit only when no
\* task comes after it, and it says that there are more exactly when some do.
THEOREM PagesExact == Spec => []PageIsExact
<1>1. ASSUME QueryInv
      PROVE  PageIsExact
  <2> DEFINE wanted == Wanted(rows, asked, asked.project)
             size == Cardinality(answer.tasks)
             ahead == {i \in wanted \ answer.tasks : \E j \in answer.tasks : ShownBefore(i, j)}
  <2> SUFFICES ASSUME Answered("page"), Quiet, answer.status = "page"
               PROVE  /\ answer.tasks \subseteq wanted
                      /\ size <= asked.limit
                      /\ size < asked.limit => Cardinality(wanted) <= asked.offset + size
                      /\ answer.tasks # {} => Cardinality(ahead) = asked.offset
                      /\ \A i \in ahead, j \in answer.tasks : ShownBefore(i, j)
                      /\ answer.total = Cardinality(wanted)
                      /\ answer.more <=> Cardinality(wanted) > asked.offset + asked.limit
    BY DEF PageIsExact
  <2>1. ToldOfPage /\ TypeOK /\ Begun
    BY <1>1 DEF Answered, QueryInv, Progress
  <2>2. /\ OfPage /\ Counted /\ answer.total = total
        /\ \E t \in seen : answer.tasks = PageOf(t.tasks, criteria.axis, Hits(t.tasks, criteria),
                                                 asked.limit, asked.offset)
        /\ answer.more <=> asked.offset + Cardinality(answer.tasks) < total
    BY <2>1 DEF ToldOfPage
  <2>3. seen = {Now} /\ Now.tasks = rows /\ rows \in Tables
    BY <2>1, OnlyNow DEF TypeOK, Tables
  <2>4. asked \in PageRequest /\ Askable(asked)
    BY <2>2 DEF OfPage, Askable, Question
  <2>5. /\ asked.axis \in Axes /\ asked.limit \in Nat \ {0} /\ asked.offset \in Nat
        /\ asked.from \in Days \cup {None} /\ asked.to \in Days \cup {None}
        /\ asked.project \in Projects \cup {None}
        /\ Over(asked, asked.from, asked.to) = asked
    BY <2>4 DEF PageRequest, Over
  <2>6. Hits(rows, criteria) = wanted /\ criteria.axis = asked.axis
    <3>1. criteria = Criteria(asked, asked.from, asked.to, asked.project)
      BY <2>2 DEF OfPage
    <3> QED BY <2>3, <2>4, <2>5, <3>1, HitsAreWanted DEF Criteria
  <2>7. answer.tasks = PageOf(rows, asked.axis, wanted, asked.limit, asked.offset)
        /\ answer.total = Cardinality(wanted) /\ total = Cardinality(wanted)
    BY <2>2, <2>3, <2>6 DEF Counted
  <2>8. wanted \subseteq Ids(rows) /\ \A i \in wanted : rows[i][asked.axis] # None
    BY DEF Wanted, InPeriod, OnAxis
  <2> HIDE DEF wanted
  <2>9. InPlace(rows, asked.axis, wanted, asked.limit, asked.offset, answer.tasks)
    <3> DEFINE axis == asked.axis  limit == asked.limit  offset == asked.offset
               page == answer.tasks
    <3>1. /\ axis \in Axes /\ limit \in Nat \ {0} /\ offset \in Nat
          /\ page = PageOf(rows, axis, wanted, limit, offset)
          /\ wanted \subseteq Ids(rows) /\ \A i \in wanted : rows[i][axis] # None
      BY <2>5, <2>7, <2>8
    <3> HIDE DEF axis, limit, offset, page
    <3>2. InPlace(rows, axis, wanted, limit, offset, page)
      BY <2>3, <3>1, PageHolds
    <3> QED BY <3>2 DEF axis, limit, offset, page
  <2>10. \A i, j \in wanted : Before(rows, asked.axis, j, i) <=> ShownBefore(i, j)
    <3> SUFFICES ASSUME NEW i \in wanted, NEW j \in wanted
                 PROVE  Before(rows, asked.axis, j, i) <=> ShownBefore(i, j)
      OBVIOUS
    <3>1. i \in Ids(rows) /\ j \in Ids(rows)
      BY <2>8
    <3>2. rows[i][asked.axis] \in Int /\ rows[j][asked.axis] \in Int
      <4>1. Instants \subseteq Int
        BY Calendar DEF Instants
      <4>2. /\ rows[i][asked.axis] \in Instants \cup {None} /\ rows[i][asked.axis] # None
            /\ rows[j][asked.axis] \in Instants \cup {None} /\ rows[j][asked.axis] # None
        BY <2>3, <2>5, <2>8, <3>1, RowsOf
      <4> QED BY <4>1, <4>2
    <3>3. i \in Nat /\ j \in Nat
      BY <3>1, QueryAssumption DEF QueryAssumption, Ids
    <3> QED BY <3>2, <3>3 DEF Before, ShownBefore
  <2>11. ahead = AheadOf(rows, asked.axis, wanted \ answer.tasks, answer.tasks)
    BY <2>9, <2>10 DEF AheadOf, InPlace
  <2>12. answer.more <=> asked.offset + size < Cardinality(wanted)
    BY <2>2, <2>7
  <2> DEFINE n == Cardinality(wanted)
  <2>13. /\ size <= asked.limit /\ (size < asked.limit => n <= asked.offset + size)
         /\ asked.offset + size < n <=> n > asked.offset + asked.limit
    <3>1. n \in Nat /\ size = IF n <= asked.offset THEN 0
                              ELSE IF n <= asked.offset + asked.limit - 1
                                   THEN n - asked.offset ELSE asked.limit
      BY <2>9 DEF InPlace
    <3> HIDE DEF n, size
    <3> QED BY <3>1, <2>5
  <2>14. \A i \in ahead, j \in answer.tasks : ShownBefore(i, j)
    <3>1. \A i \in ahead : i \in wanted
      OBVIOUS
    <3> HIDE DEF ahead
    <3> QED BY <2>9, <2>10, <2>11, <3>1 DEF InPlace
  <2> HIDE DEF ahead
  <2> QED BY <2>7, <2>9, <2>11, <2>12, <2>13, <2>14 DEF InPlace
<1> QED BY <1>1, Invariance, PTL

-----------------------------------------------------------------------------
(* What an answer shows of the tasks it found.                             *)

\* The earliest tasks up to a cap: all of them, or as many as the cap allows, none
\* of which is later than one left out.
LEMMA FirstShown ==
  ASSUME NEW table \in Tables, NEW axis \in Axes,
         NEW S, S \subseteq Ids(table), \A i \in S : table[i][axis] # None,
         NEW cap \in Nat \ {0}, NEW part, part = FirstOf(table, axis, S, cap)
  PROVE  /\ part \subseteq S
         /\ Cardinality(S) > Cardinality(part) <=> part # S
         /\ part # S => Cardinality(part) = cap
         /\ \A i \in part, j \in S \ part : table[i][axis] <= table[j][axis]
<1> DEFINE place == FromEarliest(table, axis, S)
           n == Cardinality(S)
           last == cap - 1
<1>1. IsFiniteSet(S) /\ n \in Nat
  BY AxisOrders, FS_CardinalityType
<1>2. place \in Bijection(S, 0..(n - 1)) /\ \A i \in S : place[i] \in Nat
  BY AxisOrders
<1>3. \A i, j \in S : Before(table, axis, j, i) <=> place[j] < place[i]
  BY AxisOrders
<1>4. part = {i \in S : place[i] < cap}
  BY DEF FirstOf, FromEarliest
<1> HIDE DEF place
<1>5. last \in Int /\ 0 <= last + 1 /\ 0 \in Nat /\ last - 0 + 1 = cap
  OBVIOUS
<1>6. part = {i \in S : place[i] \in 0..last}
  BY <1>2, <1>4
<1>7. Cardinality(part) = IF n <= 0 THEN 0 ELSE IF n <= last THEN n ELSE cap
  <2> HIDE DEF last
  <2>1. Cardinality({i \in S : place[i] \in 0..last})
          = IF n <= 0 THEN 0 ELSE IF n <= last THEN n - 0 ELSE last - 0 + 1
    BY <1>1, <1>2, <1>5, PlacesCounted
  <2> DEFINE size == Cardinality(part)
  <2>2. size = IF n <= 0 THEN 0 ELSE IF n <= last THEN n - 0 ELSE last - 0 + 1
    BY <1>6, <2>1
  <2>3. size = IF n <= 0 THEN 0 ELSE IF n <= last THEN n ELSE cap
    <3> HIDE DEF size, n
    <3> QED BY <1>1, <1>5, <2>2
  <2> QED BY <2>3
<1>8. part \subseteq S
  BY <1>4
<1>9. part # S => Cardinality(part) # n /\ Cardinality(part) <= n
  BY <1>1, <1>8, FS_Subset
<1>10. /\ n > Cardinality(part) <=> part # S
       /\ part # S => Cardinality(part) = cap
  <2> DEFINE size == Cardinality(part)
  <2>1. size = IF n <= 0 THEN 0 ELSE IF n <= cap - 1 THEN n ELSE cap
    BY <1>7
  <2>2. part # S => size # n /\ size <= n
    BY <1>9
  <2>3. part = S => size = n
    OBVIOUS
  <2> HIDE DEF size, n
  <2>4. n \in Nat /\ size \in Nat
    BY <1>1, <2>1
  <2>5. n > size <=> part # S
    BY <2>2, <2>3, <2>4
  <2>6. part # S => size = cap
    BY <2>1, <2>2, <2>4
  <2> QED BY <2>5, <2>6 DEF size, n
<1>11. ASSUME NEW i \in part, NEW j \in S \ part
       PROVE  table[i][axis] <= table[j][axis]
  <2>1. i \in S /\ j \in S /\ place[i] < place[j]
    BY <1>2, <1>4
  <2>2. Before(table, axis, i, j)
    BY <1>3, <2>1
  <2>3. table[i][axis] \in Int /\ table[j][axis] \in Int
    BY <2>1, RowsOf, Calendar DEF Instants
  <2> QED BY <2>2, <2>3 DEF Before
<1> QED BY <1>8, <1>10, <1>11

\* Two days are in one week unless a Monday after the first of them has begun.
LEMMA Weeks ==
  ASSUME NEW d \in Nat, NEW e \in Nat, d <= e
  PROVE  Monday(d) = Monday(e) <=> \A x \in (d + 1)..e : (x + Weekday) % 7 # 0
<1>1. Weekday \in 0..6
  BY QueryAssumption DEF QueryAssumption
<1> DEFINE m == Monday(e)
<1>2. ASSUME NEW x \in Nat
      PROVE  /\ Monday(x) \in Int /\ Monday(x) <= x /\ x <= Monday(x) + 6
             /\ \E k \in Int : Monday(x) + Weekday = 7 * k
             /\ (x + Weekday) % 7 = 0 <=> Monday(x) = x
  BY <1>1 DEF Monday
<1>3. PICK k \in Int : Monday(d) + Weekday = 7 * k
  BY <1>2
<1>4. PICK l \in Int : Monday(e) + Weekday = 7 * l
  BY <1>2
<1>5. ASSUME NEW x \in (d + 1)..e, (x + Weekday) % 7 = 0
      PROVE  Monday(d) # Monday(e)
  <2>1. PICK j \in Int : x + Weekday = 7 * j
    BY <1>1, <1>2, <1>5
  <2>2. /\ Monday(d) \in Int /\ Monday(d) <= d /\ d <= Monday(d) + 6
        /\ Monday(e) \in Int /\ Monday(e) <= e /\ e <= Monday(e) + 6
        /\ x \in Int /\ d < x /\ x <= e
    BY <1>2
  <2>3. ASSUME Monday(d) = Monday(e) PROVE FALSE
    <3>1. 7 * j > 7 * k /\ 7 * j < 7 * k + 7
      BY <1>1, <1>3, <2>1, <2>2, <2>3
    <3> QED BY <3>1
  <2> QED BY <2>3
<1>6. ASSUME Monday(d) # Monday(e)
      PROVE  Monday(e) \in (d + 1)..e /\ (Monday(e) + Weekday) % 7 = 0
  <2>1. /\ Monday(d) \in Int /\ Monday(d) <= d /\ d <= Monday(d) + 6
        /\ Monday(e) \in Int /\ Monday(e) <= e /\ e <= Monday(e) + 6
    BY <1>2
  <2>2. k # l
    BY <1>1, <1>3, <1>4, <1>6, <2>1
  <2>3. ~(l < k)
    BY <1>1, <1>3, <1>4, <2>1
  <2>4. 7 * l >= 7 * k + 7
    BY <2>2, <2>3
  <2>5. Monday(e) > d
    BY <1>1, <1>3, <1>4, <2>1, <2>4
  <2>6. (7 * l) % 7 = 0
    OBVIOUS
  <2> QED BY <1>4, <2>1, <2>5, <2>6
<1> QED BY <1>5, <1>6

\* Tasks have one key exactly when they belong together.
LEMMA SameGroup ==
  ASSUME rows \in Tables, NEW q, q.axis \in Axes, q.group \in Groupings \ {"none"},
         NEW i \in Ids(rows), NEW j \in Ids(rows),
         rows[i][q.axis] # None, rows[j][q.axis] # None
  PROVE  GroupOf(rows[i], q) = GroupOf(rows[j], q) <=> Together(q, i, j)
<1> DEFINE d == DayOf(rows[i][q.axis])
           e == DayOf(rows[j][q.axis])
           days == {d, e}
<1>1. d \in Days /\ e \in Days /\ d \in Nat /\ e \in Nat
  BY RowsOf, DayOfInstant, Calendar
<1>2. q.group \in {"project", "status", "week", "month"}
  BY DEF Groupings
<1>3. \/ d <= e /\ Min(days) = d /\ Max(days) = e
      \/ e <= d /\ Min(days) = e /\ Max(days) = d
  <2> DEFINE least == Min(days)  most == Max(days)
  <2> HIDE DEF d, e
  <2>1. least \in days /\ \A x \in days : least <= x
    <3>1. \E x \in days : \A y \in days : x <= y
      BY <1>1
    <3> QED BY <3>1 DEF Min
  <2>2. most \in days /\ \A x \in days : most >= x
    <3>1. \E x \in days : \A y \in days : x >= y
      BY <1>1
    <3> QED BY <3>1 DEF Max
  <2>3. (least = d \/ least = e) /\ (most = d \/ most = e)
        /\ least <= d /\ least <= e /\ most >= d /\ most >= e
    BY <2>1, <2>2
  <2> HIDE DEF least, most
  <2>4. \/ d <= e /\ least = d /\ most = e
        \/ e <= d /\ least = e /\ most = d
    BY <1>1, <2>3
  <2> QED BY <2>4 DEF least, most
<1>4. CASE q.group = "project"
  BY <1>4 DEF GroupOf, Together
<1>5. CASE q.group = "status"
  BY <1>5 DEF GroupOf, Together
<1>6. CASE q.group = "week"
  <2>1. GroupOf(rows[i], q) = Monday(d) /\ GroupOf(rows[j], q) = Monday(e)
    BY <1>6 DEF GroupOf
  <2>2. Together(q, i, j) <=> \A x \in (Min(days) + 1)..Max(days) : (x + Weekday) % 7 # 0
    BY <1>6 DEF Together
  <2> HIDE DEF d, e
  <2>3. CASE d <= e /\ Min(days) = d /\ Max(days) = e
    BY <1>1, <2>1, <2>2, <2>3, Weeks
  <2>4. CASE e <= d /\ Min(days) = e /\ Max(days) = d
    BY <1>1, <2>1, <2>2, <2>4, Weeks
  <2> QED BY <1>3, <2>3, <2>4
<1>7. CASE q.group = "month"
  <2>1. GroupOf(rows[i], q) = MonthOf[d] /\ GroupOf(rows[j], q) = MonthOf[e]
    BY <1>7 DEF GroupOf
  <2>2. Together(q, i, j) <=> \A x \in Min(days)..Max(days) : MonthOf[x] = MonthOf[Min(days)]
    BY <1>7 DEF Together
  <2> HIDE DEF d, e
  <2>3. ASSUME NEW a \in Days, NEW b \in Days, a <= b
        PROVE  MonthOf[a] = MonthOf[b] <=> \A x \in a..b : MonthOf[x] = MonthOf[a]
    <3>1. MonthOf \in [Days -> Nat] /\ \A y \in Days : \A x \in 0..y : MonthOf[x] <= MonthOf[y]
      BY QueryAssumption DEF QueryAssumption
    <3>2. \A x \in a..b : x \in Days /\ a \in 0..x /\ x \in 0..b
      BY <2>3, Calendar
    <3>3. \A x \in a..b : MonthOf[a] <= MonthOf[x] /\ MonthOf[x] <= MonthOf[b]
                          /\ MonthOf[x] \in Nat
      BY <3>1, <3>2
    <3>4. a \in a..b /\ b \in a..b
      BY <2>3, Calendar
    <3> QED BY <3>3, <3>4
  <2>4. CASE d <= e /\ Min(days) = d /\ Max(days) = e
    BY <1>1, <2>1, <2>2, <2>3, <2>4
  <2>5. CASE e <= d /\ Min(days) = e /\ Max(days) = d
    BY <1>1, <2>1, <2>2, <2>3, <2>5
  <2> QED BY <1>3, <2>4, <2>5
<1> QED BY <1>2, <1>4, <1>5, <1>6, <1>7

\* Counting tasks that were read as they are is counting the tasks.
LEMMA CountsAsRead ==
  ASSUME NEW S, NEW held, held = [i \in S |-> rows[i]], NEW T \in SUBSET S
  PROVE  StatusCounts(held) = Counts(S) /\ StatusCounts(Restrict(held, T)) = Counts(T)
<1>1. \A s : {i \in DOMAIN held : held[i].status = s} = {i \in S : rows[i].status = s}
  OBVIOUS
<1>2. \A s : {i \in DOMAIN Restrict(held, T) : Restrict(held, T)[i].status = s}
               = {i \in T : rows[i].status = s}
  BY DEF Restrict
<1>3. StatusCounts(held) = Counts(S)
  BY <1>1 DEF StatusCounts, Counts
<1>4. StatusCounts(Restrict(held, T)) = Counts(T)
  BY <1>2 DEF StatusCounts, Counts
<1> QED BY <1>3, <1>4

\* The groups of some tasks.
Gathered(q, S) == {{j \in S : Together(q, i, j)} : i \in S}

\* Each group once, with its counts, and by the name of its project.
GroupsAgree(q, S, shown, groups) ==
  /\ Cardinality(shown) = Cardinality(groups)
  /\ {g.counts : g \in shown} = {Counts(ids) : ids \in groups}
  /\ q.group = "project" =>
       \A g \in shown : g.counts = Counts({i \in S : rows[i].project = g.key})

\* Each group of tasks that belong together is shown once, with its counts, and a
\* group of a project by the name the project was listed with.
LEMMA GroupsShown ==
  ASSUME rows \in Tables, NEW q, q.axis \in Axes, q.group \in Groupings \ {"none"},
         NEW S, S \subseteq Ids(rows), IsFiniteSet(S), \A i \in S : rows[i][q.axis] # None,
         NEW held, held = [i \in S |-> rows[i]], NEW shown, shown = GroupsOf(held, q),
         NEW groups, groups = Gathered(q, S),
         Filed(rows, listed)
  PROVE  GroupsAgree(q, S, shown, groups)
<1> DEFINE KeyOf(i) == GroupOf(rows[i], q)
           keys == {KeyOf(i) : i \in S}
           Class(k) == {j \in S : KeyOf(j) = k}
           name(k) == IF q.group = "project" /\ k \notin listed THEN None ELSE k
           entry(k) == [of |-> k, key |-> name(k), counts |-> Counts(Class(k))]
           read(k) == StatusCounts(Restrict(held, {i \in DOMAIN held : GroupOf(held[i], q) = k}))
<1>1. \A k \in keys : read(k) = Counts(Class(k))
  <2> SUFFICES ASSUME NEW k \in keys PROVE read(k) = Counts(Class(k))
    OBVIOUS
  <2> DEFINE part == {i \in DOMAIN held : GroupOf(held[i], q) = k}
             class == Class(k)
  <2>1. part = class /\ class \in SUBSET S
    OBVIOUS
  <2> HIDE DEF part, class
  <2>2. StatusCounts(Restrict(held, class)) = Counts(class)
    BY <2>1, CountsAsRead
  <2> QED BY <2>1, <2>2 DEF part, class
<1>2. shown = {entry(k) : k \in keys}
  <2>1. keys = {GroupOf(held[i], q) : i \in DOMAIN held}
    OBVIOUS
  <2>2. shown = {[of |-> k, key |-> name(k), counts |-> read(k)] : k \in keys}
    BY <2>1 DEF GroupsOf
  <2> HIDE DEF keys, Class, read, name
  <2> QED BY <1>1, <2>2
<1>3. \A i \in S : {j \in S : Together(q, i, j)} = Class(KeyOf(i))
  BY SameGroup
<1>4. groups = {Class(k) : k \in keys}
  <2> HIDE DEF Class
  <2> QED BY <1>3 DEF Gathered
<1>5. \A k \in keys : Class(k) # {}
  OBVIOUS
<1>6. \A k, l \in keys : Class(k) = Class(l) => k = l
  OBVIOUS
<1>7. IsFiniteSet(keys)
  <2> DEFINE f == [i \in S |-> KeyOf(i)]
  <2>1. f \in Surjection(S, keys)
    BY DEF Surjection
  <2> QED BY <2>1, FS_Surjection
<1>8. \A k \in keys :
        entry(k).of = k /\ entry(k).key = name(k) /\ entry(k).counts = Counts(Class(k))
  OBVIOUS
<1> HIDE DEF keys, Class, entry
<1>9. Cardinality(shown) = Cardinality(keys)
  <2> DEFINE f == [k \in keys |-> entry(k)]
  <2>1. f \in [keys -> shown] /\ \A k, l \in keys : f[k] = f[l] => k = l
    BY <1>2, <1>8
  <2>2. \A g \in shown : \E k \in keys : f[k] = g
    BY <1>2
  <2> HIDE DEF f
  <2>3. f \in Bijection(keys, shown)
    BY <2>1, <2>2 DEF Bijection, Injection, Surjection, IsInjective
  <2> QED BY <2>3, <1>7, FS_Bijection DEF ExistsBijection
<1>10. Cardinality(groups) = Cardinality(keys)
  <2> DEFINE f == [k \in keys |-> Class(k)]
  <2>1. f \in [keys -> groups] /\ \A k, l \in keys : f[k] = f[l] => k = l
    BY <1>4, <1>6
  <2>2. \A g \in groups : \E k \in keys : f[k] = g
    BY <1>4
  <2> HIDE DEF f
  <2>3. f \in Bijection(keys, groups)
    BY <2>1, <2>2 DEF Bijection, Injection, Surjection, IsInjective
  <2> QED BY <2>3, <1>7, FS_Bijection DEF ExistsBijection
<1>11. {g.counts : g \in shown} = {Counts(ids) : ids \in groups}
  <2> DEFINE count(k) == Counts(Class(k))
  <2>1. {g.counts : g \in shown} = {count(k) : k \in keys}
    BY <1>2, <1>8
  <2>2. {Counts(ids) : ids \in groups} = {count(k) : k \in keys}
    BY <1>4
  <2> HIDE DEF count
  <2> QED BY <2>1, <2>2
<1>12. ASSUME q.group = "project", NEW g \in shown
       PROVE  g.counts = Counts({i \in S : rows[i].project = g.key})
  <2>1. PICK k \in keys : g = entry(k)
    BY <1>2
  <2>2. PICK i \in S : k = rows[i].project
    BY <1>12 DEF keys, GroupOf
  <2>3. k \in listed \cup {None}
    BY <2>2 DEF Filed
  <2>4. g.key = k /\ g.counts = Counts(Class(k))
    BY <1>8, <2>1, <2>3
  <2>5. Class(k) = {j \in S : rows[j].project = k}
    BY <1>12 DEF Class, GroupOf
  <2> QED BY <2>4, <2>5
<1> QED BY <1>9, <1>10, <1>11, <1>12 DEF GroupsAgree

\* A task that can have a due date and has none misses it whatever the filters leave
\* of the statuses.
LEMMA MissingDueDates ==
  ASSUME Fitted, asked.axis = "due", NEW p \in Projects \cup {None}, NEW table \in Tables
  PROVE  Undated(table, Window(p))
           = {i \in Ids(table) \ OnAxis(table, asked) : Fits(table[i], asked, p)}
<1>1. asked.tool = "query" /\ Askable(asked)
  BY DEF Fitted, OfQuery
<1> DEFINE w == Window(p)
           c == [w EXCEPT !.statuses = IF @ = {} THEN HeldBy(w.axis) ELSE @]
<1>2. w.axis = "due" /\ w.project = p /\ w.statuses = Narrowing(asked)
      /\ c.project = p /\ c.statuses = IF w.statuses = {} THEN Statuses ELSE w.statuses
  BY <1>1 DEF Window, Criteria, HeldBy
<1> HIDE DEF w
<1>3. \A i \in Ids(table) : Passes(table[i], c) <=> Fits(table[i], asked, p)
  <2> SUFFICES ASSUME NEW i \in Ids(table)
               PROVE  Passes(table[i], c) <=> Fits(table[i], asked, p)
    OBVIOUS
  <2>1. table[i].status \in Statuses
    BY RowsOf
  <2>2. Narrowing(asked) = {} \/ table[i].status \in Narrowing(asked)
          <=> asked.statuses = {} \/ table[i].status \in asked.statuses
    BY <1>1, <2>1, NarrowingFits DEF HeldBy
  <2>3. c.statuses = {} \/ table[i].status \in c.statuses
          <=> Narrowing(asked) = {} \/ table[i].status \in Narrowing(asked)
    BY <1>2, <2>1
  <2> HIDE DEF c
  <2> QED BY <1>2, <2>2, <2>3 DEF Passes, Fits
<1>4. \A i : i \in Ids(table) \ OnAxis(table, asked) <=> i \in Ids(table) /\ table[i][w.axis] = None
  BY <1>2 DEF OnAxis
<1>5. Undated(table, w) = {i \in Ids(table) : table[i][w.axis] = None /\ Passes(table[i], c)}
  BY DEF Undated
<1> HIDE DEF c
<1> QED BY <1>3, <1>4, <1>5 DEF w

\* What is shown of the tasks wanted: the earliest of them up to the cap, or their
\* counts by status and each group once.
LEMMA ShownExactly ==
  ASSUME rows \in Tables, asked \in Question, NEW wanted, wanted \subseteq Ids(rows),
         \A i \in wanted : rows[i][asked.axis] # None, Filed(rows, listed),
         NEW show, show = [i \in IF asked.view = "list"
                                 THEN FirstOf(rows, asked.axis, wanted, ListCap)
                                 ELSE wanted |-> rows[i]],
         NEW n, n = Cardinality(wanted),
         NEW shown, shown = IF asked.view = "list"
                            THEN [tasks |-> DOMAIN show, truncated |-> n > Cardinality(DOMAIN show)]
                            ELSE [counts |-> StatusCounts(show), groups |-> GroupsOf(show, asked)]
  PROVE  ShownIsExact(asked, wanted, shown)
<1>1. asked.axis \in Axes /\ asked.view \in {"list", "summary"} /\ asked.group \in Groupings
  BY DEF Question
<1>2. CASE asked.view = "list"
  <2> DEFINE part == FirstOf(rows, asked.axis, wanted, ListCap)
             axis == asked.axis
  <2>1. ListCap \in Nat \ {0}
    BY QueryAssumption DEF QueryAssumption
  <2>2. shown.tasks = part /\ shown.truncated = (n > Cardinality(part))
    BY <1>2
  <2>3. axis \in Axes /\ part = FirstOf(rows, axis, wanted, ListCap)
        /\ \A i \in wanted : rows[i][axis] # None
    BY <1>1
  <2> HIDE DEF part, axis
  <2>4. /\ part \subseteq wanted
        /\ Cardinality(wanted) > Cardinality(part) <=> part # wanted
        /\ part # wanted => Cardinality(part) = ListCap
        /\ \A i \in part, j \in wanted \ part : rows[i][axis] <= rows[j][axis]
    BY <2>1, <2>3, FirstShown
  <2>5. \A i \in part, j \in wanted \ part : rows[i][asked.axis] <= rows[j][asked.axis]
    BY <2>4 DEF axis
  <2> QED BY <1>2, <2>2, <2>4, <2>5 DEF ShownIsExact
<1>3. CASE asked.view # "list"
  <2>1. show = [i \in wanted |-> rows[i]]
        /\ shown.counts = StatusCounts(show) /\ shown.groups = GroupsOf(show, asked)
    BY <1>3
  <2>2. shown.counts = Counts(wanted)
    BY <2>1, CountsAsRead
  <2> DEFINE groups == {{j \in wanted : Together(asked, i, j)} : i \in wanted}
             told == shown.groups
  <2>3. IsFiniteSet(wanted)
    BY IdsFinite DEF Ids
  <2>4. asked.group # "none" => GroupsAgree(asked, wanted, told, groups)
    <3> SUFFICES ASSUME asked.group # "none" PROVE GroupsAgree(asked, wanted, told, groups)
      OBVIOUS
    <3>1. told = GroupsOf(show, asked) /\ groups = Gathered(asked, wanted)
      BY <2>1 DEF Gathered
    <3> HIDE DEF told, groups
    <3>2. asked.group \in Groupings \ {"none"}
      BY <1>1
    <3> QED BY <1>1, <2>1, <2>3, <3>1, <3>2, GroupsShown
  <2> QED BY <1>3, <2>2, <2>4 DEF ShownIsExact, GroupsAgree
<1> QED BY <1>2, <1>3

\* Every outcome of a question answered while nothing is written says what is so of
\* the owner's tasks, read by local days: each of the four ways to find nothing has its
\* own cause and its own counts, and an answer with tasks has exactly those wanted.
THEOREM AnswersExact == Spec => []AnswerIsExact
<1>1. ASSUME QueryInv
      PROVE  AnswerIsExact
  <2> SUFFICES ASSUME Answered("query"), Quiet
               PROVE  AnswerIsExact
    BY DEF AnswerIsExact
  <2>1. ToldOfQuery /\ TypeOK /\ Begun /\ answer.status # "error"
    BY <1>1 DEF Answered, QueryInv, Progress
  <2>2. seen = {Now} /\ Now.tasks = rows /\ Now.projects = made /\ rows \in Tables
    BY <2>1, OnlyNow DEF TypeOK, Tables
  <2>3. ASSUME Fitted
        PROVE  /\ asked.tool = "query" /\ asked \in Question /\ Askable(asked)
               /\ coverage \in Coverage /\ coverage = CoverageOf(rows, asked.axis)
               /\ listed = made
               /\ InPeriod(rows, Closed(asked)) = InPeriod(rows, asked)
               /\ \A p : Wanted(rows, Closed(asked), p) = Wanted(rows, asked, p)
    <3>1. /\ asked.tool = "query" /\ Askable(asked) /\ coverage \in Coverage
          /\ coverage = CoverageOf(rows, asked.axis) /\ listed = made
      BY <2>2, <2>3 DEF Fitted, OfQuery, Listed
    <3>2. asked \in Question
      BY <3>1 DEF Askable, PageRequest
    <3> QED BY <2>2, <3>1, <3>2, ClosedIsSame
  <2>4. CASE answer.status = "no_data"
    <3>1. Ids(rows) = {}
      BY <2>1, <2>2, <2>4 DEF ToldOfQuery
    <3> QED BY <2>4, <3>1 DEF AnswerIsExact
  <2>5. CASE answer.status = "coverage_gap"
    <3>1. OfQuery /\ Ids(rows) # {} /\ Gap(asked, CoverageOf(rows, asked.axis))
      BY <2>1, <2>2, <2>5 DEF ToldOfQuery, SomeTasks
    <3>2. OutsideCoverage(rows, asked)
      BY <2>2, <3>1, GapIsOutside DEF OfQuery
    <3> QED BY <2>5, <3>1, <3>2 DEF AnswerIsExact
  <2>6. CASE answer.status = "no_records"
    <3>1. /\ Aimed /\ Hits(rows, criteria) = {} /\ ~Narrows(criteria)
          /\ answer.unwindowed = Cardinality(Hits(rows, WithoutWindow(criteria)))
      BY <2>1, <2>2, <2>6 DEF ToldOfQuery, NoHits
    <3>2. Fitted /\ Hits(rows, criteria) = InPeriod(rows, Closed(asked)) /\ criteria \in Criterion
      BY <2>2, <3>1, NoRecordsMeans DEF Aimed
    <3>3. PICK p \in Projects \cup {None} : Meant(asked) = {p} /\ criteria = Window(p)
      BY <3>1 DEF Aimed
    <3>4. p = None /\ criteria.statuses = {} /\ criteria.axis = asked.axis
      BY <3>1, <3>3 DEF Window, Criteria, Narrows
    <3>5. asked.reference = None
      <4>1. p \in listed \cup {None} /\ (asked.reference # None => p \in listed)
        BY <3>3 DEF Meant, Resolved
      <4>2. listed \subseteq Projects
        BY <2>1 DEF TypeOK
      <4> QED BY <3>4, <4>1, <4>2, NoneMissing
    <3>6. Hits(rows, WithoutWindow(criteria)) = OnAxis(rows, asked)
      <4>1. /\ WithoutWindow(criteria).start = None /\ WithoutWindow(criteria).end = None
            /\ WithoutWindow(criteria).project = None /\ WithoutWindow(criteria).statuses = {}
            /\ WithoutWindow(criteria).axis = asked.axis
        BY <3>2, <3>3, <3>4 DEF WithoutWindow, Window, Criteria
      <4> QED BY <4>1 DEF Hits, Passes, OnAxis
    <3>7. InPeriod(rows, asked) = {}
      BY <2>3, <3>1, <3>2
    <3> QED BY <2>6, <3>1, <3>5, <3>6, <3>7 DEF AnswerIsExact
  <2>7. CASE answer.status = "empty_filter"
    <3> DEFINE present == Hits(rows, WithoutFilters(criteria))
    <3>1. /\ Filtered /\ answer.unfiltered = Cardinality(present)
          /\ answer.statuses = {rows[i].status : i \in present}
      BY <2>1, <2>2, <2>7 DEF ToldOfQuery
    <3>2. Fitted /\ \E p \in Projects \cup {None} : criteria = Window(p)
      BY <3>1 DEF Filtered, Aimed
    <3>3. present = InPeriod(rows, asked)
      BY <2>2, <2>3, <3>2, SearchIs
    <3>4. ASSUME NEW p \in Meant(asked)
          PROVE  Wanted(rows, asked, p) = {}
      <4>1. Aimed /\ Hits(rows, criteria) = {}
        BY <2>2, <3>1, <3>4 DEF Filtered, NoHits
      <4>2. p \in Projects \cup {None} /\ criteria = Window(p)
        BY <4>1, <3>4 DEF Aimed
      <4> QED BY <2>2, <2>3, <3>2, <4>1, <4>2, SearchIs
    <3> HIDE DEF present
    <3> QED BY <2>7, <3>1, <3>3, <3>4 DEF AnswerIsExact
  <2>8. CASE answer.status = "ambiguous_source"
    <3>1. Cardinality(Meant(asked)) > 1
      BY <2>1, <2>8 DEF ToldOfQuery
    <3> QED BY <2>8, <3>1 DEF AnswerIsExact
  <2>9. CASE answer.status = "filter_error"
    <3>1. Inverted(asked) \/ Contradicts(asked)
      BY <2>1, <2>9 DEF ToldOfQuery
    <3> QED BY <2>9, <3>1 DEF AnswerIsExact
  <2>10. CASE answer.status = "ok"
    <3>1. /\ Aimed /\ Counted /\ total > 0 /\ Read /\ answer.total = total
          /\ answer.shown = IF asked.view = "list"
                            THEN [tasks |-> DOMAIN found,
                                  truncated |-> total > Cardinality(DOMAIN found)]
                            ELSE [counts |-> StatusCounts(found),
                                  groups |-> GroupsOf(found, asked)]
          /\ answer.undated = Cardinality(Undated(rows, criteria))
      BY <2>1, <2>2, <2>10 DEF ToldOfQuery
    <3>2. PICK p \in Projects \cup {None} : Meant(asked) = {p} /\ criteria = Window(p)
      BY <3>1 DEF Aimed
    <3>3. Fitted /\ criteria.axis = asked.axis
      BY <3>1, <3>2 DEF Aimed, Window, Criteria
    <3> DEFINE wanted == Wanted(rows, asked, p)
               undated == {i \in Ids(rows) \ OnAxis(rows, asked) : Fits(rows[i], asked, p)}
    <3>4. Hits(rows, criteria) = wanted
      BY <2>2, <2>3, <3>2, <3>3, SearchIs
    <3>5. wanted \subseteq Ids(rows) /\ \A i \in wanted : rows[i][asked.axis] # None
      BY DEF Wanted, InPeriod, OnAxis
    <3>6. total = Cardinality(wanted) /\ wanted # {}
      <4>1. total = Cardinality(wanted)
        BY <2>2, <3>1, <3>4 DEF Counted
      <4> HIDE DEF wanted
      <4> QED BY <3>1, <4>1, FS_EmptySet
    <3>7. found = [i \in IF asked.view = "list" THEN FirstOf(rows, asked.axis, wanted, ListCap)
                         ELSE wanted |-> rows[i]]
      BY <2>2, <3>1, <3>3, <3>4 DEF Read, Shows
    <3>8. Filed(rows, listed)
      BY <2>1, <2>3, <3>3 DEF TypeOK
    <3>9. ShownIsExact(asked, wanted, answer.shown)
      <4> HIDE DEF wanted
      <4> QED BY <2>2, <2>3, <3>1, <3>3, <3>5, <3>6, <3>7, <3>8, ShownExactly
    <3>10. asked.axis = "due" => answer.undated = Cardinality(undated)
      BY <2>2, <3>1, <3>2, <3>3, MissingDueDates
    <3> HIDE DEF wanted, undated
    <3>11. /\ Meant(asked) = {p} /\ wanted # {}
           /\ answer.total = Cardinality(wanted)
           /\ ShownIsExact(asked, wanted, answer.shown)
           /\ asked.axis = "due" => answer.undated = Cardinality(undated)
      BY <3>1, <3>2, <3>6, <3>9, <3>10
    <3> QED BY <2>10, <3>2, <3>11 DEF AnswerIsExact, wanted, undated
  <2> QED BY <2>1, <2>4, <2>5, <2>6, <2>7, <2>8, <2>9, <2>10 DEF ToldOfQuery
<1> QED BY <1>1, Invariance, PTL

-----------------------------------------------------------------------------
(* What the projects hold.                                                 *)

LEMMA NoneIn == TasksIn({}) = 0
<1> DEFINE Sums(f) == f = [s \in SUBSET {} |-> IF s = {} THEN 0
                             ELSE LET a == CHOOSE x \in s : TRUE IN a.count + f[s \ {a}]]
           total0 == [s \in SUBSET {} |-> 0]
<1>1. Sums(total0)
  OBVIOUS
<1>2. \A f : Sums(f) => f[{}] = 0
  OBVIOUS
<1>3. Sums(CHOOSE f : Sums(f))
  BY <1>1
<1>4. TasksIn({}) = (CHOOSE f : Sums(f))[{}]
  BY DEF TasksIn, MapThenSumSet, MapThenFoldSet
<1> HIDE DEF Sums
<1> QED BY <1>2, <1>3, <1>4

LEMMA TheOneIn ==
  ASSUME NEW row, row.count \in Int
  PROVE  TasksIn({row}) = row.count
<1> DEFINE Sums(f) == f = [s \in SUBSET {row} |-> IF s = {} THEN 0
                             ELSE LET a == CHOOSE x \in s : TRUE IN a.count + f[s \ {a}]]
           sums == [s \in SUBSET {row} |-> IF s = {} THEN 0 ELSE row.count]
<1>1. Sums(sums)
  OBVIOUS
<1>2. \A f : Sums(f) => f[{row}] = row.count
  OBVIOUS
<1>3. Sums(CHOOSE f : Sums(f))
  BY <1>1
<1>4. TasksIn({row}) = (CHOOSE f : Sums(f))[{row}]
  BY DEF TasksIn, MapThenSumSet, MapThenFoldSet
<1> HIDE DEF Sums
<1> QED BY <1>2, <1>3, <1>4

\* The first and the last of some instants.
LEMMA Ends ==
  ASSUME NEW S \in SUBSET Instants, S # {}
  PROVE  /\ Min(S) \in S /\ \A x \in S : Min(S) <= x
         /\ Max(S) \in S /\ \A x \in S : x <= Max(S)
<1>1. Instants \subseteq 0..DayStart[LastDay + 1] /\ DayStart[LastDay + 1] \in Nat
  BY Calendar DEF Instants
<1>2. \E x \in S : \A y \in S : x <= y
  BY <1>1, SmallestExists
<1>3. \E x \in S : \A y \in S : y <= x
  BY <1>1, LargestExists
<1>4. \E x \in S : \A y \in S : x >= y
  BY <1>1, <1>3
<1> QED BY <1>1, <1>2, <1>4 DEF Min, Max

\* A later instant is not in an earlier day.
LEMMA DaysFollow ==
  ASSUME NEW i \in Instants, NEW j \in Instants, i <= j
  PROVE  DayOf(i) <= DayOf(j)
<1>1. /\ DayOf(i) \in Days /\ DayStart[DayOf(i)] <= i
      /\ DayStart[DayOf(i)] \in Nat /\ i \in Int /\ j \in Int
  BY DayOfInstant, Calendar DEF Instants
<1>2. DayStart[DayOf(i)] <= j
  BY <1>1
<1> QED BY <1>1, <1>2, DayCompares

\* The tasks of a project, or the unfiled ones, and those of them with a status.
Under(table, p) == {i \in Ids(table) : table[i].project = p}
UnderAs(table, p, s) == {i \in Under(table, p) : table[i].status = s}

\* The row of the activity for a project and a status.
RowFor(table, p, s) ==
  [project |-> p, status |-> s, count |-> Cardinality(UnderAs(table, p, s)),
   first |-> Min({table[i].created : i \in UnderAs(table, p, s)}),
   last |-> Max({table[i].updated : i \in UnderAs(table, p, s)})]

LEMMA ActivityIs ==
  ASSUME NEW table \in Tables
  PROVE  Activity(table) = {RowFor(table, table[i].project, table[i].status) : i \in Ids(table)}
<1> DEFINE pairs == {<<table[i].project, table[i].status>> : i \in Ids(table)}
<1>1. \A k : {i \in Ids(table) : table[i].project = k[1] /\ table[i].status = k[2]}
               = UnderAs(table, k[1], k[2])
  BY DEF UnderAs, Under
<1>2. Activity(table) = {RowFor(table, k[1], k[2]) : k \in pairs}
  BY <1>1 DEF Activity, RowFor
<1> DEFINE row(i) == RowFor(table, table[i].project, table[i].status)
<1>3. \A i \in Ids(table) : \E k \in pairs : RowFor(table, k[1], k[2]) = row(i)
  <2> SUFFICES ASSUME NEW i \in Ids(table)
               PROVE  \E k \in pairs : RowFor(table, k[1], k[2]) = row(i)
    OBVIOUS
  <2> DEFINE k == <<table[i].project, table[i].status>>
  <2>1. k \in pairs /\ k[1] = table[i].project /\ k[2] = table[i].status
    OBVIOUS
  <2> HIDE DEF k, pairs
  <2> QED BY <2>1
<1>4. \A k \in pairs : \E i \in Ids(table) : k = <<table[i].project, table[i].status>>
  OBVIOUS
<1>5. \A k \in pairs : \E i \in Ids(table) : RowFor(table, k[1], k[2]) = row(i)
  BY <1>4
<1> HIDE DEF row, pairs
<1>6. {RowFor(table, k[1], k[2]) : k \in pairs} = {row(i) : i \in Ids(table)}
  BY <1>3, <1>5
<1> QED BY <1>2, <1>6 DEF row

\* The totals of a project tell what is in it: its open and its done tasks, and the
\* days its tasks were first created and last touched.
TotalsAgree(table, told, p) ==
  LET held == {i \in Ids(table) : table[i].project = p}
  IN  /\ told.open = Cardinality({i \in held : table[i].status = "open"})
      /\ told.done = Cardinality({i \in held : table[i].status = "done"})
      /\ IF held = {} THEN told.first = None /\ told.last = None
         ELSE /\ \E i \in held : told.first = DayOf(table[i].created)
              /\ \E i \in held : told.last = DayOf(table[i].updated)
              /\ \A i \in held : /\ told.first <= DayOf(table[i].created)
                                 /\ DayOf(table[i].updated) <= told.last

LEMMA TotalsTell ==
  ASSUME NEW table \in Tables, NEW p
  PROVE  TotalsAgree(table, Totals(Activity(table), p), p)
<1> DEFINE held == Under(table, p)
           told == Totals(Activity(table), p)
           mine == {a \in Activity(table) : a.project = p}
           row(i) == RowFor(table, p, table[i].status)
           firsts == {a.first : a \in mine}
           lasts == {a.last : a \in mine}
<1>1. mine = {row(i) : i \in held}
  <2> DEFINE entry(i) == RowFor(table, table[i].project, table[i].status)
  <2>1. \A i \in Ids(table) : entry(i).project = table[i].project
    BY DEF RowFor
  <2>2. \A i \in held : i \in Ids(table) /\ table[i].project = p /\ entry(i) = row(i)
    BY DEF Under
  <2>3. \A i \in Ids(table) : table[i].project = p => i \in held
    BY DEF Under
  <2>4. Activity(table) = {entry(i) : i \in Ids(table)}
    BY ActivityIs
  <2> HIDE DEF entry, row, held
  <2> QED BY <2>1, <2>2, <2>3, <2>4
<1>2. \A i \in Ids(table) : /\ table[i].created \in Instants /\ table[i].updated \in Instants
  BY RowsOf
<1>3. \A s : UnderAs(table, p, s) \in SUBSET held
  BY DEF UnderAs
<1>4. \A s : Cardinality(UnderAs(table, p, s)) \in Nat
             /\ (UnderAs(table, p, s) = {} => Cardinality(UnderAs(table, p, s)) = 0)
  <2> SUFFICES ASSUME NEW s
               PROVE  Cardinality(UnderAs(table, p, s)) \in Nat
                      /\ (UnderAs(table, p, s) = {} => Cardinality(UnderAs(table, p, s)) = 0)
    OBVIOUS
  <2>1. UnderAs(table, p, s) \in SUBSET Tasks
    BY DEF UnderAs, Under, Ids
  <2> QED BY <2>1, IdsFinite, FS_EmptySet, FS_CardinalityType
<1>5. \A s : TasksIn({a \in mine : a.status = s}) = Cardinality(UnderAs(table, p, s))
  <2> SUFFICES ASSUME NEW s
               PROVE  TasksIn({a \in mine : a.status = s}) = Cardinality(UnderAs(table, p, s))
    OBVIOUS
  <2>1. \A i \in held : row(i).status = table[i].status
    BY DEF RowFor
  <2>2. CASE UnderAs(table, p, s) = {}
    <3>1. {a \in mine : a.status = s} = {}
      BY <1>1, <2>1, <2>2 DEF UnderAs
    <3> QED BY <1>4, <2>2, <3>1, NoneIn
  <2>3. CASE UnderAs(table, p, s) # {}
    <3> DEFINE r == RowFor(table, p, s)
    <3>1. {a \in mine : a.status = s} = {r}
      BY <1>1, <2>1, <2>3 DEF UnderAs
    <3>2. r.count = Cardinality(UnderAs(table, p, s))
      BY DEF RowFor
    <3> HIDE DEF r
    <3>3. TasksIn({r}) = r.count
      BY <1>4, <3>2, TheOneIn
    <3> QED BY <3>1, <3>2, <3>3
  <2> QED BY <2>2, <2>3
<1>6. told.open = Cardinality(UnderAs(table, p, "open"))
      /\ told.done = Cardinality(UnderAs(table, p, "done"))
  <2>1. told.open = TasksIn({a \in mine : a.status = "open"})
        /\ told.done = TasksIn({a \in mine : a.status = "done"})
    BY DEF Totals
  <2> QED BY <1>5, <2>1
<1>7. ASSUME held = {}
      PROVE  told.first = None /\ told.last = None
  <2>1. mine = {}
    BY <1>1, <1>7
  <2> QED BY <2>1 DEF Totals
<1>8. ASSUME held # {}
      PROVE  /\ \E i \in held : told.first = DayOf(table[i].created)
             /\ \E i \in held : told.last = DayOf(table[i].updated)
             /\ \A i \in held : /\ told.first <= DayOf(table[i].created)
                                /\ DayOf(table[i].updated) <= told.last
  <2>1. mine # {} /\ firsts # {} /\ lasts # {}
    BY <1>1, <1>8
  <2>2. told.first = DayOf(Min(firsts)) /\ told.last = DayOf(Max(lasts))
    BY <2>1 DEF Totals
  <2>3. ASSUME NEW i \in held
        PROVE  /\ \E j \in held : row(i).first = table[j].created
               /\ row(i).first <= table[i].created /\ row(i).first \in Instants
               /\ \E j \in held : row(i).last = table[j].updated
               /\ table[i].updated <= row(i).last /\ row(i).last \in Instants
    <3> DEFINE with == UnderAs(table, p, table[i].status)
               created == {table[j].created : j \in with}
               updated == {table[j].updated : j \in with}
    <3>1. i \in with /\ with \in SUBSET held /\ held \in SUBSET Ids(table)
      BY DEF UnderAs, Under
    <3> HIDE DEF held
    <3>2. row(i).first = Min(created) /\ row(i).last = Max(updated)
      BY DEF RowFor
    <3> HIDE DEF with
    <3>3. created \in SUBSET Instants /\ table[i].created \in created
          /\ updated \in SUBSET Instants /\ table[i].updated \in updated
      BY <1>2, <3>1
    <3>4. \A x \in created : \E j \in held : x = table[j].created
      BY <3>1
    <3>5. \A x \in updated : \E j \in held : x = table[j].updated
      BY <3>1
    <3> HIDE DEF created, updated, row
    <3>6. /\ Min(created) \in created /\ Min(created) <= table[i].created
          /\ Max(updated) \in updated /\ table[i].updated <= Max(updated)
      BY <3>3, Ends
    <3> QED BY <3>2, <3>3, <3>4, <3>5, <3>6
  <2>4. firsts = {row(i).first : i \in held} /\ lasts = {row(i).last : i \in held}
    <3> HIDE DEF mine, row, held
    <3> QED BY <1>1
  <2> HIDE DEF row, mine, held
  <2>5. firsts \in SUBSET Instants /\ lasts \in SUBSET Instants
    BY <2>3, <2>4
  <2> HIDE DEF firsts, lasts, told
  <2>6. /\ Min(firsts) \in firsts /\ \A x \in firsts : Min(firsts) <= x
        /\ Max(lasts) \in lasts /\ \A x \in lasts : x <= Max(lasts)
    BY <2>1, <2>5, Ends
  <2>7. \E i \in held : told.first = DayOf(table[i].created)
    <3>1. PICK i \in held : Min(firsts) = row(i).first
      BY <2>4, <2>6
    <3>2. PICK j \in held : row(i).first = table[j].created
      BY <2>3
    <3> QED BY <2>2, <3>1, <3>2
  <2>8. \E i \in held : told.last = DayOf(table[i].updated)
    <3>1. PICK i \in held : Max(lasts) = row(i).last
      BY <2>4, <2>6
    <3>2. PICK j \in held : row(i).last = table[j].updated
      BY <2>3
    <3> QED BY <2>2, <3>1, <3>2
  <2>9. ASSUME NEW i \in held
        PROVE  told.first <= DayOf(table[i].created) /\ DayOf(table[i].updated) <= told.last
    <3>1. i \in Ids(table)
      BY DEF held, Under
    <3>2. /\ Min(firsts) <= row(i).first /\ row(i).first <= table[i].created
          /\ row(i).last <= Max(lasts) /\ table[i].updated <= row(i).last
          /\ row(i).first \in Instants /\ row(i).last \in Instants
      BY <2>3, <2>4, <2>6
    <3>3. \A x \in Instants : x \in Int
      BY Calendar DEF Instants
    <3>4. Min(firsts) <= table[i].created /\ table[i].updated <= Max(lasts)
          /\ Min(firsts) \in Instants /\ Max(lasts) \in Instants
      BY <1>2, <2>5, <2>6, <3>1, <3>2, <3>3
    <3> QED BY <1>2, <2>2, <3>1, <3>4, DaysFollow
  <2> QED BY <2>7, <2>8, <2>9
<1>9. /\ {i \in Ids(table) : table[i].project = p} = held
      /\ UnderAs(table, p, "open") = {i \in held : table[i].status = "open"}
      /\ UnderAs(table, p, "done") = {i \in held : table[i].status = "done"}
  BY DEF Under, UnderAs
<1> HIDE DEF told, held
<1> QED BY <1>6, <1>7, <1>8, <1>9 DEF TotalsAgree, told

\* The owner's projects are told as they were at one moment since they were asked for:
\* only a task of a project created since they were listed goes uncounted.
THEOREM InventoryTold == Spec => []InventoryAgrees
<1>1. ASSUME QueryInv
      PROVE  InventoryAgrees
  <2> SUFFICES ASSUME Answered("projects")
               PROVE  InventoryAgrees
    BY DEF InventoryAgrees
  <2>1. ToldOfProjects /\ TypeOK /\ Begun /\ answer.status # "error"
    BY <1>1 DEF Answered, QueryInv, Progress
  <2>2. CASE answer.status = "no_data"
    <3>1. PICK t \in seen : Activity(t.tasks) = {} /\ listed = {}
      BY <2>1, <2>2 DEF ToldOfProjects
    <3>2. t.tasks \in Tables
      BY <2>1, SeenTables
    <3>3. Ids(t.tasks) = {}
      BY <3>1, <3>2, ActivityIs
    <3> QED BY <2>2, <3>1, <3>3 DEF InventoryAgrees
  <2>3. CASE answer.status = "ok"
    <3>1. PICK t \in seen : /\ answer.projects = [p \in listed |-> Totals(Activity(t.tasks), p)]
                            /\ answer.unfiled = Totals(Activity(t.tasks), None)
      BY <2>1, <2>3 DEF ToldOfProjects
    <3>2. PICK u \in seen : listed = u.projects
      BY <2>1, <2>3 DEF ToldOfProjects, Listed
    <3>3. t.tasks \in Tables
      BY <2>1, SeenTables
    <3>4. DOMAIN answer.projects = listed
      BY <3>1
    <3>5. \A p \in listed : TotalsAgree(t.tasks, answer.projects[p], p)
      BY <3>1, <3>3, TotalsTell
    <3>6. TotalsAgree(t.tasks, answer.unfiled, None)
      BY <3>1, <3>3, TotalsTell
    <3>7. \A p \in t.projects \ listed : \E v \in seen : p \notin v.projects
      BY <3>2
    <3> QED BY <2>3, <3>4, <3>5, <3>6, <3>7 DEF InventoryAgrees, TotalsAgree
  <2> QED BY <2>1, <2>2, <2>3 DEF ToldOfProjects
<1> QED BY <1>1, Invariance, PTL
=============================================================================
