------------------------------ MODULE TaskQuery ------------------------------
(***************************************************************************)
(* Questions about the tasks of one owner: QueryTasksUseCase.execute, which *)
(* the agent's query_tasks tool asks in words and which answers with an    *)
(* outcome; list_page, which the HTTP listing asks; and ListProjectsUseCase, *)
(* what each project holds.  Every datastore call is a step and the calls  *)
(* are not one transaction: writes of the owner's other requests fall      *)
(* between them.  Projects are created and never removed.                  *)
(*                                                                         *)
(* A task has up to three instants, one on each date axis; a question      *)
(* names days.  Priority and text narrow a question exactly as the status  *)
(* does and are left out, and so are the argument texts that do not parse. *)
(***************************************************************************)
EXTENDS Integers, FiniteSets, FiniteSetsExt, Functions

CONSTANTS
  Tasks,           \* the ids tasks ever have: numbers
  Shapes,          \* the rows a task can have, see Row
  DayStart,        \* the instant at which each local day starts; days differ in length
  Weekday,         \* the weekday of day 0, counted from Monday
  MonthOf,         \* the month of each day
  Projects,        \* the projects the owner ever has
  References,      \* texts that address a project
  Exactly,         \* the projects each reference is the name of
  Partly,          \* the projects whose name or description it appears in
  None,            \* a missing instant, bound, project, reference or coverage
  Questions,       \* the calls that are ever made, see Question and PageRequest
  ListCap,         \* LIST_VIEW_CAP
  MaxChanges,      \* bound: writes that fall into one call
  DatastoreFails   \* whether a datastore call can fail

Statuses == {"open", "done", "cancelled"}
Axes == {"created", "due", "completed"}
\* The last day of DayStart only ends the one before it.
LastDay == Cardinality(DOMAIN DayStart) - 2
Days == 0..LastDay
Instants == DayStart[0]..(DayStart[LastDay + 1] - 1)

Row == {r \in [created : Instants, updated : Instants, due : Instants \cup {None},
               completed : Instants \cup {None}, status : Statuses,
               project : Projects \cup {None}] :
          r.updated >= r.created /\ (r.status = "done" <=> r.completed # None)}

Groupings == {"none", "project", "status", "week", "month"}

Question == [tool : {"query"}, axis : Axes, from : Days \cup {None}, to : Days \cup {None},
             reference : References \cup {None}, statuses : SUBSET Statuses,
             view : {"list", "summary"}, group : Groupings]

PageRequest == [tool : {"page"}, axis : Axes, from : Days \cup {None}, to : Days \cup {None},
                project : Projects \cup {None}, statuses : {{}} \cup {{s} : s \in Statuses},
                limit : Nat \ {0}, offset : Nat]

Overview == [tool : {"projects"}]

\* What the datastore tells of an axis, and what a search is told to look for.
Coverage == {c \in [first : Days, last : Days] : c.first <= c.last}
Criterion == [axis : Axes, start : Instants \cup {None}, end : 0..DayStart[LastDay + 1] \cup {None},
              project : Projects \cup {None}, statuses : SUBSET Statuses]

ASSUME QueryAssumption ==
  /\ Tasks \subseteq Nat /\ IsFiniteSet(Tasks) /\ IsFiniteSet(Projects)
  /\ LastDay \in Nat /\ DayStart \in [0..(LastDay + 1) -> Nat]
  /\ \A d \in Days : DayStart[d] < DayStart[d + 1]
  /\ Weekday \in 0..6
  /\ MonthOf \in [Days -> Nat] /\ \A d \in Days : \A e \in 0..d : MonthOf[e] <= MonthOf[d]
  /\ Shapes \subseteq Row
  /\ \A q \in Questions : q \in Question \/ q \in PageRequest \/ q \in Overview
  /\ Exactly \in [References -> SUBSET Projects]
  /\ Partly \in [References -> SUBSET Projects]
  /\ ListCap \in Nat \ {0} /\ MaxChanges \in Nat
  /\ DatastoreFails \in BOOLEAN
  \* None is missing from everything it stands in for.
  /\ None \notin Int \cup Projects \cup References \cup Questions \cup Coverage
  /\ None \notin Criterion

VARIABLES
  rows,       \* tasks table: the row of each task that exists
  made,       \* projects table: the projects that exist
  at,         \* where the call is
  asked,      \* the call
  listed,     \* the projects it has read
  coverage,   \* first and last day on its axis, as it read them
  criteria,   \* what it searches for
  total,      \* how many tasks it counted
  found,      \* the tasks it has read, as they then were
  answer,     \* what it returned
  seen        \* history variable: the contents of the tables since it began

tables == <<rows, made>>
reading == <<listed, coverage, criteria, total, found>>
vars == <<tables, at, asked, reading, answer, seen>>

NoRow == [status |-> "none"]
Ids(table) == {i \in Tasks : table[i] # NoRow}
Places == {"asking", "listing", "summing", "counting", "bounding", "matching", "unfiltered",
           "unwindowed", "searching", "undated", "paging", "turning", "answered"}

-----------------------------------------------------------------------------
(* Days, windows and filters.                                              *)

DayOf(i) == CHOOSE d \in Days : DayStart[d] <= i /\ i < DayStart[d + 1]

\* The exclusive end of a window is the midnight that starts its last day.
StartOfLast(d) == DayStart[d]

\* LocalCalendar.end_of: the midnight that ends a day.
EndOf(d) == DayStart[d + 1]

\* Statuses whose tasks can have an instant on an axis.
HeldBy(axis) == IF axis = "completed" THEN {"done"} ELSE Statuses

\* date_bounds and CoverageWindow: the first and the last day with a task on the axis.
CoverageOf(table, axis) ==
  LET days == {DayOf(table[i][axis]) : i \in {j \in Ids(table) : table[j][axis] # None}}
  IN  IF days = {} THEN None
      ELSE [first |-> CHOOSE d \in days : \A e \in days : d <= e,
            last |-> CHOOSE d \in days : \A e \in days : e <= d]

Contradicts(q) == q.statuses # {} /\ q.statuses \cap HeldBy(q.axis) = {}

\* The status filter, {} when it leaves out nothing the axis can hold.
Narrowing(q) ==
  IF HeldBy(q.axis) \subseteq q.statuses THEN {} ELSE q.statuses \cap HeldBy(q.axis)

Inverted(q) == q.tool # "projects" /\ q.from # None /\ q.to # None /\ q.from > q.to

\* A window that ends before the coverage is taken for one that meets it.
GapAfterOnly(q, c) == c = None \/ (q.from # None /\ q.from > c.last)

\* RequestedWindow.within finds no day in common.
Gap(q, c) ==
  \/ c = None
  \/ q.from # None /\ q.from > c.last
  \/ q.to # None /\ q.to < c.first

Criteria(q, from, to, project) ==
  [axis |-> q.axis, start |-> IF from = None THEN None ELSE DayStart[from],
   end |-> IF to = None THEN None ELSE EndOf(to), project |-> project,
   statuses |-> IF q.tool = "page" THEN q.statuses ELSE Narrowing(q)]

WithoutFilters(c) == [c EXCEPT !.project = None, !.statuses = {}]
WithoutWindow(c) == [c EXCEPT !.start = None, !.end = None]
Narrows(c) == c.project # None \/ c.statuses # {}

Passes(row, c) ==
  /\ c.project \in {None, row.project}
  /\ c.statuses = {} \/ row.status \in c.statuses

Hits(table, c) ==
  {i \in Ids(table) :
     LET instant == table[i][c.axis]
     IN  /\ instant # None
         /\ c.start = None \/ c.start <= instant
         /\ c.end = None \/ instant < c.end
         /\ Passes(table[i], c)}

\* _axis_population: a task that cannot have an instant on the axis misses none.
Undated(table, c) ==
  {i \in Ids(table) :
     /\ table[i][c.axis] = None
     /\ Passes(table[i], [c EXCEPT !.statuses = IF @ = {} THEN HeldBy(c.axis) ELSE @])}

Before(table, axis, i, j) ==
  \/ table[i][axis] < table[j][axis]
  \/ table[i][axis] = table[j][axis] /\ i < j

\* The earliest n of some tasks, and a page of them counted from the latest.
FirstOf(table, axis, ids, n) ==
  {i \in ids : Cardinality({j \in ids : Before(table, axis, j, i)}) < n}
PageOf(table, axis, ids, limit, offset) ==
  {i \in ids : Cardinality({j \in ids : Before(table, axis, i, j)})
                 \in offset..(offset + limit - 1)}

\* ProjectReferenceResolver: a name in full decides before a part of it.
Resolved(ref, projects) ==
  IF Exactly[ref] \cap projects # {} THEN Exactly[ref] \cap projects ELSE Partly[ref] \cap projects

-----------------------------------------------------------------------------
(* What a summary counts, and what the projects hold.                      *)

StatusCounts(held) ==
  [s \in Statuses |-> Cardinality({i \in DOMAIN held : held[i].status = s})]

\* A week is keyed by the Monday that starts it.
Monday(d) == d - ((d + Weekday) % 7)

\* _group_of: what the tasks of a group have in common.
GroupOf(row, q) ==
  CASE q.group = "project" -> row.project
    [] q.group = "status" -> row.status
    [] q.group = "week" -> Monday(DayOf(row[q.axis]))
    [] q.group = "month" -> MonthOf[DayOf(row[q.axis])]

\* _groups: a project is shown by the name it was listed with.
GroupsOf(held, q) ==
  IF q.group = "none" THEN {}
  ELSE {[of |-> g, key |-> IF q.group = "project" /\ g \notin listed THEN None ELSE g,
         counts |-> StatusCounts(Restrict(held, {i \in DOMAIN held : GroupOf(held[i], q) = g}))] :
        g \in {GroupOf(held[i], q) : i \in DOMAIN held}}

\* summarise_by_project: one row for each project and status that has tasks.
Activity(table) ==
  {LET ids == {i \in Ids(table) : table[i].project = k[1] /\ table[i].status = k[2]}
   IN  [project |-> k[1], status |-> k[2], count |-> Cardinality(ids),
        first |-> Min({table[i].created : i \in ids}),
        last |-> Max({table[i].updated : i \in ids})] :
   k \in {<<table[i].project, table[i].status>> : i \in Ids(table)}}

\* How many tasks some rows of the activity stand for.
TasksIn(activity) == MapThenSumSet(LAMBDA a : a.count, activity)

\* Only the tasks that are open or done are taken for activity.
TotalsWithoutCancelled(activity, p) ==
  LET held == {a \in activity : a.project = p /\ a.status # "cancelled"}
      count(s) == TasksIn({a \in held : a.status = s})
  IN  [open |-> count("open"), done |-> count("done"),
       first |-> IF held = {} THEN None ELSE DayOf(Min({a.first : a \in held})),
       last |-> IF held = {} THEN None ELSE DayOf(Max({a.last : a \in held}))]

\* ActivityTotals.of and _render_totals, for one project or the unfiled tasks.
Totals(activity, p) ==
  LET held == {a \in activity : a.project = p}
      count(s) == TasksIn({a \in held : a.status = s})
  IN  [open |-> count("open"), done |-> count("done"),
       first |-> IF held = {} THEN None ELSE DayOf(Min({a.first : a \in held})),
       last |-> IF held = {} THEN None ELSE DayOf(Max({a.last : a \in held}))]

-----------------------------------------------------------------------------
\* A task is filed under a project that exists.
Filed(table, projects) == \A i \in Ids(table) : table[i].project \in projects \cup {None}

Init ==
  /\ rows \in [Tasks -> Shapes \cup {NoRow}]
  /\ made \in SUBSET Projects
  /\ Filed(rows, made)
  /\ at = "asking"
  /\ asked = None /\ listed = {} /\ coverage = None /\ criteria = None
  /\ total = 0 /\ found = <<>> /\ answer = None
  /\ seen = {}

Goto(place) == at' = place /\ UNCHANGED answer
Answer(a) == at' = "answered" /\ answer' = a

\* A call is made; arguments that contradict each other end it unread.
Ask ==
  /\ at = "asking"
  /\ \E q \in Questions :
       /\ asked' = q
       /\ IF Inverted(q) \/ (q.tool = "query" /\ Contradicts(q))
          THEN Answer([status |-> "filter_error"]) /\ UNCHANGED criteria
          ELSE IF q.tool # "page" THEN Goto("listing") /\ UNCHANGED criteria
          ELSE Goto("paging") /\ criteria' = Criteria(q, q.from, q.to, q.project)
  /\ seen' = {[tasks |-> rows, projects |-> made]}
  /\ UNCHANGED <<tables, listed, coverage, total, found>>

ListProjects ==
  /\ at = "listing"
  /\ listed' = made
  /\ Goto(IF asked.tool = "query" THEN "counting" ELSE "summing")
  /\ UNCHANGED <<tables, asked, coverage, criteria, total, found, seen>>

\* ListProjectsUseCase: what is in each project that was listed.
SumUp ==
  /\ at = "summing"
  /\ LET activity == Activity(rows)
     IN  Answer(IF listed = {} /\ activity = {} THEN [status |-> "no_data"]
                ELSE [status |-> "ok", projects |-> [p \in listed |-> Totals(activity, p)],
                      unfiled |-> Totals(activity, None)])
  /\ UNCHANGED <<tables, asked, reading, seen>>

\* Only the tasks with an instant on the axis of the question are counted.
CountOnAxis ==
  /\ at = "counting"
  /\ IF \A i \in Ids(rows) : rows[i][asked.axis] = None
     THEN Answer([status |-> "no_data"]) ELSE Goto("bounding")
  /\ UNCHANGED <<tables, asked, reading, seen>>

CountAll ==
  /\ at = "counting"
  /\ IF Ids(rows) = {} THEN Answer([status |-> "no_data"]) ELSE Goto("bounding")
  /\ UNCHANGED <<tables, asked, reading, seen>>

\* The coverage of the axis is read, the window is fitted to it and the project
\* is resolved among those listed.
ReadBounds ==
  /\ at = "bounding"
  /\ LET c == CoverageOf(rows, asked.axis)
         matches == IF asked.reference = None THEN {None} ELSE Resolved(asked.reference, listed)
         window(p) == Criteria(asked, IF asked.from = None THEN c.first ELSE asked.from,
                               IF asked.to = None THEN c.last ELSE asked.to, p)
     IN  /\ coverage' = c
         /\ IF Gap(asked, c) THEN Answer([status |-> "coverage_gap"]) /\ UNCHANGED criteria
            ELSE IF Cardinality(matches) > 1
            THEN Answer([status |-> "ambiguous_source"]) /\ UNCHANGED criteria
            ELSE IF matches = {} THEN Goto("unfiltered") /\ criteria' = window(None)
            ELSE Goto("matching") /\ criteria' = window(CHOOSE p \in matches : TRUE)
  /\ UNCHANGED <<tables, asked, listed, total, found, seen>>

\* The search runs whatever was counted.
CountAndSearch ==
  /\ at = "matching"
  /\ total' = Cardinality(Hits(rows, criteria))
  /\ Goto("searching")
  /\ UNCHANGED <<tables, asked, listed, coverage, criteria, found, seen>>

CountMatches ==
  /\ at = "matching"
  /\ total' = Cardinality(Hits(rows, criteria))
  /\ Goto(IF total' > 0 THEN "searching" ELSE IF Narrows(criteria) THEN "unfiltered"
          ELSE "unwindowed")
  /\ UNCHANGED <<tables, asked, listed, coverage, criteria, found, seen>>

\* _nothing_matched: what the window holds once the filters are dropped.
SearchUnfiltered ==
  /\ at = "unfiltered"
  /\ LET present == Hits(rows, WithoutFilters(criteria))
     IN  Answer([status |-> "empty_filter", unfiltered |-> Cardinality(present),
                 statuses |-> {rows[i].status : i \in present}])
  /\ UNCHANGED <<tables, asked, reading, seen>>

CountUnwindowed ==
  /\ at = "unwindowed"
  /\ Answer([status |-> "no_records",
             unwindowed |-> Cardinality(Hits(rows, WithoutWindow(criteria)))])
  /\ UNCHANGED <<tables, asked, reading, seen>>

Search ==
  /\ at = "searching"
  /\ found' = LET hits == Hits(rows, criteria)
              IN  [i \in IF asked.view = "list" THEN FirstOf(rows, criteria.axis, hits, ListCap)
                         ELSE hits |-> rows[i]]
  /\ Goto("undated")
  /\ UNCHANGED <<tables, asked, listed, coverage, criteria, total, seen>>

\* The tasks that pass the filters and have no instant on the axis are counted,
\* and the answer is put together.
CountUndated ==
  /\ at = "undated"
  /\ LET shown == IF asked.view = "list"
                  THEN [tasks |-> DOMAIN found, truncated |-> total > Cardinality(DOMAIN found)]
                  ELSE [counts |-> StatusCounts(found), groups |-> GroupsOf(found, asked)]
     IN  Answer([status |-> "ok", total |-> total, shown |-> shown,
                 undated |-> Cardinality(Undated(rows, criteria))])
  /\ UNCHANGED <<tables, asked, reading, seen>>

CountPage ==
  /\ at = "paging"
  /\ total' = Cardinality(Hits(rows, criteria))
  /\ Goto("turning")
  /\ UNCHANGED <<tables, asked, listed, coverage, criteria, found, seen>>

\* The page forgets the pages before it.
TurnPageFromStart ==
  /\ at = "turning"
  /\ LET page == PageOf(rows, criteria.axis, Hits(rows, criteria), asked.limit, 0)
     IN  Answer([status |-> "page", tasks |-> page, total |-> total,
                 more |-> asked.offset + Cardinality(page) < total])
  /\ UNCHANGED <<tables, asked, reading, seen>>

\* list_page: one page, the latest instant first.
TurnPage ==
  /\ at = "turning"
  /\ LET page == PageOf(rows, criteria.axis, Hits(rows, criteria), asked.limit, asked.offset)
     IN  Answer([status |-> "page", tasks |-> page, total |-> total,
                 more |-> asked.offset + Cardinality(page) < total])
  /\ UNCHANGED <<tables, asked, reading, seen>>

\* A datastore call of the question fails.
Fail ==
  /\ DatastoreFails
  /\ at \notin {"asking", "answered"}
  /\ Answer([status |-> "error"])
  /\ UNCHANGED <<tables, asked, reading, seen>>

\* Another request has changed the tables while the call runs.
Meanwhile ==
  /\ at \notin {"asking", "answered"}
  /\ Cardinality(seen) <= MaxChanges
  /\ seen' = seen \cup {[tasks |-> rows', projects |-> made']}
  /\ seen' # seen
  /\ UNCHANGED <<at, asked, reading, answer>>

\* It creates, edits or deletes a task.
Change ==
  /\ \E i \in Tasks, row \in Shapes \cup {NoRow} : rows' = [rows EXCEPT ![i] = row]
  /\ Filed(rows', made)
  /\ UNCHANGED made
  /\ Meanwhile

\* It creates a project.
CreateProject ==
  /\ \E p \in Projects \ made : made' = made \cup {p}
  /\ UNCHANGED rows
  /\ Meanwhile

Next ==
  \/ Ask \/ ListProjects \/ SumUp \/ CountAll \/ ReadBounds \/ CountMatches \/ SearchUnfiltered
  \/ CountUnwindowed \/ Search \/ CountUndated \/ CountPage \/ TurnPage \/ Fail \/ Change
  \/ CreateProject

Spec == Init /\ [][Next]_vars

-----------------------------------------------------------------------------
TypeOK ==
  /\ rows \in [Tasks -> Shapes \cup {NoRow}]
  /\ listed \subseteq made /\ made \subseteq Projects /\ Filed(rows, made)
  /\ at \in Places
  /\ asked \in Questions \cup {None}
  /\ coverage \in Coverage \cup {None}
  /\ criteria \in Criterion \cup {None}
  /\ at \in {"matching", "unfiltered", "unwindowed", "searching", "undated", "paging", "turning"}
       => criteria # None
  /\ total \in 0..Cardinality(Tasks)
  /\ at \in {"searching", "undated"} => total > 0
  /\ DOMAIN found \subseteq Tasks
  /\ seen \subseteq [tasks : [Tasks -> Shapes \cup {NoRow}], projects : SUBSET made]

Answered(tool) == at = "answered" /\ asked.tool = tool /\ answer.status # "error"

\* No task changed while the call ran.
Quiet == Cardinality(seen) = 1

\* What the question is about, by the days a person reads: the tasks on the axis
\* in the period, and those of them that pass the filters.
OnAxis(table, q) == {i \in Ids(table) : table[i][q.axis] # None}
InPeriod(table, q) ==
  {i \in OnAxis(table, q) :
     LET day == DayOf(table[i][q.axis])
     IN  q.from \in {None} \cup 0..day /\ q.to \in {None} \cup day..LastDay}
Fits(row, q, p) == p \in {None, row.project} /\ (q.statuses = {} \/ row.status \in q.statuses)
Wanted(table, q, p) == {i \in InPeriod(table, q) : Fits(table[i], q, p)}

\* The project meant by a question, if it names one and one only is meant.
Meant(q) == IF q.reference = None THEN {None} ELSE Resolved(q.reference, listed)

\* Two tasks belong to one group, told without computing its key.
Together(q, i, j) ==
  LET days == {DayOf(rows[i][q.axis]), DayOf(rows[j][q.axis])}
  IN  CASE q.group = "project" -> rows[i].project = rows[j].project
        [] q.group = "status" -> rows[i].status = rows[j].status
        [] q.group = "week" -> \A d \in (Min(days) + 1)..Max(days) : (d + Weekday) % 7 # 0
        [] q.group = "month" -> \A d \in Min(days)..Max(days) : MonthOf[d] = MonthOf[Min(days)]

Counts(ids) == [s \in Statuses |-> Cardinality({i \in ids : rows[i].status = s})]

\* What is shown of the tasks wanted: the earliest of them up to the cap, or their
\* counts by status and each group once.
ShownIsExact(q, wanted, shown) ==
  IF q.view = "list"
  THEN /\ shown.tasks \subseteq wanted
       /\ shown.truncated <=> shown.tasks # wanted
       /\ shown.truncated => Cardinality(shown.tasks) = ListCap
       /\ \A i \in shown.tasks, j \in wanted \ shown.tasks : rows[i][q.axis] <= rows[j][q.axis]
  ELSE /\ shown.counts = Counts(wanted)
       /\ q.group # "none" =>
            LET groups == {{j \in wanted : Together(q, i, j)} : i \in wanted}
            IN  /\ Cardinality(shown.groups) = Cardinality(groups)
                /\ {g.counts : g \in shown.groups} = {Counts(ids) : ids \in groups}
                /\ q.group = "project" =>
                     \A g \in shown.groups :
                       g.counts = Counts({i \in wanted : rows[i].project = g.key})

\* The period of a question lies before every task on its axis, or after.
OutsideCoverage(table, q) ==
  \/ \A i \in OnAxis(table, q) : q.from # None /\ DayOf(table[i][q.axis]) < q.from
  \/ \A i \in OnAxis(table, q) : q.to # None /\ DayOf(table[i][q.axis]) > q.to

\* Every outcome of a question says what is so of the owner's tasks, read by local
\* days: each of the four ways to find nothing has its own cause and its own
\* counts, and an answer with tasks has exactly those wanted.
AnswerIsExact ==
  Answered("query") /\ Quiet =>
    CASE answer.status = "no_data" -> Ids(rows) = {}
      [] answer.status = "coverage_gap" -> Ids(rows) # {} /\ OutsideCoverage(rows, asked)
      [] answer.status = "no_records" ->
           /\ InPeriod(rows, asked) = {} /\ asked.reference = None
           /\ answer.unwindowed = Cardinality(OnAxis(rows, asked))
      [] answer.status = "empty_filter" ->
           /\ \A p \in Meant(asked) : Wanted(rows, asked, p) = {}
           /\ answer.unfiltered = Cardinality(InPeriod(rows, asked))
           /\ answer.statuses = {rows[i].status : i \in InPeriod(rows, asked)}
      [] answer.status = "ambiguous_source" -> Cardinality(Meant(asked)) > 1
      [] answer.status = "filter_error" -> Inverted(asked) \/ Contradicts(asked)
      [] answer.status = "ok" -> \E p \in Meant(asked) :
           LET wanted == Wanted(rows, asked, p)
               undated == {i \in Ids(rows) \ OnAxis(rows, asked) : Fits(rows[i], asked, p)}
           IN  /\ Meant(asked) = {p} /\ wanted # {}
               /\ answer.total = Cardinality(wanted)
               /\ ShownIsExact(asked, wanted, answer.shown)
               /\ asked.axis = "due" => answer.undated = Cardinality(undated)

\* The prompt says of "no_records": "the period is inside the covered range but
\* nothing happened in it".  There are tasks before the period and after it.
NoRecordsIsInsideCoverage ==
  Answered("query") /\ answer.status = "no_records" /\ Quiet =>
    /\ asked.from # None /\ asked.to # None
    /\ \E i \in OnAxis(rows, asked) : DayOf(rows[i][asked.axis]) < asked.from
    /\ \E i \in OnAxis(rows, asked) : DayOf(rows[i][asked.axis]) > asked.to

\* The period of a question, with open bounds closed by the coverage it has read.
Closed(q) ==
  [q EXCEPT !.from = IF @ = None /\ coverage # None THEN coverage.first ELSE @,
            !.to = IF @ = None /\ coverage # None THEN coverage.last ELSE @]

\* Whatever is written while a question is answered: when it finds nothing, there
\* was a moment since it was asked at which there was nothing to find.
NothingFoundWasTrue ==
  Answered("query") =>
    /\ answer.status = "no_data" => \E t \in seen : Ids(t.tasks) = {}
    /\ answer.status = "coverage_gap" => \E t \in seen : InPeriod(t.tasks, asked) = {}
    /\ answer.status = "no_records" => \E t \in seen : InPeriod(t.tasks, Closed(asked)) = {}
    /\ answer.status = "empty_filter" => \A p \in Meant(asked) :
         \E t \in seen : Wanted(t.tasks, Closed(asked), p) = {}

\* The owner's projects are told as they were at one moment since they were asked
\* for: every task then filed under a listed project, and every unfiled one, is
\* counted once, under its own status, and the first and the last activity are the
\* days its project's tasks were first created and last touched; only a task of a
\* project created since they were listed goes uncounted.
InventoryAgrees ==
  Answered("projects") => \E t \in seen :
    LET table == t.tasks
        agrees(told, p) ==
          LET held == {i \in Ids(table) : table[i].project = p}
          IN  /\ told.open = Cardinality({i \in held : table[i].status = "open"})
              /\ told.done = Cardinality({i \in held : table[i].status = "done"})
              /\ IF held = {} THEN told.first = None /\ told.last = None
                 ELSE /\ \E i \in held : told.first = DayOf(table[i].created)
                      /\ \E i \in held : told.last = DayOf(table[i].updated)
                      /\ \A i \in held : /\ told.first <= DayOf(table[i].created)
                                         /\ DayOf(table[i].updated) <= told.last
    IN  CASE answer.status = "no_data" -> Ids(table) = {} /\ listed = {}
          [] answer.status = "ok" ->
               /\ DOMAIN answer.projects = listed
               /\ \A p \in listed : agrees(answer.projects[p], p)
               /\ agrees(answer.unfiled, None)
               /\ \A p \in t.projects \ listed : \E u \in seen : p \notin u.projects

\* The latest instant is shown first and, of equal ones, the highest id.
ShownBefore(i, j) ==
  \/ rows[i][asked.axis] > rows[j][asked.axis]
  \/ rows[i][asked.axis] = rows[j][asked.axis] /\ i > j

\* A page of the listing holds the tasks of its places and no others: as many tasks
\* are shown before it as its offset skips, it falls short of its limit only when no
\* task comes after it, and it says that there are more exactly when some do.
PageIsExact ==
  Answered("page") /\ Quiet /\ answer.status = "page" =>
    LET wanted == Wanted(rows, asked, asked.project)
        size == Cardinality(answer.tasks)
        ahead == {i \in wanted \ answer.tasks : \E j \in answer.tasks : ShownBefore(i, j)}
    IN  /\ answer.tasks \subseteq wanted
        /\ size <= asked.limit
        /\ size < asked.limit => Cardinality(wanted) <= asked.offset + size
        /\ answer.tasks # {} => Cardinality(ahead) = asked.offset
        /\ \A i \in ahead, j \in answer.tasks : ShownBefore(i, j)
        /\ answer.total = Cardinality(wanted)
        /\ answer.more <=> Cardinality(wanted) > asked.offset + asked.limit

\* The tool says of "empty_filter": "the period has tasks but project, statuses,
\* priority or text matched none".
EmptyFilterHasTasks ==
  Answered("query") /\ Quiet /\ answer.status = "empty_filter" => answer.unfiltered > 0
=============================================================================
