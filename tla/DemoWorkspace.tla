---------------------------- MODULE DemoWorkspace ----------------------------
(***************************************************************************)
(* The dates of one task of the demo workspace: build_demo_workspace draws *)
(* a task as offsets from the anchor day, or takes a pinned one, and turns *)
(* the offsets into instants.  Every title has a generator of its own, so  *)
(* one task stands for all of them, and every value a generator can return *)
(* is tried: what holds here holds for every seed.                         *)
(*                                                                         *)
(* Days are numbered.  An instant is three times its day plus the part of  *)
(* the day: 0 the local midnight that begins it, 1 the morning in which    *)
(* tasks are created, 2 the afternoon in which they are completed.  A date *)
(* that may be missing is a set of at most one date.                       *)
(***************************************************************************)
EXTENDS Integers

CONSTANTS
  CreatedSpan,    \* CREATED_SPAN_DAYS
  QuietFirst,     \* QUIET_STRETCH_FIRST_DAYS_AGO
  QuietLast,      \* QUIET_STRETCH_LAST_DAYS_AGO
  LatestDue,      \* LATEST_DUE_IN_DAYS
  Completions,    \* PREVIOUS_MONTH_COMPLETIONS
  OpenSpan,       \* an open task is created at most so many days ago
  OverdueSpan,    \* and is overdue by at most so many days
  CancelledFrom,  \* a cancelled task is created at least so many days ago
  DoneFrom,       \* a done task is created at least so many days ago
  LongestWork,    \* and is completed at most so many days later
  DueSlack,       \* and was due at most so many days before or after that
  SlotCreated,    \* days ago at which the task of each slot is created
  Pinned,         \* the other blueprints written out in the source
  EarliestDay,    \* EARLIEST_SUPPORTED_DAY
  LatestDay,      \* LATEST_SUPPORTED_DAY
  Anchors,        \* the days a workspace may be asked for
  DayOfMonth,     \* of each anchor
  LastMonth       \* number of days of the month before each anchor's

Slots == 0..Completions - 1

ASSUME LayoutAssumption ==
  /\ {CreatedSpan, QuietFirst, QuietLast, LatestDue, Completions, OpenSpan, OverdueSpan,
      CancelledFrom, DoneFrom, LongestWork, DueSlack} \subseteq Nat
  /\ 1 < QuietLast /\ QuietLast <= QuietFirst
  /\ OpenSpan < QuietLast /\ OpenSpan <= CreatedSpan
  /\ 0 < LongestWork /\ 1 < DoneFrom
  /\ DueSlack <= LatestDue
  /\ 1 < Completions
  /\ SlotCreated \in [Slots -> 62..QuietLast - 1]
  /\ QuietLast <= CreatedSpan
  /\ EarliestDay \in Int /\ LatestDay \in Int
  /\ Anchors \subseteq Int
  /\ DayOfMonth \in [Anchors -> 1..31]
  /\ LastMonth \in [Anchors -> 28..31]

\* A day counted back from the anchor that is in the span and not in the quiet
\* stretch.
IsQuiet(daysAgo) == QuietLast <= daysAgo /\ daysAgo <= QuietFirst
Active(daysAgo) == daysAgo <= CreatedSpan /\ ~IsQuiet(daysAgo)

\* What the table of pinned blueprints has to satisfy itself.
ASSUME PinnedAssumption ==
  \A b \in Pinned :
    /\ b.created \in Nat /\ Active(b.created)
    /\ \A n \in b.due : n \in Int /\ -b.created < n /\ n <= LatestDue /\ Active(-n)
    /\ \A n \in b.completed :
         /\ n \in Nat /\ 0 < n /\ n < b.created /\ Active(n)
         /\ b.completed = {n}
    /\ b.status = "done" <=> b.completed # {}

VARIABLES
  stage,   \* "asked", "refused" or "laid out"
  anchor,  \* anchor_date
  slot,    \* the slot of the previous month, for a task pinned to one
  task     \* the task that was laid out

vars == <<stage, anchor, slot, task>>

Midnight == 0
Morning == 1
Afternoon == 2
Instant(day, part) == 3 * day + part
DayOf(instant) == instant \div 3

Smaller(a, b) == IF a < b THEN a ELSE b
Larger(a, b) == IF a < b THEN b ELSE a

IsSupportedDay(day) == EarliestDay <= day /\ day <= LatestDay

\* A mistake the checked property tells from the code: a day is moved to the end of
\* the quiet stretch instead of past it.
AfterQuietStretchStaysIn(daysAgo) == IF IsQuiet(daysAgo) THEN QuietLast ELSE daysAgo

\* Moving a day out of the quiet stretch moves it forward in time.
AfterQuietStretch(daysAgo) == IF IsQuiet(daysAgo) THEN QuietLast - 1 ELSE daysAgo

ActiveDaysAgo(earliest, latest) == {n \in latest..earliest : ~IsQuiet(n)}

\* Day s of the days spread evenly over the month before the anchor's.
PreviousMonthDay(s) ==
  LET last == anchor - DayOfMonth[anchor]
      first == last - LastMonth[anchor] + 1
  IN  first + ((last - first) * s) \div (Completions - 1)

\* The task of a blueprint: due days are counted from the anchor, the other days
\* back from it; a slot takes the place of the day of completion.
Materialise(status, created, due, completed, slots) ==
  LET instants == {Instant(anchor - n, Afternoon) : n \in completed}
                    \cup {Instant(PreviousMonthDay(s), Afternoon) : s \in slots}
      morning == Instant(anchor - created, Morning)
  IN  [status |-> status, created |-> morning,
       due |-> {Instant(anchor + n, Midnight) : n \in due},
       completed |-> instants,
       updated |-> IF instants = {} THEN morning ELSE CHOOSE i \in instants : TRUE]

NoTask == [status |-> "none", created |-> 0, due |-> {}, completed |-> {}, updated |-> 0]

-----------------------------------------------------------------------------
Init ==
  /\ stage = "asked"
  /\ anchor \in Anchors
  /\ slot = {}
  /\ task = NoTask

\* The span before the anchor and the due days after it are days of the calendar.
AnchorFits ==
  /\ IsSupportedDay(anchor - CreatedSpan)
  /\ IsSupportedDay(anchor + LatestDue)

\* An anchor too close to the edge of the calendar is a ValidationError.
Refuse ==
  /\ stage = "asked" /\ ~AnchorFits
  /\ stage' = "refused"
  /\ UNCHANGED <<anchor, slot, task>>

Accepted == stage = "asked" /\ AnchorFits

LayOut(status, created, due, completed, slots) ==
  /\ stage' = "laid out"
  /\ slot' = slots
  /\ task' = Materialise(status, created, due, completed, slots)
  /\ UNCHANGED anchor

\* An open task has no due date, one to come, or one that has passed since it was
\* created.
DrawOpen ==
  /\ Accepted
  /\ \E created \in 2..OpenSpan :
       \/ LayOut("open", created, {}, {}, {})
       \/ \E n \in 1..LatestDue : LayOut("open", created, {n}, {}, {})
       \/ \E n \in 1..Smaller(created - 1, OverdueSpan) :
            LayOut("open", created, {-n}, {}, {})

DrawCancelled ==
  /\ Accepted
  /\ \E created \in ActiveDaysAgo(CreatedSpan, CancelledFrom) :
       LayOut("cancelled", created, {}, {}, {})

\* A done task is completed some days after it was created, at the latest on the
\* day before the anchor, and may have been due around that day.
DrawDone ==
  /\ Accepted
  /\ \E created \in ActiveDaysAgo(CreatedSpan, DoneFrom), worked \in 1..LongestWork :
       LET completed == AfterQuietStretch(Larger(1, created - worked))
       IN  \/ LayOut("done", created, {}, {completed}, {})
           \/ \E slack \in (-DueSlack)..DueSlack :
                LET dueDaysAgo == Smaller(completed + slack, created - 1)
                IN  LayOut("done", created, {-AfterQuietStretch(dueDaysAgo)}, {completed}, {})

\* A task whose offsets are written out.
TakePinned ==
  /\ Accepted
  /\ \E b \in Pinned : LayOut(b.status, b.created, b.due, b.completed, {})

\* A task pinned to a slot of the previous calendar month.
PinToPreviousMonth ==
  /\ Accepted
  /\ \E s \in Slots : LayOut("done", SlotCreated[s], {}, {}, {s})

Next ==
  Refuse \/ DrawOpen \/ DrawCancelled \/ DrawDone \/ TakePinned \/ PinToPreviousMonth

Spec == Init /\ [][Next]_vars

-----------------------------------------------------------------------------
\* The domain rules of a task and of the instants in it, which "the seeded rows
\* obey": done exactly with a completion instant, created before it is due and
\* before it is completed, and touched last by its completion.
ObeysDomainRules ==
  /\ task.status = "done" <=> task.completed # {}
  /\ \A i \in task.completed : task.created < i /\ task.updated = i
  /\ task.completed = {} => task.updated = task.created
  /\ \A i \in task.due : DayOf(task.created) < DayOf(i)

\* The days on which something happens to the task.
Days == {DayOf(i) : i \in {task.created} \cup task.due \cup task.completed}

\* Nothing is created, due or completed before the span, outside the calendar, in
\* the quiet stretch or later than the latest due day; what is done was done before
\* the anchor.
StaysInItsDays ==
  /\ \A d \in Days :
       /\ IsSupportedDay(d)
       /\ anchor - CreatedSpan <= d /\ d <= anchor + LatestDue
       /\ ~IsQuiet(anchor - d)
  /\ \A i \in task.completed : DayOf(i) < anchor

\* The tasks pinned to the previous calendar month are completed in that month,
\* each on a day of its own.
FillsPreviousMonth ==
  /\ slot # {} => \A i \in task.completed :
       /\ DayOf(i) <= anchor - DayOfMonth[anchor]
       /\ anchor - DayOfMonth[anchor] - LastMonth[anchor] < DayOf(i)
  /\ \A s, u \in Slots : s < u /\ Completions <= 28 => PreviousMonthDay(s) < PreviousMonthDay(u)

\* Whatever the generators return and whichever day is the anchor, a task of the
\* demo workspace keeps the rules of its layout.
KeepsTheLayout ==
  stage = "laid out" => ObeysDomainRules /\ StaysInItsDays /\ FillsPreviousMonth
=============================================================================
