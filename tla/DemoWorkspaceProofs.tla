------------------------- MODULE DemoWorkspaceProofs -------------------------
(***************************************************************************)
(* The rules of the demo workspace's layout for every anchor, every drawn  *)
(* value and every number of the layout that satisfies LayoutAssumption,   *)
(* so that changing one of them within those bounds is safe.               *)
(***************************************************************************)
EXTENDS DemoWorkspace, TLAPS

\* What can become of a blueprint: DueFits and CompletionFits are what the drawing
\* has to ensure of its days, counted back from the anchor.
DueFits(created, n) == n \in Int /\ -created < n /\ n <= LatestDue /\ Active(-n)
CompletionFits(created, n) == n \in Nat /\ 0 < n /\ n < created /\ Active(n)

\* Numbering the parts of a day loses neither the day nor the order.
LEMMA DayOfInstant ==
  ASSUME NEW day \in Int, NEW part \in 0..2
  PROVE  Instant(day, part) \in Int /\ DayOf(Instant(day, part)) = day
BY DEF Instant, DayOf

\* What the rounded division gives: a quotient within the divided number, growing
\* when the number grows by the divisor.
LEMMA Division ==
  ASSUME NEW n \in Nat \ {0}, NEW a \in Nat
  PROVE  a \div n \in Nat /\ n * (a \div n) <= a /\ a < n * (a \div n) + n
OBVIOUS

\* The days of the previous month: all of them before the anchor's month, none of
\* them 62 days before the anchor, and each after the one before.
LEMMA PreviousMonth ==
  ASSUME NEW s \in Slots, anchor \in Anchors
  PROVE  /\ PreviousMonthDay(s) \in Int
         /\ PreviousMonthDay(s) <= anchor - DayOfMonth[anchor]
         /\ anchor - DayOfMonth[anchor] - LastMonth[anchor] < PreviousMonthDay(s)
         /\ anchor - PreviousMonthDay(s) \in 1..61
<1> DEFINE last == anchor - DayOfMonth[anchor]
           length == LastMonth[anchor] - 1
           n == Completions - 1
<1>1. /\ anchor \in Int /\ DayOfMonth[anchor] \in 1..31 /\ LastMonth[anchor] \in 28..31
      /\ n \in Nat \ {0} /\ s \in 0..n
  BY LayoutAssumption DEF LayoutAssumption, Slots
<1>2. /\ length \in 27..30 /\ last \in Int
      /\ last - (last - LastMonth[anchor] + 1) = length
  BY <1>1
<1> HIDE DEF n, length
<1>3. length * s \in Nat /\ length * n \in Nat /\ length * s <= length * n
  BY <1>1, <1>2
<1>4. /\ (length * s) \div n \in Nat
      /\ n * ((length * s) \div n) <= length * n
  BY <1>1, <1>3, Division
<1>5. (length * s) \div n <= length
  <2> DEFINE q == (length * s) \div n
  <2>1. q \in Nat /\ n * q <= length * n
    BY <1>4
  <2> HIDE DEF q
  <2>2. SUFFICES ASSUME q >= length + 1 PROVE FALSE
    BY <2>1, <1>2 DEF q
  <2>3. n * q >= n * (length + 1)
    BY <1>1, <1>2, <2>1, <2>2
  <2>4. n * (length + 1) = length * n + n
    BY <1>1, <1>2
  <2> QED BY <1>1, <1>2, <2>1, <2>3, <2>4
<1>6. PreviousMonthDay(s) = last - length + (length * s) \div n
  BY <1>1, <1>2 DEF PreviousMonthDay, n, length
<1> DEFINE q == (length * s) \div n
<1>7. /\ q \in Nat /\ q <= length /\ PreviousMonthDay(s) = last - length + q
      /\ length = LastMonth[anchor] - 1
  BY <1>4, <1>5, <1>6 DEF length
<1> HIDE DEF q, last
<1>8. /\ PreviousMonthDay(s) \in Int /\ PreviousMonthDay(s) <= last
      /\ last - LastMonth[anchor] < PreviousMonthDay(s)
      /\ last - PreviousMonthDay(s) \in 0..30
  BY <1>1, <1>2, <1>7
<1> QED BY <1>1, <1>8 DEF last

\* With at most 28 completions each one has a day of its own.
LEMMA PreviousMonthDaysDiffer ==
  ASSUME NEW s \in Slots, NEW u \in Slots, s < u, Completions <= 28, anchor \in Anchors
  PROVE  PreviousMonthDay(s) < PreviousMonthDay(u)
<1> DEFINE length == LastMonth[anchor] - 1
           n == Completions - 1
           q(k) == (length * k) \div n
<1>1. /\ anchor \in Int /\ DayOfMonth[anchor] \in 1..31 /\ LastMonth[anchor] \in 28..31
      /\ Completions \in Nat /\ 1 < Completions
  BY LayoutAssumption DEF LayoutAssumption
<1>0. n \in Nat \ {0} /\ s \in 0..n /\ u \in 0..n /\ n <= 27
  BY <1>1 DEF Slots
<1>2. length \in 27..30
  BY <1>1
<1> HIDE DEF n, length
<1>3. length * s \in Nat /\ length * u \in Nat /\ length * u >= length * s + length
  BY <1>0, <1>1, <1>2
<1>4. /\ q(s) \in Nat /\ n * q(s) <= length * s
      /\ q(u) \in Nat /\ length * u < n * q(u) + n
  BY <1>0, <1>1, <1>3, Division
<1> HIDE DEF q
<1>5. q(s) < q(u)
  <2> SUFFICES ASSUME q(u) <= q(s) PROVE FALSE
    BY <1>4
  <2>1. n * q(u) <= n * q(s)
    BY <1>0, <1>1, <1>4
  <2> QED BY <1>0, <1>1, <1>2, <1>3, <1>4, <2>1
<1> QED BY <1>0, <1>1, <1>2, <1>5 DEF PreviousMonthDay, n, length, q

\* A day moved out of the quiet stretch is moved towards the anchor and past it.
LEMMA Moved ==
  ASSUME NEW n \in Int, n <= CreatedSpan
  PROVE  /\ AfterQuietStretch(n) \in Int /\ AfterQuietStretch(n) <= n
         /\ Active(AfterQuietStretch(n))
         /\ n >= 1 => AfterQuietStretch(n) >= 1
         /\ n < 1 => AfterQuietStretch(n) = n
BY LayoutAssumption DEF LayoutAssumption, AfterQuietStretch, Active, IsQuiet

\* A task of a blueprint whose days fit keeps the rules.
LEMMA BlueprintKeepsTheLayout ==
  ASSUME NEW status, NEW created \in Nat, NEW due, NEW completed,
         anchor \in Anchors, AnchorFits, Active(created),
         \A n \in due : DueFits(created, n),
         \A n \in completed : CompletionFits(created, n) /\ completed = {n},
         status = "done" <=> completed # {},
         LayOut(status, created, due, completed, {})
  PROVE  KeepsTheLayout'
<1>0. /\ anchor \in Int /\ anchor' = anchor /\ slot' = {}
      /\ task' = Materialise(status, created, due, completed, {})
      /\ CreatedSpan \in Nat /\ LatestDue \in Nat /\ EarliestDay \in Int /\ LatestDay \in Int
  BY LayoutAssumption DEF LayoutAssumption, LayOut
<1> DEFINE done == {Instant(anchor - n, Afternoon) : n \in completed}
           morning == Instant(anchor - created, Morning)
<1>1. /\ task'.status = status /\ task'.created = morning
      /\ task'.due = {Instant(anchor + n, Midnight) : n \in due}
      /\ task'.completed = done
      /\ task'.updated = IF done = {} THEN morning ELSE CHOOSE i \in done : TRUE
  BY <1>0 DEF Materialise
<1>2. morning \in Int /\ DayOf(morning) = anchor - created
  BY <1>0, DayOfInstant DEF Morning
<1>3. ASSUME NEW n \in completed
      PROVE  /\ Instant(anchor - n, Afternoon) \in Int
             /\ DayOf(Instant(anchor - n, Afternoon)) = anchor - n
             /\ morning < Instant(anchor - n, Afternoon)
             /\ done = {Instant(anchor - n, Afternoon)}
  <2>1. n \in Nat /\ n < created /\ completed = {n}
    BY DEF CompletionFits
  <2> QED BY <1>0, <2>1, DayOfInstant DEF Afternoon, Instant, Morning
<1>4. ASSUME NEW n \in due
      PROVE  /\ n \in Int /\ -created < n /\ n <= LatestDue /\ Active(-n)
             /\ DayOf(Instant(anchor + n, Midnight)) = anchor + n
  BY <1>0, DayOfInstant DEF DueFits, Midnight
<1>5. ObeysDomainRules'
  <2>1. task'.status = "done" <=> task'.completed # {}
    BY <1>1
  <2>2. \A i \in task'.completed : task'.created < i /\ task'.updated = i
    BY <1>1, <1>3
  <2>3. \A i \in task'.due : DayOf(task'.created) < DayOf(i)
    BY <1>0, <1>1, <1>2, <1>4
  <2> QED BY <1>1, <2>1, <2>2, <2>3 DEF ObeysDomainRules
<1>6. StaysInItsDays'
  <2> DEFINE Good(d) == /\ IsSupportedDay(d)
                        /\ anchor - CreatedSpan <= d /\ d <= anchor + LatestDue
                        /\ ~IsQuiet(anchor - d)
  <2>1. ASSUME NEW n \in Int, -LatestDue <= n, Active(n) PROVE Good(anchor - n)
    BY <1>0, <2>1 DEF AnchorFits, IsSupportedDay, Active, IsQuiet
  <2>2. Good(DayOf(task'.created))
    BY <1>0, <1>1, <1>2, <2>1
  <2>3. ASSUME NEW i \in task'.due PROVE Good(DayOf(i))
    <3>1. PICK n \in due : i = Instant(anchor + n, Midnight)
      BY <1>1
    <3>2. -n \in Int /\ -LatestDue <= -n /\ Active(-n) /\ DayOf(i) = anchor - (-n)
      BY <1>0, <1>4, <3>1
    <3> QED BY <2>1, <3>2
  <2>4. ASSUME NEW i \in task'.completed PROVE Good(DayOf(i)) /\ DayOf(i) < anchor
    <3>1. PICK n \in completed : i = Instant(anchor - n, Afternoon)
      BY <1>1
    <3>2. n \in Nat /\ 0 < n /\ Active(n) /\ DayOf(i) = anchor - n
      BY <1>3, <3>1 DEF CompletionFits
    <3> QED BY <1>0, <2>1, <3>2
  <2>5. \A d \in Days' : Good(d)
    BY <2>2, <2>3, <2>4 DEF Days
  <2> QED BY <1>0, <2>4, <2>5 DEF StaysInItsDays, IsSupportedDay, IsQuiet
<1>7. FillsPreviousMonth'
  <2>1. \A s \in Slots : PreviousMonthDay(s)' = PreviousMonthDay(s)
    BY <1>0 DEF PreviousMonthDay
  <2> QED BY <1>0, <2>1, PreviousMonthDaysDiffer DEF FillsPreviousMonth
<1> QED BY <1>5, <1>6, <1>7 DEF KeepsTheLayout

\* So does a task pinned to a slot of the previous month.
LEMMA SlotKeepsTheLayout ==
  ASSUME NEW s \in Slots, anchor \in Anchors, AnchorFits,
         LayOut("done", SlotCreated[s], {}, {}, {s})
  PROVE  KeepsTheLayout'
<1> DEFINE created == SlotCreated[s]
           day == PreviousMonthDay(s)
           done == Instant(day, Afternoon)
           morning == Instant(anchor - created, Morning)
<1>1. /\ anchor \in Int /\ anchor' = anchor /\ slot' = {s}
      /\ task' = Materialise("done", created, {}, {}, {s})
      /\ CreatedSpan \in Nat /\ LatestDue \in Nat /\ QuietLast \in Nat /\ QuietLast <= CreatedSpan
      /\ EarliestDay \in Int /\ LatestDay \in Int
      /\ created \in 62..QuietLast - 1
  BY LayoutAssumption DEF LayoutAssumption, LayOut
<1>2. /\ day \in Int /\ anchor - day \in 1..61
      /\ day <= anchor - DayOfMonth[anchor]
      /\ anchor - DayOfMonth[anchor] - LastMonth[anchor] < day
  BY PreviousMonth
<1> HIDE DEF day, created
<1>3. /\ done \in Int /\ DayOf(done) = day
      /\ morning \in Int /\ DayOf(morning) = anchor - created /\ morning < done
  <2>1. anchor - created \in Int /\ anchor - created < day
    BY <1>1, <1>2
  <2>2. done \in Int /\ DayOf(done) = day /\ morning \in Int /\ DayOf(morning) = anchor - created
    BY <1>2, <2>1, DayOfInstant DEF Afternoon, Morning
  <2>3. morning < done
    BY <1>2, <2>1 DEF Afternoon, Morning, Instant
  <2> QED BY <2>2, <2>3
<1> HIDE DEF done, morning
<1>4. /\ task'.status = "done" /\ task'.created = morning /\ task'.due = {}
      /\ task'.completed = {done} /\ task'.updated = done
  BY <1>1 DEF Materialise, done, morning, day
<1>5. ObeysDomainRules'
  BY <1>3, <1>4 DEF ObeysDomainRules
<1>6. StaysInItsDays'
  <2>1. Days' = {anchor - created, day}
    BY <1>3, <1>4 DEF Days
  <2>2. \A d \in {anchor - created, day} :
          /\ IsSupportedDay(d) /\ anchor - CreatedSpan <= d /\ d <= anchor + LatestDue
          /\ ~IsQuiet(anchor - d)
    BY <1>1, <1>2 DEF AnchorFits, IsSupportedDay, IsQuiet
  <2>3. day < anchor
    BY <1>1, <1>2
  <2> QED BY <1>1, <1>3, <1>4, <2>1, <2>2, <2>3 DEF StaysInItsDays, IsSupportedDay, IsQuiet
<1>7. FillsPreviousMonth'
  <2>1. \A u \in Slots : PreviousMonthDay(u)' = PreviousMonthDay(u)
    BY <1>1 DEF PreviousMonthDay
  <2>2. \A i \in task'.completed :
          /\ DayOf(i) <= anchor - DayOfMonth[anchor]
          /\ anchor - DayOfMonth[anchor] - LastMonth[anchor] < DayOf(i)
    BY <1>2, <1>3, <1>4
  <2> QED BY <1>1, <2>1, <2>2, PreviousMonthDaysDiffer DEF FillsPreviousMonth
<1> QED BY <1>5, <1>6, <1>7 DEF KeepsTheLayout

\* The invariant carries the choice of the anchor besides.
LayoutInv == anchor \in Anchors /\ KeepsTheLayout

LEMMA LayoutStep == LayoutInv /\ [Next]_vars => LayoutInv'
<1> SUFFICES ASSUME LayoutInv, [Next]_vars PROVE LayoutInv'
  OBVIOUS
<1> USE DEF LayoutInv
<1> DEFINE Fit(created, due, completed) ==
             /\ created \in Nat /\ Active(created)
             /\ \A n \in due : DueFits(created, n)
             /\ \A n \in completed : CompletionFits(created, n) /\ completed = {n}
<1>0. /\ {CreatedSpan, QuietFirst, QuietLast, LatestDue, OpenSpan, OverdueSpan, CancelledFrom,
           DoneFrom, LongestWork, DueSlack} \subseteq Nat
      /\ 1 < QuietLast /\ OpenSpan < QuietLast /\ OpenSpan <= CreatedSpan
      /\ 1 < DoneFrom /\ DueSlack <= LatestDue
  BY LayoutAssumption DEF LayoutAssumption
<1>1. ASSUME NEW status, NEW created, NEW due, NEW completed,
             Accepted, Fit(created, due, completed), status = "done" <=> completed # {},
             LayOut(status, created, due, completed, {})
      PROVE  LayoutInv'
  BY <1>1, BlueprintKeepsTheLayout DEF Accepted, LayOut
<1> HIDE DEF Fit
<1>2. CASE Refuse
  BY <1>2 DEF Refuse, KeepsTheLayout
<1>3. CASE DrawOpen
  <2>1. Accepted
    BY <1>3 DEF DrawOpen
  <2>2. PICK created \in 2..OpenSpan :
          \/ LayOut("open", created, {}, {}, {})
          \/ \E n \in 1..LatestDue : LayOut("open", created, {n}, {}, {})
          \/ \E n \in 1..Smaller(created - 1, OverdueSpan) : LayOut("open", created, {-n}, {}, {})
    BY <1>3 DEF DrawOpen
  <2>3. created \in Nat /\ created <= OpenSpan /\ Active(created)
    BY <1>0 DEF Active, IsQuiet
  <2>4. Fit(created, {}, {})
    BY <2>3 DEF Fit
  <2>5. ASSUME NEW n \in 1..LatestDue PROVE Fit(created, {n}, {})
    BY <1>0, <2>3 DEF Fit, DueFits, Active, IsQuiet
  <2>6. ASSUME NEW n \in 1..Smaller(created - 1, OverdueSpan) PROVE Fit(created, {-n}, {})
    <3>1. n \in Nat /\ n < created
      BY <1>0, <2>3 DEF Smaller
    <3> QED BY <1>0, <2>3, <3>1 DEF Fit, DueFits, Active, IsQuiet
  <2> QED BY <1>1, <2>1, <2>2, <2>4, <2>5, <2>6
<1>4. CASE DrawCancelled
  <2>1. PICK created \in ActiveDaysAgo(CreatedSpan, CancelledFrom) :
          LayOut("cancelled", created, {}, {}, {})
    BY <1>4 DEF DrawCancelled
  <2>2. Fit(created, {}, {})
    BY <1>0 DEF ActiveDaysAgo, Fit, Active
  <2> QED BY <1>1, <1>4, <2>1, <2>2 DEF DrawCancelled
<1>5. CASE DrawDone
  <2> DEFINE Completed(created, worked) == AfterQuietStretch(Larger(1, created - worked))
             Due(created, worked, slack) ==
               -AfterQuietStretch(Smaller(Completed(created, worked) + slack, created - 1))
  <2>1. PICK created \in ActiveDaysAgo(CreatedSpan, DoneFrom), worked \in 1..LongestWork :
          \/ LayOut("done", created, {}, {Completed(created, worked)}, {})
          \/ \E slack \in (-DueSlack)..DueSlack :
               LayOut("done", created, {Due(created, worked, slack)},
                      {Completed(created, worked)}, {})
    BY <1>5 DEF DrawDone
  <2>2. created \in Nat /\ 1 < created /\ created <= CreatedSpan /\ Active(created)
    BY <1>0 DEF ActiveDaysAgo, Active
  <2>3. Larger(1, created - worked) \in 1..created - 1
    BY <1>0, <2>2 DEF Larger
  <2> DEFINE c == Completed(created, worked)
  <2>4. c \in Nat /\ 0 < c /\ c < created /\ Active(c)
    <3> DEFINE l == Larger(1, created - worked)
    <3>1. l \in Int /\ 1 <= l /\ l < created /\ l <= CreatedSpan
      BY <1>0, <2>2, <2>3
    <3> HIDE DEF l
    <3>2. AfterQuietStretch(l) \in Int /\ 1 <= AfterQuietStretch(l)
          /\ AfterQuietStretch(l) <= l /\ Active(AfterQuietStretch(l))
      BY <3>1, Moved
    <3>3. c = AfterQuietStretch(l)
      BY DEF l
    <3> QED BY <2>2, <3>1, <3>2, <3>3
  <2>5. ASSUME NEW slack \in (-DueSlack)..DueSlack
        PROVE  DueFits(created, Due(created, worked, slack))
    <3> DEFINE d == Smaller(c + slack, created - 1)
    <3> HIDE DEF c
    <3>1. d \in Int /\ d < created /\ d <= CreatedSpan /\ -LatestDue <= d
      BY <1>0, <2>2, <2>4 DEF Smaller
    <3> HIDE DEF d
    <3>2. /\ AfterQuietStretch(d) \in Int /\ AfterQuietStretch(d) <= d
          /\ Active(AfterQuietStretch(d))
          /\ d >= 1 => AfterQuietStretch(d) >= 1
          /\ d < 1 => AfterQuietStretch(d) = d
      BY <3>1, Moved
    <3> DEFINE a == AfterQuietStretch(d)
    <3>3. Due(created, worked, slack) = -a
      BY DEF c, d
    <3>4. a \in Int /\ a < created /\ -LatestDue <= a /\ Active(a)
      BY <1>0, <2>2, <3>1, <3>2
    <3> HIDE DEF a
    <3>5. -(-a) = a /\ -a \in Int /\ -created < -a /\ -a <= LatestDue
      BY <1>0, <2>2, <3>4
    <3> QED BY <3>3, <3>4, <3>5 DEF DueFits
  <2>6. Fit(created, {}, {c})
    BY <2>2, <2>4 DEF Fit, CompletionFits
  <2>7. ASSUME NEW slack \in (-DueSlack)..DueSlack
        PROVE  Fit(created, {Due(created, worked, slack)}, {c})
    BY <2>2, <2>4, <2>5 DEF Fit, CompletionFits
  <2>8. Accepted
    BY <1>5 DEF DrawDone
  <2> HIDE DEF Completed, Due
  <2> QED BY <1>1, <2>1, <2>6, <2>7, <2>8
<1>6. CASE TakePinned
  <2>1. PICK b \in Pinned : LayOut(b.status, b.created, b.due, b.completed, {})
    BY <1>6 DEF TakePinned
  <2>2. Fit(b.created, b.due, b.completed) /\ (b.status = "done" <=> b.completed # {})
    BY PinnedAssumption DEF PinnedAssumption, Fit, DueFits, CompletionFits
  <2> QED BY <1>1, <1>6, <2>1, <2>2 DEF TakePinned
<1>7. CASE PinToPreviousMonth
  BY <1>7, SlotKeepsTheLayout DEF PinToPreviousMonth, Accepted, LayOut
<1>8. CASE UNCHANGED vars
  BY <1>8 DEF vars, KeepsTheLayout, ObeysDomainRules, StaysInItsDays, FillsPreviousMonth,
              Days, PreviousMonthDay, IsSupportedDay, IsQuiet, DayOf
<1> QED BY <1>2, <1>3, <1>4, <1>5, <1>6, <1>7, <1>8 DEF Next

\* build_demo_workspace: whatever the generators draw and whichever day is the
\* anchor, the rows keep the rules of the layout.
THEOREM Layout == Spec => []KeepsTheLayout
<1>1. Init => LayoutInv
  BY DEF Init, LayoutInv, KeepsTheLayout
<1>2. LayoutInv /\ [Next]_vars => LayoutInv'
  BY LayoutStep
<1>3. LayoutInv => KeepsTheLayout
  BY DEF LayoutInv
<1> QED BY <1>1, <1>2, <1>3, PTL DEF Spec
=============================================================================
