-------------------------- MODULE MCDemoWorkspace --------------------------
(***************************************************************************)
(* The numbers of the source, and anchors at both edges of the calendar.   *)
(* Day 0 is 1 January 1971 and day 47481 is 31 December 2100.              *)
(***************************************************************************)
EXTENDS DemoWorkspace, TLC

\* The first anchor that is accepted and the day before it, 1 March and 31 August
\* 2026, the last anchor that is accepted and the day after it.
SomeDays == {269, 270, 20148, 20331, 47421, 47422}
DaysOfMonth ==
  (269 :> 27) @@ (270 :> 28) @@ (20148 :> 1) @@ (20331 :> 31) @@ (47421 :> 1) @@ (47422 :> 2)
MonthLengths == [a \in Anchors |-> IF a = 20148 THEN 28 ELSE 31]

\* The other blueprints of _PINNED, in the order of the source.
Pin(status, created, due, completed) ==
  [status |-> status, created |-> created, due |-> due, completed |-> completed]
PinnedTable ==
  { Pin("open", 12, {}, {}), Pin("open", 20, {9}, {}), Pin("open", 34, {21}, {}),
    Pin("open", 25, {12}, {}), Pin("open", 30, {-4}, {}), Pin("open", 6, {3}, {}),
    Pin("open", 40, {-9}, {}), Pin("open", 16, {-2}, {}),
    Pin("open", 22, {-6}, {}), Pin("open", 15, {-1}, {}),
    Pin("open", 50, {-15}, {}), Pin("done", 18, {-2}, {1}),
    Pin("done", 21, {}, {3}), Pin("done", 19, {-5}, {5}), Pin("done", 15, {}, {7}),
    Pin("done", 14, {-8}, {9}), Pin("done", 28, {}, {11}),
    Pin("done", 26, {-12}, {13}), Pin("cancelled", 62, {}, {}),
    Pin("cancelled", 45, {-20}, {}), Pin("cancelled", 150, {}, {}),
    Pin("done", 268, {}, {259}), Pin("done", 262, {}, {247}),
    Pin("done", 215, {}, {204}), Pin("done", 170, {}, {161}) }

\* The creation days of the tasks pinned to the previous month.
PinnedCreations == [s \in Slots |-> 100 - 5 * s]
=============================================================================
