----------------------------- MODULE MCTaskQuery -----------------------------
(***************************************************************************)
(* Small instances of TaskQuery: three days of two, one and two instants,  *)
(* a Sunday, a Monday that ends a month and the Tuesday that starts one;   *)
(* "home" is the name of a project and part of another one's.              *)
(***************************************************************************)
EXTENDS TaskQuery

CONSTANTS home, office

Midnights == [d \in 0..3 |-> CASE d = 0 -> 0 [] d = 1 -> 2 [] d = 2 -> 3 [] d = 3 -> 5]

Named == [home |-> {home}, work |-> {}, garden |-> {}]
Mentioned == [home |-> {home, office}, work |-> {office}, garden |-> {}]

Months == [d \in 0..2 |-> IF d = 2 THEN 2 ELSE 1]

Task(c, u, d, f, s, p) == [created |-> c, updated |-> u, due |-> d, completed |-> f,
                           status |-> s, project |-> p]
SomeRows == {Task(0, 0, 1, None, "open", home), Task(0, 1, 4, None, "open", None),
             Task(1, 2, None, 2, "done", office), Task(1, 4, 3, 4, "done", home),
             Task(2, 3, None, None, "cancelled", home)}

Query(a, f, t, r, s, v) == [tool |-> "query", axis |-> a, from |-> f, to |-> t,
                            reference |-> r, statuses |-> s, view |-> v, group |-> "none"]
Grouped(a, g) == [Query(a, None, None, None, {}, "summary") EXCEPT !.group = g]
Page(a, f, t, p, s, l, o) == [tool |-> "page", axis |-> a, from |-> f, to |-> t,
                              project |-> p, statuses |-> s, limit |-> l, offset |-> o]
Whole == {<<None, None>>}
Periods == {<<f, t>> : f \in {None, 1, 2}, t \in {None, 0, 1}}

\* Every period without a filter, some periods with one filter or two, and pages.
SomeQuestions ==
  {Query(a, w[1], w[2], None, {}, "list") : a \in Axes, w \in Periods}
  \cup {Query(a, w[1], w[2], r, {}, "list") :
          a \in Axes, w \in Whole \cup {<<1, 1>>}, r \in {"home", "garden"}}
  \cup {Query(a, w[1], w[2], r, s, "list") :
          a \in Axes, w \in Whole \cup {<<None, 0>>}, r \in {None, "home"},
          s \in {{"done"}, {"open", "cancelled"}}}
  \cup {Query("due", None, None, r, {}, "summary") : r \in {"home", "work"}}
  \cup {Query("due", None, None, "work", {}, "list"), [tool |-> "projects"]}
  \cup {Grouped(a, g) : a \in {"created", "due"}, g \in Groupings}
  \cup {Page(a, w[1], w[2], None, {}, l, o) :
          a \in {"created", "due"}, w \in Whole \cup {<<1, None>>}, l \in 1..2, o \in 0..1}
  \cup {Page("due", None, None, home, {"open"}, 1, 2)}
=============================================================================
