----------------------------- MODULE MCDemoSeed -----------------------------
(***************************************************************************)
(* Two commands seed one user around two days, beside two edits.           *)
(***************************************************************************)
EXTENDS DemoSeed

CONSTANTS c1, c2, monday, friday

Days == [p \in Commands |-> IF p = c1 THEN monday ELSE friday]
=============================================================================
