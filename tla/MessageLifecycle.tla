-------------------------- MODULE MessageLifecycle --------------------------
(***************************************************************************)
(* What the chat service promises about one user message, seen by a client *)
(* that posts it and reads the chat afterwards: the message is stored at   *)
(* most once as "processing", it reaches at most one terminal status, a    *)
(* reply exists exactly from the step that makes it "sent", the answer to  *)
(* the request agrees with what is stored, and nothing of the request      *)
(* happens after its answer.  ChatTurns implements this.                   *)
(***************************************************************************)
CONSTANT Turns

VARIABLES
  message,  \* the user message of each turn, by its status; "absent" before
  replies,  \* the turns whose reply the chat shows
  answer    \* what the client of each turn was told

vars == <<message, replies, answer>>

Open(t) == answer[t] = "none"

Init ==
  /\ message = [t \in Turns |-> "absent"]
  /\ replies = {}
  /\ answer = [t \in Turns |-> "none"]

Accept(t) ==
  /\ Open(t) /\ message[t] = "absent"
  /\ message' = [message EXCEPT ![t] = "processing"]
  /\ UNCHANGED replies

\* The message becomes "sent" and its reply appears, in one step.
Deliver(t) ==
  /\ Open(t) /\ message[t] = "processing"
  /\ message' = [message EXCEPT ![t] = "sent"]
  /\ replies' = replies \cup {t}

Fail(t) ==
  /\ Open(t) /\ message[t] = "processing"
  /\ message' = [message EXCEPT ![t] = "failed"]
  /\ UNCHANGED replies

Keep == UNCHANGED <<message, replies>>

\* What may be said of a message, given what is stored when it is said.  A
\* client left without a verdict ("unavailable", "error", "lost") may find the
\* message in any message.
Truthful(r, s) ==
  \/ r = "ok" /\ s = "sent"
  \/ r = "llm_failed" /\ s = "failed"
  \/ r = "rejected" /\ s = "absent"
  \/ r \in {"unavailable", "error", "lost"}

\* A write step of the request may also be its last one.
Step(t) ==
  /\ Accept(t) \/ Deliver(t) \/ Fail(t) \/ Keep
  /\ Open(t)
  /\ \/ UNCHANGED answer
     \/ \E r \in {"ok", "llm_failed", "rejected", "unavailable", "error", "lost"} :
          /\ Truthful(r, message'[t])
          /\ answer' = [answer EXCEPT ![t] = r]

Next == \E t \in Turns : Step(t)

Spec == Init /\ [][Next]_vars
=============================================================================
