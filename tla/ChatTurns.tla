------------------------------ MODULE ChatTurns ------------------------------
(***************************************************************************)
(* Turns of the chat service: every POST of a user message to a chat runs  *)
(* SendMessageUseCase.execute, and any number of them run at once, in one  *)
(* server process or in several, against the same YDB tables.  An action   *)
(* is what happens between two awaits: one datastore call, one model run   *)
(* or one transaction, and the code up to the next call.                   *)
(*                                                                         *)
(* A datastore call may fail before or after it took effect, a transaction *)
(* may be aborted and replayed, or be committed and its acknowledgement be *)
(* lost, and the process serving a turn may die between any two steps.     *)
(***************************************************************************)
EXTENDS Naturals, FiniteSets

CONSTANTS
  Turns,         \* the requests that ever arrive
  Chats, Users,
  NoOne,         \* owner of a chat that does not exist; also "no turn"
  ChatOf,        \* the chat each request is posted to
  CallerOf,      \* the authenticated principal of each request
  OwnerOf,       \* the owner of each chat
  HistoryLimit,  \* AGENT_HISTORY_LIMIT
  MaxAttempts,   \* how often the driver runs one transaction before giving up
  Faults         \* which of "datastore", "model", "defect", "crash" can happen

ASSUME ConstantsAssumption ==
  /\ ChatOf \in [Turns -> Chats]
  /\ CallerOf \in [Turns -> Users]
  /\ OwnerOf \in [Chats -> Users \cup {NoOne}]
  /\ NoOne \notin Turns \cup Users
  /\ HistoryLimit \in Nat \ {0}
  /\ MaxAttempts \in Nat \ {0}
  /\ Faults \subseteq {"datastore", "model", "defect", "crash"}

VARIABLES
  status,     \* messages table: status of the user message of each turn
  replied,    \* messages table: the turns whose assistant message is stored
  touched,    \* chats table: updated_at of each chat
  context,    \* chat_agent_context table: the turn that recorded the state
  clock,      \* readings of the clock so far; the next reading is later
  pc,         \* where each turn is
  createdAt,  \* created_at of the user message of each turn
  draftAt,    \* created_at of the assistant message of each turn
  history,    \* the stored messages a turn loaded for the model
  shown,      \* the turn whose state the system message of a turn shows
  captured,   \* whether the trace of a turn holds a successful windowed query
  attempts,   \* runs of the transaction of a turn so far
  response,   \* what the client of each turn was answered
  known       \* history variable: turns of the chat answered "ok" when t began

tables == <<status, replied, touched, context>>
locals == <<createdAt, draftAt, history, shown, captured, attempts>>
vars == <<tables, clock, pc, locals, response, known>>

Roles == {"user", "assistant"}
Statuses == {"absent", "processing", "sent", "failed"}
Places == {"arriving", "loading", "storing", "reading", "rendering", "thinking",
           "committing", "marking", "recording", "done"}
Responses == {"none", "ok", "llm_failed", "rejected", "unavailable", "error", "lost"}

Messages == Turns \X Roles

Stored(m) == IF m[2] = "user" THEN status[m[1]] # "absent" ELSE m[1] \in replied
TimeOf(m) == IF m[2] = "user" THEN createdAt[m[1]] ELSE draftAt[m[1]]
MessagesOf(c) == {m \in Messages : ChatOf[m[1]] = c /\ Stored(m)}

\* find_recent_by_chat_id from its beginning instead of its tail.
OldestMessages(c) ==
  {m \in MessagesOf(c) :
     Cardinality({n \in MessagesOf(c) : TimeOf(n) < TimeOf(m)}) < HistoryLimit}

\* find_recent_by_chat_id: the HistoryLimit newest messages of the chat.
RecentMessages(c) ==
  {m \in MessagesOf(c) :
     Cardinality({n \in MessagesOf(c) : TimeOf(n) > TimeOf(m)}) < HistoryLimit}

-----------------------------------------------------------------------------
Init ==
  /\ status = [t \in Turns |-> "absent"]
  /\ replied = {}
  /\ touched = [c \in Chats |-> 0]
  /\ context = [c \in Chats |-> NoOne]
  /\ clock = 0
  /\ pc = [t \in Turns |-> "arriving"]
  /\ createdAt = [t \in Turns |-> 0]
  /\ draftAt = [t \in Turns |-> 0]
  /\ history = [t \in Turns |-> {}]
  /\ shown = [t \in Turns |-> NoOne]
  /\ captured = [t \in Turns |-> FALSE]
  /\ attempts = [t \in Turns |-> 0]
  /\ response = [t \in Turns |-> "none"]
  /\ known = [t \in Turns |-> {}]

\* The turn goes on to its next call.
Goto(t, place) ==
  /\ pc' = [pc EXCEPT ![t] = place]
  /\ UNCHANGED response

\* The turn ends and its client is answered.
Answer(t, r) ==
  /\ pc' = [pc EXCEPT ![t] = "done"]
  /\ response' = [response EXCEPT ![t] = r]

At(t, place) == pc[t] = place
DatastoreFails == "datastore" \in Faults

\* update_status is an UPDATE: it changes a stored row and never creates one.
SetStatus(t, s) ==
  status' = [status EXCEPT ![t] = IF @ = "absent" THEN @ ELSE s]

\* The transaction of a turn failed: the driver runs it again, or reports.
ReplayOrGiveUp(t) ==
  /\ DatastoreFails
  /\ \/ attempts[t] + 1 < MaxAttempts /\ Goto(t, pc[t])
     \/ Answer(t, "unavailable")

CountAttempt(t) == attempts' = [attempts EXCEPT ![t] = @ + 1]

-----------------------------------------------------------------------------
(* Mistakes in single steps that the checked properties tell from the code. *)

\* The model failed and the client is told, but the message is left as it is.
RunModelUnmarked(t) ==
  /\ At(t, "thinking")
  /\ UNCHANGED <<tables, createdAt, history, shown, attempts, known>>
  /\ \/ /\ clock' = clock + 1
        /\ draftAt' = [draftAt EXCEPT ![t] = clock + 1]
        /\ \E windowed \in BOOLEAN : captured' = [captured EXCEPT ![t] = windowed]
        /\ Goto(t, "committing")
     \/ /\ "model" \in Faults
        /\ Answer(t, "llm_failed")
        /\ UNCHANGED <<clock, draftAt, captured>>

\* The model failed and the client is told before the message is marked.
RunModelAnswerFirst(t) ==
  /\ At(t, "thinking")
  /\ UNCHANGED <<tables, createdAt, history, shown, attempts, known>>
  /\ \/ /\ clock' = clock + 1
        /\ draftAt' = [draftAt EXCEPT ![t] = clock + 1]
        /\ \E windowed \in BOOLEAN : captured' = [captured EXCEPT ![t] = windowed]
        /\ Goto(t, "committing")
     \/ /\ "model" \in Faults
        /\ pc' = [pc EXCEPT ![t] = "marking"]
        /\ response' = [response EXCEPT ![t] = "unavailable"]
        /\ UNCHANGED <<clock, draftAt, captured>>

\* An operation of the transaction is called without tx and stays behind.
AbortLeavesStatus(t) ==
  /\ pc[t] \in {"committing", "marking"}
  /\ IF At(t, "committing") THEN SetStatus(t, "sent") ELSE UNCHANGED status
  /\ ReplayOrGiveUp(t)
  /\ CountAttempt(t)
  /\ UNCHANGED <<replied, touched, context, clock, createdAt, draftAt, history, shown,
                 captured, known>>

\* The error code of the answer is stored as the status of the message.
MarkFailedWithCode(t) ==
  /\ At(t, "marking")
  /\ SetStatus(t, "llm_failed")
  /\ Answer(t, "llm_failed") \/ ReplayOrGiveUp(t)
  /\ CountAttempt(t)
  /\ UNCHANGED <<replied, touched, context, clock, createdAt, draftAt, history, shown,
                 captured, known>>

\* A commit that failed is handled like a model failure.
AbortMarksFailed(t) ==
  /\ pc[t] \in {"committing", "marking"}
  /\ ReplayOrGiveUp(t)
  /\ IF pc'[t] = "done" THEN SetStatus(t, "failed") ELSE UNCHANGED status
  /\ CountAttempt(t)
  /\ UNCHANGED <<replied, touched, context, clock, createdAt, draftAt, history, shown,
                 captured, known>>

\* A commit that failed is logged and the turn goes on.
AbortIgnored(t) ==
  /\ pc[t] \in {"committing", "marking"}
  /\ DatastoreFails
  /\ Goto(t, "recording")
  /\ CountAttempt(t)
  /\ UNCHANGED <<tables, clock, createdAt, draftAt, history, shown, captured, known>>

\* The count of the replays begins anew with every abort.
AbortRestartsCount(t) ==
  /\ pc[t] \in {"committing", "marking"}
  /\ DatastoreFails
  /\ Goto(t, pc[t])
  /\ attempts' = [attempts EXCEPT ![t] = 0]
  /\ UNCHANGED <<tables, clock, createdAt, draftAt, history, shown, captured, known>>

\* The chat is touched with the time of the question instead of the reply.
CommitTouchesAtQuestion(t) ==
  /\ At(t, "committing")
  /\ SetStatus(t, "sent")
  /\ replied' = replied \cup {t}
  /\ touched' = [touched EXCEPT ![ChatOf[t]] = createdAt[t]]
  /\ Goto(t, "recording") \/ ReplayOrGiveUp(t)
  /\ CountAttempt(t)
  /\ UNCHANGED <<context, clock, createdAt, draftAt, history, shown, captured, known>>

-----------------------------------------------------------------------------
\* The request arrives; one whose text is empty or too long goes no further.
Arrive(t) ==
  /\ At(t, "arriving")
  /\ known' = [known EXCEPT ![t] =
       {u \in Turns : ChatOf[u] = ChatOf[t] /\ response[u] = "ok"}]
  /\ Goto(t, "loading") \/ Answer(t, "rejected")
  /\ UNCHANGED <<tables, clock, locals>>

\* _load_owned_chat refuses a missing chat and a chat of another owner; then
\* the clock is read for the user message.
LoadChat(t) ==
  /\ At(t, "loading")
  /\ UNCHANGED <<tables, draftAt, history, shown, captured, attempts, known>>
  /\ \/ /\ OwnerOf[ChatOf[t]] = CallerOf[t]
        /\ clock' = clock + 1
        /\ createdAt' = [createdAt EXCEPT ![t] = clock + 1]
        /\ Goto(t, "storing")
     \/ /\ OwnerOf[ChatOf[t]] # CallerOf[t]
        /\ Answer(t, "rejected")
        /\ UNCHANGED <<clock, createdAt>>
     \/ /\ DatastoreFails
        /\ Answer(t, "unavailable")
        /\ UNCHANGED <<clock, createdAt>>

\* The user message is saved as "processing".  A save that failed may have
\* written the row all the same.
StoreMessage(t) ==
  /\ At(t, "storing")
  /\ UNCHANGED <<replied, touched, context, clock, locals, known>>
  /\ \/ /\ status' = [status EXCEPT ![t] = "processing"]
        /\ Goto(t, "reading") \/ (DatastoreFails /\ Answer(t, "unavailable"))
     \/ /\ DatastoreFails
        /\ Answer(t, "unavailable")
        /\ UNCHANGED status

\* The recent history is loaded.
LoadHistory(t) ==
  /\ At(t, "reading")
  /\ UNCHANGED <<tables, clock, createdAt, draftAt, shown, captured, attempts, known>>
  /\ \/ /\ history' = [history EXCEPT ![t] = RecentMessages(ChatOf[t])]
        /\ Goto(t, "rendering")
     \/ /\ DatastoreFails
        /\ Answer(t, "unavailable")
        /\ UNCHANGED history

\* The context blocks are rendered; a block that cannot be read is left out.
RenderContext(t) ==
  /\ At(t, "rendering")
  /\ \/ shown' = [shown EXCEPT ![t] = context[ChatOf[t]]]
     \/ DatastoreFails /\ UNCHANGED shown
  /\ Goto(t, "thinking")
  /\ UNCHANGED <<tables, clock, createdAt, draftAt, history, captured, attempts, known>>

\* The agent loop answers, the model fails (LLMServiceError), or the loop finds
\* a defect (any other exception, which no handler of the turn catches).  With
\* an answer, the clock is read for the assistant message.
RunModel(t) ==
  /\ At(t, "thinking")
  /\ UNCHANGED <<tables, createdAt, history, shown, attempts, known>>
  /\ \/ /\ clock' = clock + 1
        /\ draftAt' = [draftAt EXCEPT ![t] = clock + 1]
        /\ \E windowed \in BOOLEAN : captured' = [captured EXCEPT ![t] = windowed]
        /\ Goto(t, "committing")
     \/ /\ "model" \in Faults
        /\ Goto(t, "marking")
        /\ UNCHANGED <<clock, draftAt, captured>>
     \/ /\ "defect" \in Faults
        /\ Answer(t, "error")
        /\ UNCHANGED <<clock, draftAt, captured>>

\* _commit_turn: one transaction marks the message "sent", stores the reply and
\* saves the chat row loaded at the start with the time of the reply.
CommitTurn(t) ==
  /\ At(t, "committing")
  /\ SetStatus(t, "sent")
  /\ replied' = replied \cup {t}
  /\ touched' = [touched EXCEPT ![ChatOf[t]] = draftAt[t]]
  /\ Goto(t, "recording") \/ ReplayOrGiveUp(t)
  /\ CountAttempt(t)
  /\ UNCHANGED <<context, clock, createdAt, draftAt, history, shown, captured, known>>

\* _mark_failed, after which the client is told which message failed.
MarkFailed(t) ==
  /\ At(t, "marking")
  /\ SetStatus(t, "failed")
  /\ Answer(t, "llm_failed") \/ ReplayOrGiveUp(t)
  /\ CountAttempt(t)
  /\ UNCHANGED <<replied, touched, context, clock, createdAt, draftAt, history, shown,
                 captured, known>>

\* An attempt of either transaction is rolled back.
AbortTransaction(t) ==
  /\ pc[t] \in {"committing", "marking"}
  /\ ReplayOrGiveUp(t)
  /\ CountAttempt(t)
  /\ UNCHANGED <<tables, clock, createdAt, draftAt, history, shown, captured, known>>

\* The state of the chat is replaced by the turn's own; a turn without a
\* windowed query, a refused value or a failing datastore leaves it alone.
RecordState(t) ==
  /\ At(t, "recording")
  /\ \/ /\ captured[t]
        /\ context' = [context EXCEPT ![ChatOf[t]] = t]
     \/ /\ ~captured[t] \/ DatastoreFails
        /\ UNCHANGED context
  /\ Answer(t, "ok")
  /\ UNCHANGED <<status, replied, touched, clock, locals, known>>

\* The process serving the turn dies; nothing resumes the turn.
Crash(t) ==
  /\ "crash" \in Faults
  /\ pc[t] \notin {"arriving", "done"}
  /\ Answer(t, "lost")
  /\ UNCHANGED <<tables, clock, locals, known>>

Step(t) ==
  \/ Arrive(t) \/ LoadChat(t) \/ StoreMessage(t) \/ LoadHistory(t)
  \/ RenderContext(t) \/ RunModel(t) \/ CommitTurn(t) \/ MarkFailed(t)
  \/ AbortTransaction(t) \/ RecordState(t)

Next == \E t \in Turns : Step(t) \/ Crash(t)

\* A turn keeps running: every call it awaits has a timeout.
Fairness == \A t \in Turns : WF_vars(Step(t))

Spec == Init /\ [][Next]_vars
FairSpec == Spec /\ Fairness

-----------------------------------------------------------------------------
TypeOK ==
  /\ status \in [Turns -> Statuses]
  /\ replied \subseteq Turns
  /\ touched \in [Chats -> Nat]
  /\ context \in [Chats -> Turns \cup {NoOne}]
  /\ clock \in Nat
  /\ pc \in [Turns -> Places]
  /\ createdAt \in [Turns -> Nat]
  /\ draftAt \in [Turns -> Nat]
  /\ history \in [Turns -> SUBSET Messages]
  /\ shown \in [Turns -> Turns \cup {NoOne}]
  /\ captured \in [Turns -> BOOLEAN]
  /\ attempts \in [Turns -> Nat]
  /\ response \in [Turns -> Responses]
  /\ known \in [Turns -> SUBSET Turns]

\* _commit_turn promises "either the reply exists and the user message is
\* sent, or neither happened", whatever is replayed, lost or cut short.
SentIffReplied == \A t \in Turns : status[t] = "sent" <=> t \in replied

\* The answer to a request agrees with the tables, then and ever after: a
\* reply was returned only if it is stored, a failure of the model was reported
\* only if the message is stored as failed, a refused request left nothing.
AnswersMatchTables ==
  \A t \in Turns :
    /\ response[t] = "ok" => status[t] = "sent"
    /\ response[t] = "llm_failed" => status[t] = "failed"
    /\ response[t] = "rejected" => status[t] = "absent"

\* The conversation state of a chat comes from a turn of that chat whose reply
\* is stored and whose trace held a windowed query; so does the state shown to
\* a later turn.
StateOfAnsweredTurn ==
  /\ \A c \in Chats : context[c] # NoOne =>
       /\ ChatOf[context[c]] = c
       /\ status[context[c]] = "sent"
       /\ captured[context[c]]
  /\ \A t \in Turns : shown[t] # NoOne =>
       ChatOf[shown[t]] = ChatOf[t] /\ status[shown[t]] = "sent"

\* Where a turn is tells what its message can be: a turn that waits for the
\* model has its message "processing", one that replays its transaction may
\* have committed it already, and the two terminal branches never mix.
PlaceMatchesStatus ==
  \A t \in Turns :
    /\ pc[t] \in {"arriving", "loading", "storing"} => status[t] = "absent"
    /\ pc[t] \in {"reading", "rendering", "thinking"} => status[t] = "processing"
    /\ pc[t] = "committing" => status[t] \in {"processing", "sent"}
    /\ pc[t] = "marking" => status[t] \in {"processing", "failed"}
    /\ pc[t] = "recording" => status[t] = "sent"
    /\ pc[t] = "done" <=> response[t] # "none"

\* updated_at of a chat is the time of a reply stored in it, if there is one:
\* saving the chat row loaded at the start of a turn never brings it back.
TouchedByReply ==
  \A c \in Chats :
    LET replies == {t \in replied : ChatOf[t] = c}
    IN  IF replies = {} THEN touched[c] = 0
        ELSE touched[c] \in {draftAt[t] : t \in replies}

\* A turn that begins after an earlier turn of the chat was answered shows the
\* model that answer, and its own question, unless newer messages fill the
\* history.
EarlierAnswersShown ==
  \A t \in Turns : history[t] # {} =>
    \A m \in {<<u, "assistant">> : u \in known[t]} \cup {<<t, "user">>} :
      \/ m \in history[t]
      \/ Cardinality({n \in history[t] : TimeOf(n) > TimeOf(m)}) >= HistoryLimit

\* A turn is atomic for its client and for the tables.
TurnsAreAtomic == SentIffReplied /\ AnswersMatchTables

\* What a turn leaves in the row of its chat, and in the state of the chat, is what
\* an answered turn of that chat left.
ChatRowsComeFromAnsweredTurns == TouchedByReply /\ StateOfAnsweredTurn

\* A terminal status is written once: it is never taken back or exchanged, by a
\* replay, a late failure or another turn.
TerminalIsFinal ==
  [][\A t \in Turns : status[t] \in {"sent", "failed"} => status'[t] = status[t]]_vars

\* The promise of the service to its clients, read off the tables and the answers.
Promise == INSTANCE MessageLifecycle
             WITH message <- status, replies <- replied, answer <- response
Promised == Promise!Spec

\* Every request is answered, unless its process dies.
EveryRequestAnswered == \A t \in Turns : (pc[t] = "loading") ~> (response[t] # "none")

\* A message stays "processing" only when the datastore, a defect or the death of
\* the process ended its turn: a turn that only the model fails settles it.
EveryMessageSettles ==
  \A t \in Turns : (status[t] = "processing") ~>
    (status[t] \in {"sent", "failed"} \/ response[t] \in {"unavailable", "error", "lost"})
=============================================================================
