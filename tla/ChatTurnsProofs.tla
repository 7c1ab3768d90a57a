--------------------------- MODULE ChatTurnsProofs ---------------------------
(***************************************************************************)
(* What holds of ChatTurns for any number of turns, chats and users and    *)
(* for every combination of faults.                                        *)
(***************************************************************************)
EXTENDS ChatTurns, FiniteSetTheorems, WellFoundedInduction, TLAPS

USE DEF At

\* Every message that a turn can load is a message.
LEMMA RecentMessagesType ==
  ASSUME NEW c
  PROVE  RecentMessages(c) \subseteq Messages
  BY DEF RecentMessages, MessagesOf

\* Every variable keeps its type.
LEMMA TypeStep == TypeOK /\ [Next]_vars => TypeOK'
<1> USE ConstantsAssumption DEF TypeOK, Statuses, Places, Responses
<1> SUFFICES ASSUME TypeOK, [Next]_vars PROVE TypeOK'
  OBVIOUS
<1>1. CASE UNCHANGED vars
  BY <1>1 DEF vars, tables, locals
<1>2. ASSUME NEW t \in Turns, Step(t) \/ Crash(t)
      PROVE  TypeOK'
  <2> USE <1>2 DEF Goto, Answer, tables, locals
  <2>1. CASE Arrive(t)
    BY <2>1 DEF Arrive
  <2>2. CASE LoadChat(t)
    BY <2>2 DEF LoadChat
  <2>3. CASE StoreMessage(t)
    BY <2>3 DEF StoreMessage
  <2>4. CASE LoadHistory(t)
    BY <2>4, RecentMessagesType DEF LoadHistory
  <2>5. CASE RenderContext(t)
    BY <2>5 DEF RenderContext
  <2>6. CASE RunModel(t)
    BY <2>6 DEF RunModel
  <2>7. CASE CommitTurn(t)
    <3>1. status' \in [Turns -> Statuses] /\ replied' \subseteq Turns
      BY <2>7 DEF CommitTurn, SetStatus
    <3>2. touched' \in [Chats -> Nat] /\ attempts' \in [Turns -> Nat]
      BY <2>7 DEF CommitTurn, CountAttempt
    <3>3. pc' \in [Turns -> Places] /\ response' \in [Turns -> Responses]
      BY <2>7 DEF CommitTurn, ReplayOrGiveUp
    <3> QED
      BY <2>7, <3>1, <3>2, <3>3 DEF CommitTurn
  <2>8. CASE MarkFailed(t)
    <3>1. status' \in [Turns -> Statuses] /\ attempts' \in [Turns -> Nat]
      BY <2>8 DEF MarkFailed, SetStatus, CountAttempt
    <3>2. pc' \in [Turns -> Places] /\ response' \in [Turns -> Responses]
      BY <2>8 DEF MarkFailed, ReplayOrGiveUp
    <3> QED
      BY <2>8, <3>1, <3>2 DEF MarkFailed
  <2>9. CASE AbortTransaction(t)
    BY <2>9 DEF AbortTransaction, ReplayOrGiveUp, CountAttempt
  <2>10. CASE RecordState(t)
    BY <2>10 DEF RecordState
  <2>11. CASE Crash(t)
    BY <2>11 DEF Crash
  <2> QED
    BY <2>1, <2>2, <2>3, <2>4, <2>5, <2>6, <2>7, <2>8, <2>9, <2>10, <2>11 DEF Step
<1> QED
  BY <1>1, <1>2 DEF Next

\* ChatTurns is type-correct.
THEOREM TypeCorrect == Spec => []TypeOK
<1>1. Init => TypeOK
  BY ConstantsAssumption DEF Init, TypeOK, Statuses, Places, Responses, Messages
<1>2. QED
  BY <1>1, TypeStep, PTL DEF Spec
-----------------------------------------------------------------------------
\* The inductive invariant.  SentIffReplied and AnswersMatchTables are not
\* inductive alone: only the place of a turn tells that a turn about to fail has
\* not been answered by a commit whose acknowledgement was lost.
Outcome == TypeOK /\ SentIffReplied /\ AnswersMatchTables /\ PlaceMatchesStatus

\* The tables are empty at first, and no request has been answered.
LEMMA OutcomeInit == Init => Outcome
<1> SUFFICES ASSUME Init PROVE Outcome
  OBVIOUS
<1>1. TypeOK
  BY ConstantsAssumption DEF Init, TypeOK, Statuses, Places, Responses, Messages
<1>2. QED
  BY <1>1 DEF Init, Outcome, SentIffReplied, AnswersMatchTables, PlaceMatchesStatus

\* Every step of a turn keeps its place, its message, its reply and its answer in
\* agreement.
LEMMA OutcomeStep == Outcome /\ [Next]_vars => Outcome'
<1> SUFFICES ASSUME Outcome, [Next]_vars PROVE Outcome'
  OBVIOUS
<1>1. TypeOK'
  BY TypeStep DEF Outcome
<1>2. CASE UNCHANGED vars
  BY <1>2, <1>1 DEF vars, tables, locals, Outcome, SentIffReplied, AnswersMatchTables,
       PlaceMatchesStatus
<1>3. ASSUME NEW t \in Turns, Step(t) \/ Crash(t)
      PROVE  (SentIffReplied /\ AnswersMatchTables /\ PlaceMatchesStatus)'
  <2> USE <1>3 DEF Outcome, SentIffReplied, AnswersMatchTables, PlaceMatchesStatus, TypeOK,
        Goto, Answer, tables, locals, Statuses, Places, Responses
  <2>1. CASE Arrive(t)
    BY <2>1 DEF Arrive
  <2>2. CASE LoadChat(t)
    BY <2>2 DEF LoadChat
  <2>3. CASE StoreMessage(t)
    BY <2>3 DEF StoreMessage
  <2>4. CASE LoadHistory(t)
    BY <2>4 DEF LoadHistory
  <2>5. CASE RenderContext(t)
    BY <2>5 DEF RenderContext
  <2>6. CASE RunModel(t)
    BY <2>6 DEF RunModel
  <2>7. CASE CommitTurn(t)
    BY <2>7 DEF CommitTurn, SetStatus, ReplayOrGiveUp, CountAttempt
  <2>8. CASE MarkFailed(t)
    BY <2>8 DEF MarkFailed, SetStatus, ReplayOrGiveUp, CountAttempt
  <2>9. CASE AbortTransaction(t)
    BY <2>9 DEF AbortTransaction, ReplayOrGiveUp, CountAttempt
  <2>10. CASE RecordState(t)
    BY <2>10 DEF RecordState
  <2>11. CASE Crash(t)
    BY <2>11 DEF Crash
  <2> QED
    BY <2>1, <2>2, <2>3, <2>4, <2>5, <2>6, <2>7, <2>8, <2>9, <2>10, <2>11 DEF Step
<1> QED
  BY <1>1, <1>2, <1>3 DEF Next, Outcome

\* So they always agree.
LEMMA OutcomeInvariant == Spec => []Outcome
  BY OutcomeInit, OutcomeStep, PTL DEF Spec

\* A user message is "sent" exactly when its reply is stored, and what a client
\* was answered stays true of the tables, whatever is replayed, lost or cut.
THEOREM Atomicity == Spec => []TurnsAreAtomic
<1>1. Outcome => TurnsAreAtomic
  BY DEF Outcome, TurnsAreAtomic
<1> QED
  BY <1>1, OutcomeInvariant, PTL

\* Where a turn is tells what its message can be.
THEOREM PlacesMatch == Spec => []PlaceMatchesStatus
<1>1. Outcome => PlaceMatchesStatus
  BY DEF Outcome
<1> QED
  BY <1>1, OutcomeInvariant, PTL

\* No step takes back or exchanges a terminal status.
THEOREM TerminalStatusIsFinal == Spec => TerminalIsFinal
<1>1. ASSUME Outcome, [Next]_vars
      PROVE  [\A t \in Turns : status[t] \in {"sent", "failed"} => status'[t] = status[t]]_vars
  <2>1. CASE UNCHANGED vars
    BY <2>1
  <2>2. ASSUME NEW t \in Turns, Step(t) \/ Crash(t)
        PROVE  \A u \in Turns : status[u] \in {"sent", "failed"} => status'[u] = status[u]
    BY <2>2, <1>1 DEF Step, Crash, Outcome, PlaceMatchesStatus, TypeOK, tables, Arrive, LoadChat,
         StoreMessage, LoadHistory, RenderContext, RunModel, CommitTurn, MarkFailed,
         AbortTransaction, RecordState, SetStatus
  <2> QED
    BY <1>1, <2>1, <2>2 DEF Next
<1> QED
  BY <1>1, OutcomeInvariant, PTL DEF Spec, TerminalIsFinal
-----------------------------------------------------------------------------
\* updated_at of a chat is the time of a stored reply.  A turn whose reply is
\* stored never reads the clock for it again, so that time stands.
LEMMA TouchedStep == Outcome /\ TouchedByReply /\ [Next]_vars => TouchedByReply'
<1> SUFFICES ASSUME Outcome, TouchedByReply, [Next]_vars PROVE TouchedByReply'
  OBVIOUS
<1> USE ConstantsAssumption DEF Outcome, TouchedByReply, TypeOK
<1>1. CASE UNCHANGED vars
  BY <1>1 DEF vars, tables, locals
<1>2. ASSUME NEW t \in Turns, CommitTurn(t)
      PROVE  TouchedByReply'
  BY <1>2 DEF CommitTurn
<1>3. ASSUME NEW t \in Turns, RunModel(t)
      PROVE  TouchedByReply'
  <2>1. t \notin replied /\ UNCHANGED <<replied, touched>>
    BY <1>3 DEF RunModel, tables, PlaceMatchesStatus, SentIffReplied
  <2>2. \A u \in replied : draftAt'[u] = draftAt[u]
    BY <1>3, <2>1 DEF RunModel
  <2>3. ASSUME NEW c \in Chats
        PROVE  {draftAt'[u] : u \in {v \in replied : ChatOf[v] = c}}
                 = {draftAt[u] : u \in {v \in replied : ChatOf[v] = c}}
    BY <2>2
  <2> QED
    BY <2>1, <2>3
<1>4. ASSUME NEW t \in Turns, Step(t) \/ Crash(t), ~CommitTurn(t), ~RunModel(t)
      PROVE  TouchedByReply'
  <2>1. UNCHANGED <<replied, touched, draftAt>>
    BY <1>4 DEF Step, Crash, Arrive, LoadChat, StoreMessage, LoadHistory, RenderContext,
         MarkFailed, AbortTransaction, RecordState, tables, locals
  <2> QED
    BY <2>1
<1> QED
  BY <1>1, <1>2, <1>3, <1>4 DEF Next

\* The conversation state of a chat is that of a turn answered in it.
LEMMA StateStep == Outcome /\ StateOfAnsweredTurn /\ [Next]_vars => StateOfAnsweredTurn'
<1> SUFFICES ASSUME Outcome, StateOfAnsweredTurn, [Next]_vars PROVE StateOfAnsweredTurn'
  OBVIOUS
<1> USE ConstantsAssumption DEF Outcome, StateOfAnsweredTurn, TypeOK
<1>1. CASE UNCHANGED vars
  BY <1>1 DEF vars, tables, locals
<1>2. ASSUME NEW t \in Turns, Step(t) \/ Crash(t)
      PROVE  StateOfAnsweredTurn'
  <2>1. \A u \in Turns : status[u] = "sent" => status'[u] = "sent"
    BY <1>2 DEF Step, Crash, PlaceMatchesStatus, tables, Arrive, LoadChat, StoreMessage,
         LoadHistory, RenderContext, RunModel, CommitTurn, MarkFailed, AbortTransaction,
         RecordState, SetStatus
  <2>2. \A u \in Turns : status[u] = "sent" => captured'[u] = captured[u]
    BY <1>2 DEF Step, Crash, PlaceMatchesStatus, locals, Arrive, LoadChat, StoreMessage,
         LoadHistory, RenderContext, RunModel, CommitTurn, MarkFailed, AbortTransaction,
         RecordState
  <2>3. CASE RenderContext(t)
    BY <2>3 DEF RenderContext, tables
  <2>4. CASE RecordState(t)
    BY <2>4 DEF RecordState, locals, PlaceMatchesStatus
  <2>5. CASE ~RenderContext(t) /\ ~RecordState(t)
    <3>1. UNCHANGED <<context, shown>>
      BY <1>2, <2>5 DEF Step, Crash, Arrive, LoadChat, StoreMessage, LoadHistory, RunModel,
           CommitTurn, MarkFailed, AbortTransaction, tables, locals
    <3> QED
      BY <3>1, <2>1, <2>2
  <2> QED
    BY <2>3, <2>4, <2>5
<1> QED
  BY <1>1, <1>2 DEF Next

\* updated_at of a chat is the time of a reply stored in it, and the state kept
\* for a chat, or shown to a turn of it, comes from an answered turn of the chat.
THEOREM ChatRows == Spec => []ChatRowsComeFromAnsweredTurns
<1>1. Init => TouchedByReply /\ StateOfAnsweredTurn
  BY ConstantsAssumption DEF Init, TouchedByReply, StateOfAnsweredTurn
<1>2. TouchedByReply /\ StateOfAnsweredTurn => ChatRowsComeFromAnsweredTurns
  BY DEF ChatRowsComeFromAnsweredTurns
<1> QED
  BY <1>1, <1>2, OutcomeInvariant, TouchedStep, StateStep, PTL DEF Spec

-----------------------------------------------------------------------------
\* One step of a turn is a step of the promise, or changes nothing it speaks of.
LEMMA PromiseStep == Outcome /\ Outcome' /\ [Next]_vars => [Promise!Next]_(Promise!vars)
<1> SUFFICES ASSUME Outcome, Outcome', [Next]_vars
             PROVE  [Promise!Next]_(Promise!vars)
  OBVIOUS
<1>1. CASE UNCHANGED vars
  BY <1>1 DEF vars, tables, Promise!vars
<1>2. ASSUME NEW t \in Turns, Step(t) \/ Crash(t)
      PROVE  Promise!Step(t)
  <2> USE DEF Outcome, TypeOK, PlaceMatchesStatus, AnswersMatchTables, Goto, Answer, tables,
        Promise!Open, Promise!Keep, Promise!Truthful, Promise!Step, Statuses, Responses
  <2>1. CASE Arrive(t)
    BY <2>1 DEF Arrive
  <2>2. CASE LoadChat(t)
    BY <2>2 DEF LoadChat
  <2>3. CASE StoreMessage(t)
    BY <2>3 DEF StoreMessage, Promise!Accept
  <2>4. CASE LoadHistory(t)
    BY <2>4 DEF LoadHistory
  <2>5. CASE RenderContext(t)
    BY <2>5 DEF RenderContext
  <2>6. CASE RunModel(t)
    BY <2>6 DEF RunModel
  <2>7. CASE CommitTurn(t)
    <3>1. /\ status[t] \in {"processing", "sent"}
          /\ status' = [status EXCEPT ![t] = "sent"]
          /\ replied' = replied \cup {t}
          /\ response[t] = "none"
      BY <2>7 DEF CommitTurn, SetStatus
    <3>2. Promise!Deliver(t) \/ Promise!Keep
      <4>1. CASE status[t] = "processing"
        BY <4>1, <3>1 DEF Promise!Deliver
      <4>2. CASE status[t] = "sent"
        BY <4>2, <3>1 DEF SentIffReplied
      <4> QED
        BY <3>1, <4>1, <4>2
    <3>3. UNCHANGED response \/ response' = [response EXCEPT ![t] = "unavailable"]
      BY <2>7 DEF CommitTurn, ReplayOrGiveUp
    <3> QED
      BY <3>1, <3>2, <3>3
  <2>8. CASE MarkFailed(t)
    <3>1. /\ status[t] \in {"processing", "failed"}
          /\ status' = [status EXCEPT ![t] = "failed"]
          /\ UNCHANGED replied
          /\ response[t] = "none"
      BY <2>8 DEF MarkFailed, SetStatus
    <3>2. Promise!Fail(t) \/ Promise!Keep
      BY <3>1 DEF Promise!Fail
    <3>3. \/ UNCHANGED response
          \/ response' = [response EXCEPT ![t] = "unavailable"]
          \/ response' = [response EXCEPT ![t] = "llm_failed"]
      BY <2>8 DEF MarkFailed, ReplayOrGiveUp
    <3> QED
      BY <3>1, <3>2, <3>3
  <2>9. CASE AbortTransaction(t)
    BY <2>9 DEF AbortTransaction, ReplayOrGiveUp
  <2>10. CASE RecordState(t)
    BY <2>10 DEF RecordState
  <2>11. CASE Crash(t)
    BY <2>11 DEF Crash
  <2> QED
    BY <1>2, <2>1, <2>2, <2>3, <2>4, <2>5, <2>6, <2>7, <2>8, <2>9, <2>10, <2>11 DEF Step
<1> QED
  BY <1>1, <1>2 DEF Next, Promise!Next

\* The turns implement the promise of the service to its clients.
THEOREM PromiseKept == Spec => Promised
<1>1. Init => Promise!Init
  BY DEF Init, Promise!Init
<1>2. QED
  BY <1>1, OutcomeInvariant, PromiseStep, PTL DEF Spec, Promised, Promise!Spec
-----------------------------------------------------------------------------
LEMMA SmallestExists ==
  ASSUME NEW S \in SUBSET Nat, S # {}
  PROVE  \E x \in S : \A y \in S : x <= y
<1>1. PICK x \in S : \A y \in S : <<y, x>> \notin OpToRel(<, Nat)
  BY WFMin, NatLessThanWellFounded, Zenon
<1>2. \A y \in S : ~(y < x)
  BY <1>1, Zenon DEF OpToRel
<1> QED BY <1>2

\* Of finitely many members with a time, those with fewer than k later ones are
\* kept.  What is not kept has k later ones among the kept: equal times are kept or
\* left together, so no order between them is needed.
LEMMA KeptFillTheLimit ==
  ASSUME NEW S, IsFiniteSet(S), NEW time \in [S -> Nat], NEW k \in Nat,
         NEW m \in S, ~(Cardinality({n \in S : time[n] > time[m]}) < k)
  PROVE  LET kept == {x \in S : Cardinality({n \in S : time[n] > time[x]}) < k}
         IN  Cardinality({n \in kept : time[n] > time[m]}) >= k
<1> DEFINE Later(x) == {n \in S : time[n] > time[x]}
           rank == [x \in S |-> Cardinality(Later(x))]
           kept == {x \in S : rank[x] < k}
           last == {n \in kept : time[n] > time[m]}
<1>1. \A x \in S : Later(x) \in SUBSET S /\ IsFiniteSet(Later(x))
  BY FS_Subset
<1>2. rank \in [S -> Nat]
  BY <1>1, FS_CardinalityType
<1>3. PICK x \in S \ kept : \A y \in S \ kept : rank[x] <= rank[y]
  <2> DEFINE ranks == {rank[y] : y \in S \ kept}
  <2> HIDE DEF rank
  <2>1. ranks \in SUBSET Nat
    BY <1>2
  <2>2. m \in S \ kept
    BY DEF rank
  <2>3. ranks # {}
    BY <2>2
  <2>4. PICK r \in ranks : \A z \in ranks : r <= z
    <3> HIDE DEF ranks
    <3> QED BY <2>1, <2>3, SmallestExists
  <2> QED BY <2>4
<1>4. ASSUME NEW y \in Later(x)
      PROVE  y \in kept
  <2>1. Later(y) \in SUBSET Later(x) /\ y \in Later(x) /\ y \notin Later(y)
    OBVIOUS
  <2>2. Cardinality(Later(y)) <= Cardinality(Later(x))
        /\ Cardinality(Later(y)) # Cardinality(Later(x))
    <3> HIDE DEF Later
    <3> QED BY <2>1, <1>1, FS_Subset
  <2>3. rank[y] = Cardinality(Later(y)) /\ rank[x] = Cardinality(Later(x))
    OBVIOUS
  <2> HIDE DEF rank
  <2>4. rank[y] < rank[x]
    BY <2>2, <2>3, <1>2
  <2> QED BY <2>4, <1>2, <1>3
<1>5. m \notin kept
  OBVIOUS
<1>6. Later(x) \in SUBSET last
  <2> HIDE DEF rank
  <2> QED BY <1>3, <1>4, <1>5
<1>7. IsFiniteSet(last)
  BY FS_Subset
<1>8. Cardinality(Later(x)) <= Cardinality(last)
  <2> HIDE DEF last, Later
  <2> QED BY <1>6, <1>7, FS_Subset
<1>9. ~(Cardinality(Later(x)) < k)
  OBVIOUS
<1>10. Cardinality(last) \in Nat /\ Cardinality(Later(x)) \in Nat
  BY <1>1, <1>7, FS_CardinalityType
<1>11. Cardinality(last) >= k
  <2> HIDE DEF last, Later
  <2> QED BY <1>8, <1>9, <1>10
<1> QED BY <1>11

\* Only finitely many messages are stored at any time.
StoredTurns == {t \in Turns : status[t] # "absent"}

\* What a turn loaded is stored, its own question with it, and the turns answered
\* before it began are stored with their replies.
Loaded ==
  /\ IsFiniteSet(StoredTurns)
  /\ \A t \in Turns : \A u \in known[t] : ChatOf[u] = ChatOf[t] /\ status[u] = "sent"
  /\ \A t \in Turns : \A m \in history[t] : Stored(m)
  /\ \A t \in Turns : history[t] # {} => status[t] # "absent"

\* A stored message keeps its place in time and stays stored.
LEMMA StoredForGood ==
  ASSUME Outcome, NEW t \in Turns, Step(t) \/ Crash(t), NEW m \in Messages, Stored(m)
  PROVE  Stored(m)' /\ TimeOf(m)' = TimeOf(m)
<1> USE DEF Outcome, TypeOK, PlaceMatchesStatus, SentIffReplied, Stored, TimeOf, Messages, Roles,
      tables, locals
<1>1. m[1] \in Turns /\ m[2] \in Roles
  OBVIOUS
<1>2. status[m[1]] # "absent"
  BY <1>1
<1>3. status'[m[1]] # "absent" /\ (m[1] \in replied => m[1] \in replied')
  BY <1>1, <1>2 DEF Step, Crash, Arrive, LoadChat, StoreMessage, LoadHistory, RenderContext,
       RunModel, CommitTurn, MarkFailed, AbortTransaction, RecordState, SetStatus
<1>4. createdAt'[m[1]] = createdAt[m[1]]
  BY <1>1, <1>2 DEF Step, Crash, Arrive, LoadChat, StoreMessage, LoadHistory, RenderContext,
       RunModel, CommitTurn, MarkFailed, AbortTransaction, RecordState
<1>5. m[1] \in replied => draftAt'[m[1]] = draftAt[m[1]]
  BY <1>1, <1>2 DEF Step, Crash, Arrive, LoadChat, StoreMessage, LoadHistory, RenderContext,
       RunModel, CommitTurn, MarkFailed, AbortTransaction, RecordState
<1> QED BY <1>1, <1>3, <1>4, <1>5

\* Every step adds at most the message of one turn, and a history is loaded when
\* everything of the earlier turns and the question itself are stored.
LEMMA LoadedStep == Outcome /\ Loaded /\ [Next]_vars => Loaded'
<1> SUFFICES ASSUME Outcome, Loaded, [Next]_vars PROVE Loaded'
  OBVIOUS
<1>1. CASE UNCHANGED vars
  BY <1>1 DEF vars, tables, locals, Loaded, StoredTurns, Stored
<1>2. ASSUME NEW t \in Turns, Step(t) \/ Crash(t)
      PROVE  Loaded'
  <2>1. IsFiniteSet(StoredTurns)'
    <3>1. StoredTurns' \in SUBSET (StoredTurns \cup {t})
      BY <1>2 DEF Outcome, TypeOK, StoredTurns, tables, Step, Crash, Arrive, LoadChat,
           StoreMessage, LoadHistory, RenderContext, RunModel, CommitTurn, MarkFailed,
           AbortTransaction, RecordState, SetStatus
    <3>2. IsFiniteSet(StoredTurns \cup {t})
      BY FS_AddElement DEF Loaded
    <3> QED BY <3>1, <3>2, FS_Subset
  <2>2. \A u \in Turns : status[u] = "sent" => status'[u] = "sent"
    BY <1>2 DEF Outcome, PlaceMatchesStatus, TypeOK, tables, Step, Crash, Arrive, LoadChat,
         StoreMessage, LoadHistory, RenderContext, RunModel, CommitTurn, MarkFailed,
         AbortTransaction, RecordState, SetStatus
  <2>3. ASSUME NEW u \in Turns, NEW v \in known'[u]
        PROVE  v \in Turns /\ ChatOf[v] = ChatOf[u] /\ status'[v] = "sent"
    <3>1. CASE Arrive(t) /\ u = t
      BY <3>1, <2>2 DEF Arrive, Outcome, TypeOK, AnswersMatchTables
    <3>2. CASE ~Arrive(t) \/ u # t
      <4>1. known'[u] = known[u]
        BY <1>2, <3>2 DEF Outcome, TypeOK, Step, Crash, Arrive, LoadChat, StoreMessage,
             LoadHistory, RenderContext, RunModel, CommitTurn, MarkFailed, AbortTransaction,
             RecordState
      <4> QED BY <4>1, <2>2 DEF Loaded, Outcome, TypeOK
    <3> QED BY <3>1, <3>2
  <2>4. ASSUME NEW u \in Turns
        PROVE  /\ \A m \in history'[u] : m \in Messages /\ Stored(m)'
               /\ history'[u] # {} => status'[u] # "absent"
    <3>1. CASE history'[u] = history[u]
      <4>1. \A m \in history[u] : m \in Messages /\ Stored(m)'
        BY <1>2, StoredForGood DEF Loaded, Outcome, TypeOK
      <4>2. status[u] # "absent" => status'[u] # "absent"
        BY <1>2 DEF Outcome, PlaceMatchesStatus, TypeOK, tables, Step, Crash, Arrive, LoadChat,
             StoreMessage, LoadHistory, RenderContext, RunModel, CommitTurn, MarkFailed,
             AbortTransaction, RecordState, SetStatus
      <4> QED BY <3>1, <4>1, <4>2 DEF Loaded
    <3>2. CASE LoadHistory(t) /\ u = t
      <4>1. history'[u] \subseteq history[u] \cup RecentMessages(ChatOf[t])
        BY <3>2 DEF LoadHistory, Outcome, TypeOK
      <4>2. \A m \in RecentMessages(ChatOf[t]) : m \in Messages /\ Stored(m)
        BY DEF RecentMessages, MessagesOf
      <4>3. \A m \in history'[u] : m \in Messages /\ Stored(m)'
        BY <1>2, <4>1, <4>2, StoredForGood DEF Loaded, Outcome, TypeOK
      <4>4. status'[u] # "absent"
        BY <3>2 DEF LoadHistory, tables, Outcome, PlaceMatchesStatus
      <4> QED BY <4>3, <4>4
    <3>3. history'[u] = history[u] \/ (LoadHistory(t) /\ u = t)
      BY <1>2 DEF Outcome, TypeOK, locals, Step, Crash, Arrive, LoadChat, StoreMessage,
           LoadHistory, RenderContext, RunModel, CommitTurn, MarkFailed, AbortTransaction,
           RecordState
    <3> QED BY <3>1, <3>2, <3>3
  <2> QED
    BY <2>1, <2>3, <2>4 DEF Loaded
<1> QED BY <1>1, <1>2 DEF Next

\* What a history leaves out when it is loaded has enough newer messages in it.
LEMMA LeftOutForNewer ==
  ASSUME Outcome, Loaded, NEW c \in Chats, NEW m \in MessagesOf(c), m \notin RecentMessages(c)
  PROVE  Cardinality({n \in RecentMessages(c) : TimeOf(n) > TimeOf(m)}) >= HistoryLimit
<1> DEFINE S == MessagesOf(c)
           time == [n \in S |-> TimeOf(n)]
<1>1. IsFiniteSet(S)
  <2>1. S \in SUBSET (StoredTurns \X Roles)
    BY DEF MessagesOf, Messages, Stored, StoredTurns, Outcome, SentIffReplied, Roles
  <2>2. IsFiniteSet(Roles)
    <3>1. Roles = {"user"} \cup {"assistant"}
      BY DEF Roles
    <3> QED BY <3>1, FS_Singleton, FS_AddElement
  <2>3. IsFiniteSet(StoredTurns \X Roles)
    BY <2>2, FS_Product DEF Loaded
  <2> QED BY <2>1, <2>3, FS_Subset
<1>2. time \in [S -> Nat]
  BY DEF MessagesOf, Messages, TimeOf, Outcome, TypeOK
<1>3. HistoryLimit \in Nat
  BY ConstantsAssumption
<1>4. \A x \in S : {n \in S : time[n] > time[x]} = {n \in S : TimeOf(n) > TimeOf(x)}
  OBVIOUS
<1>5. RecentMessages(c) = {x \in S : Cardinality({n \in S : time[n] > time[x]}) < HistoryLimit}
  BY <1>4 DEF RecentMessages
<1>6. {n \in RecentMessages(c) : TimeOf(n) > TimeOf(m)}
        = {n \in RecentMessages(c) : time[n] > time[m]}
  BY DEF RecentMessages
<1>7. Cardinality({n \in RecentMessages(c) : time[n] > time[m]}) >= HistoryLimit
  <2> HIDE DEF time, S
  <2>1. m \in S
    BY DEF S
  <2>2. ~(Cardinality({n \in S : time[n] > time[m]}) < HistoryLimit)
    BY <2>1, <1>5
  <2> QED BY <1>1, <1>2, <1>3, <1>5, <2>1, <2>2, KeptFillTheLimit
<1> QED BY <1>6, <1>7

\* The messages a turn is to be shown are stored once its history is loaded.
Due(t) == {<<u, "assistant">> : u \in known[t]} \cup {<<t, "user">>}

LEMMA DueIsStored ==
  ASSUME Outcome, Loaded, NEW t \in Turns, status[t] # "absent", NEW m \in Due(t)
  PROVE  m \in MessagesOf(ChatOf[t]) /\ m \in Messages /\ Stored(m)
<1>1. CASE m = <<t, "user">>
  BY <1>1 DEF MessagesOf, Messages, Roles, Stored
<1>2. ASSUME NEW u \in known[t], m = <<u, "assistant">>
      PROVE  m \in MessagesOf(ChatOf[t]) /\ Stored(m)
  <2>1. u \in Turns /\ u \in replied /\ ChatOf[u] = ChatOf[t]
    BY DEF Loaded, Outcome, TypeOK, SentIffReplied
  <2> QED BY <1>2, <2>1 DEF MessagesOf, Messages, Roles, Stored
<1> QED BY <1>1, <1>2 DEF Due, MessagesOf

\* A turn that begins after an earlier turn of the chat was answered shows the model
\* that answer, and its own question, unless newer messages fill the history.
THEOREM AnswersShown == Spec => []EarlierAnswersShown
<1>1. Init => Loaded /\ EarlierAnswersShown
  <2> SUFFICES ASSUME Init PROVE Loaded /\ EarlierAnswersShown
    OBVIOUS
  <2>1. StoredTurns = {}
    BY DEF Init, StoredTurns
  <2> QED BY <2>1, FS_EmptySet DEF Init, Loaded, EarlierAnswersShown
<1>2. ASSUME Outcome, Loaded, EarlierAnswersShown, [Next]_vars
      PROVE  EarlierAnswersShown'
  <2> USE <1>2
  <2>1. CASE UNCHANGED vars
    BY <2>1 DEF vars, tables, locals, EarlierAnswersShown, TimeOf
  <2>2. ASSUME NEW t \in Turns, Step(t) \/ Crash(t)
        PROVE  EarlierAnswersShown'
    <3> SUFFICES ASSUME NEW u \in Turns, history'[u] # {}, NEW m \in Due(u)', m \notin history'[u]
                 PROVE  Cardinality({n \in history'[u] : TimeOf(n)' > TimeOf(m)'}) >= HistoryLimit
      BY DEF EarlierAnswersShown, Due
    <3>0. known'[u] = known[u] => m \in Due(u)
      BY DEF Due
    <3>1. CASE history'[u] = history[u] /\ known'[u] = known[u]
      <4>1. m \in Due(u) /\ m \in Messages /\ Stored(m)
        BY <3>0, <3>1, DueIsStored DEF Loaded
      <4>2. TimeOf(m)' = TimeOf(m)
        BY <4>1, <2>2, StoredForGood DEF Outcome
      <4>3. \A n \in history[u] : TimeOf(n)' = TimeOf(n)
        BY <2>2, StoredForGood DEF Loaded, Outcome, TypeOK
      <4>4. {n \in history'[u] : TimeOf(n)' > TimeOf(m)'}
              = {n \in history[u] : TimeOf(n) > TimeOf(m)}
        BY <3>1, <4>2, <4>3
      <4> QED BY <3>1, <4>1, <4>4 DEF EarlierAnswersShown, Due
    <3>2. CASE LoadHistory(t) /\ u = t /\ history'[u] = RecentMessages(ChatOf[u])
      <4>1. known' = known /\ \A n : TimeOf(n)' = TimeOf(n)
        BY <3>2 DEF LoadHistory, TimeOf
      <4>2. m \in MessagesOf(ChatOf[u])
        <5>1. status[u] # "absent"
          BY <3>2 DEF LoadHistory, Outcome, PlaceMatchesStatus
        <5> QED BY <5>1, <3>0, <4>1, DueIsStored
      <4>3. ChatOf[u] \in Chats
        BY ConstantsAssumption
      <4>4. Cardinality({n \in RecentMessages(ChatOf[u]) : TimeOf(n) > TimeOf(m)}) >= HistoryLimit
        BY <3>2, <4>2, <4>3, LeftOutForNewer
      <4> QED BY <3>2, <4>1, <4>4
    <3>3. CASE Arrive(t) /\ u = t
      <4>1. history'[u] = history[u] /\ status[u] = "absent"
        BY <3>3 DEF Arrive, locals, Outcome, PlaceMatchesStatus
      <4>2. history[u] = {}
        BY <4>1 DEF Loaded
      <4> QED BY <4>1, <4>2
    <3>4. \/ history'[u] = history[u] /\ known'[u] = known[u]
          \/ LoadHistory(t) /\ u = t /\ history'[u] = RecentMessages(ChatOf[u])
          \/ Arrive(t) /\ u = t
      BY <2>2 DEF Outcome, TypeOK, locals, Step, Crash, Arrive, LoadChat, StoreMessage,
           LoadHistory, RenderContext, RunModel, CommitTurn, MarkFailed, AbortTransaction,
           RecordState
    <3> QED BY <3>1, <3>2, <3>3, <3>4
  <2> QED BY <1>2, <2>1, <2>2 DEF Next
<1> QED BY <1>1, <1>2, OutcomeInvariant, LoadedStep, PTL DEF Spec
=============================================================================
