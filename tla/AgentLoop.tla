------------------------------ MODULE AgentLoop ------------------------------
(***************************************************************************)
(* One user turn inside the agent: AgentToolLoopService asks the model,    *)
(* hands the tool calls of its answer to ToolDispatcher, feeds the results *)
(* back and repeats, up to max_iterations.  The model is reached through   *)
(* YandexAIStudioLLMClient, which repeats a call that failed transiently.  *)
(*                                                                         *)
(* A conversation is a sequence of items.  What an item says is left out;  *)
(* what it is and what it answers is kept.                                 *)
(***************************************************************************)
EXTENDS Naturals, Sequences, FiniteSets

CONSTANTS
  HistoryLimit,   \* AGENT_HISTORY_LIMIT
  MaxIterations,  \* AGENT_MAX_ITERATIONS
  RetryAttempts,  \* repeats of a model call after a transient failure
  MaxCalls,       \* bound: tool calls in one answer of the model
  ClientTurns,    \* the kinds of answers the client behind the port can return
  EventOptional   \* whether that client may return an answer without its event

ASSUME LoopAssumption ==
  /\ HistoryLimit \in Nat \ {0}
  /\ MaxIterations \in Nat \ {0}
  /\ RetryAttempts \in Nat
  /\ MaxCalls \in Nat \ {0}
  /\ ClientTurns \subseteq {"text", "blank", "calls"}
  /\ EventOptional \in BOOLEAN

VARIABLES
  phase,         \* "asking", "dispatching", or how the turn ended
  conversation,  \* the items so far: system message, stored turns, this turn
  start,         \* how many items of conversation are not of this turn
  request,       \* the items last sent to the model
  iteration,     \* number of the current iteration
  attempt,       \* repeats of the current model call so far
  calls,         \* tool calls of the answer being dispatched
  results,       \* results of those calls so far
  runs,          \* executors run so far, as <<iteration, index of the call>>
  flow           \* request_flow of the trace, a local of the turn

vars == <<phase, conversation, start, request, iteration, attempt, calls,
          results, runs, flow>>

Endings == {"answered", "capped", "failed", "defect"}

\* A tool call names a registered tool with acceptable arguments, a registered
\* tool with arguments the schema rejects, or no registered tool.
CallKinds == {"good", "bad arguments", "unknown tool"}
ResultKinds == {"result", "tool failed", "filter error", "unknown tool"}

System == [kind |-> "system"]
Stored(n) == [kind |-> "stored", number |-> n]
Question == [kind |-> "question"]
Event(i, cs) == [kind |-> "event", iteration |-> i, calls |-> cs]
Results(i, rs) == [kind |-> "results", iteration |-> i, results |-> rs]

Smaller(a, b) == IF a < b THEN a ELSE b
Newest(s, n) == SubSeq(s, Len(s) - n + 1, Len(s))

\* The limit cuts the conversation as a whole.
SliceWhole(conv, k) == <<Head(conv)>> \o Newest(Tail(conv), Smaller(HistoryLimit, Len(conv) - 1))

\* The stored turns that fit are the oldest ones.
SliceOldest(conv, k) ==
  LET older == SubSeq(conv, 2, k)
      current == SubSeq(conv, k + 1, Len(conv))
      room == IF Len(current) < HistoryLimit THEN HistoryLimit - Len(current) ELSE 0
  IN  <<Head(conv)>> \o SubSeq(older, 1, Smaller(room, Len(older))) \o current

\* _slice_for_model: the system message, the newest stored turns that fit, and
\* all of the current turn.
SliceForModel(conv, k) ==
  LET older == SubSeq(conv, 2, k)
      current == SubSeq(conv, k + 1, Len(conv))
      room == IF Len(current) < HistoryLimit THEN HistoryLimit - Len(current) ELSE 0
  IN  <<Head(conv)>> \o Newest(older, Smaller(room, Len(older))) \o current

-----------------------------------------------------------------------------
\* _build_conversation: the question follows the stored turns, or is the last of
\* them already, in which case one stored turn less precedes it.
Init ==
  /\ phase = "asking"
  /\ \E n \in 0..HistoryLimit :
       conversation = <<System>> \o [k \in 1..n |-> Stored(k)] \o <<Question>>
  /\ start = Len(conversation) - 1
  /\ request = SliceForModel(conversation, start)
  /\ iteration = 1 /\ attempt = 0
  /\ calls = <<>> /\ results = <<>> /\ runs = <<>> /\ flow = <<>>

\* The next iteration of the loop asks the model, or the cap ends the turn.
NextIteration ==
  IF iteration < MaxIterations
  THEN /\ phase' = "asking"
       /\ iteration' = iteration + 1
       /\ request' = SliceForModel(conversation', start)
  ELSE /\ phase' = "capped"
       /\ UNCHANGED <<iteration, request>>

EndTurn(how) ==
  /\ phase' = how
  /\ UNCHANGED <<iteration, request>>

\* An exception leaves generate_response, and the trace so far is lost with it.
Raise(how) == EndTurn(how) /\ flow' = <<>>

Trace(cs, rs) == flow' = Append(flow, [iteration |-> iteration, calls |-> cs, results |-> rs])

\* The event of an answer joins the conversation, if there is one.
Answered(cs) ==
  \/ conversation' = Append(conversation, Event(iteration, cs))
  \/ EventOptional /\ UNCHANGED conversation

CallLists == UNION {[1..n -> CallKinds] : n \in 1..MaxCalls}

\* The counter of the retries wraps around like the index of the delays.
ModelUnavailableAgain ==
  /\ phase = "asking"
  /\ attempt' = (attempt + 1) % (RetryAttempts + 1)
  /\ UNCHANGED <<phase, conversation, start, request, iteration, calls, results, runs, flow>>

\* One retry too many.
ModelUnavailableLate ==
  /\ phase = "asking"
  /\ IF attempt > RetryAttempts
     THEN Raise("failed") /\ UNCHANGED attempt
     ELSE /\ attempt' = attempt + 1
          /\ UNCHANGED <<phase, iteration, request, flow>>
  /\ UNCHANGED <<conversation, start, calls, results, runs>>

\* A missing event is noticed only when the results are to be fed back.
FeedBackChecksLate ==
  /\ phase = "dispatching"
  /\ Len(results) = Len(calls)
  /\ \/ /\ Trace(calls, results)
        /\ conversation' = Append(conversation, Results(iteration, results))
        /\ NextIteration
     \/ /\ EventOptional
        /\ Raise("defect")
        /\ UNCHANGED conversation
  /\ UNCHANGED <<start, attempt, calls, results, runs>>

\* An executor that failed is run once more.
DispatchRunsAgain ==
  /\ phase = "dispatching"
  /\ Len(results) < Len(calls)
  /\ LET index == Len(results) + 1
     IN  \/ /\ calls[index] # "good"
            /\ results' = Append(results, IF calls[index] = "bad arguments" THEN "filter error"
                                          ELSE "unknown tool")
            /\ UNCHANGED runs
         \/ /\ calls[index] = "good"
            /\ results' = Append(results, "tool failed")
            /\ runs' = runs \o <<<<iteration, index>>, <<iteration, index>>>>
  /\ UNCHANGED <<phase, conversation, start, request, iteration, attempt, calls, flow>>

-----------------------------------------------------------------------------
\* The model call failed transiently and is repeated, or the retries are used up.
ModelUnavailable ==
  /\ phase = "asking"
  /\ IF attempt >= RetryAttempts
     THEN Raise("failed") /\ UNCHANGED attempt
     ELSE /\ attempt' = attempt + 1
          /\ UNCHANGED <<phase, iteration, request, flow>>
  /\ UNCHANGED <<conversation, start, calls, results, runs>>

\* Rejected credentials and unusable answers are not repeated.
ModelRefuses ==
  /\ phase = "asking"
  /\ Raise("failed")
  /\ UNCHANGED <<conversation, start, attempt, calls, results, runs>>

\* The model answers in text.  Blank text is no answer: the loop asks again.
ModelTexts ==
  /\ phase = "asking"
  /\ \E kind \in ClientTurns \cap {"text", "blank"} :
       /\ Answered(<<>>)
       /\ IF kind = "text" THEN EndTurn("answered") ELSE NextIteration
  /\ attempt' = 0
  /\ Trace(<<>>, <<>>)
  /\ UNCHANGED <<start, calls, results, runs>>

\* The model asks for tools; without the event that carries the calls nothing of
\* the answer runs, and the turn ends with a ValueError.
ModelCalls ==
  /\ phase = "asking"
  /\ "calls" \in ClientTurns
  /\ \/ \E cs \in CallLists :
          /\ conversation' = Append(conversation, Event(iteration, cs))
          /\ calls' = cs
          /\ phase' = "dispatching"
          /\ UNCHANGED <<iteration, request, flow>>
     \/ /\ EventOptional
        /\ Raise("defect")
        /\ UNCHANGED <<conversation, calls>>
  /\ attempt' = 0
  /\ results' = <<>>
  /\ UNCHANGED <<start, runs>>

\* ToolDispatcher runs the next call; an executor that raises, or returns what
\* JSON cannot carry, may have done its work all the same.
Dispatch ==
  /\ phase = "dispatching"
  /\ Len(results) < Len(calls)
  /\ LET index == Len(results) + 1
     IN  \/ /\ calls[index] = "unknown tool"
            /\ results' = Append(results, "unknown tool")
            /\ UNCHANGED runs
         \/ /\ calls[index] = "bad arguments"
            /\ results' = Append(results, "filter error")
            /\ UNCHANGED runs
         \/ /\ calls[index] = "good"
            /\ \E r \in {"result", "tool failed"} : results' = Append(results, r)
            /\ runs' = Append(runs, <<iteration, index>>)
  /\ UNCHANGED <<phase, conversation, start, request, iteration, attempt, calls, flow>>

\* All calls have run: the results join the trace and the conversation.
FeedBack ==
  /\ phase = "dispatching"
  /\ Len(results) = Len(calls)
  /\ Trace(calls, results)
  /\ conversation' = Append(conversation, Results(iteration, results))
  /\ NextIteration
  /\ UNCHANGED <<start, attempt, calls, results, runs>>

Next ==
  \/ ModelUnavailable \/ ModelRefuses \/ ModelTexts \/ ModelCalls
  \/ Dispatch \/ FeedBack

\* Model calls and executors return: both are bounded by timeouts.
Spec == Init /\ [][Next]_vars
FairSpec == Spec /\ WF_vars(Next)

-----------------------------------------------------------------------------
TypeOK ==
  /\ phase \in {"asking", "dispatching"} \cup Endings
  /\ start \in 1..Len(conversation)
  /\ iteration \in 1..MaxIterations
  /\ attempt \in 0..RetryAttempts
  /\ \A k \in 1..Len(calls) : calls[k] \in CallKinds
  /\ \A k \in 1..Len(results) : results[k] \in ResultKinds
  /\ Len(results) <= Len(calls)

\* Every request shows the system message first and the question, keeps the
\* current turn whole, and puts the results of tool calls right after the event
\* that asked for them, one result for each call.
RequestsAreWellFormed ==
  /\ request[1] = System
  /\ \E k \in 1..Len(request) : request[k] = Question
  /\ \A k \in 1..Len(request) : request[k].kind = "results" =>
       /\ request[k - 1].kind = "event"
       /\ request[k - 1].iteration = request[k].iteration
       /\ Len(request[k - 1].calls) = Len(request[k].results)
  /\ \A k \in 1..Len(request) :
       request[k].kind = "event" /\ request[k].calls # <<>> => k < Len(request)

\* The history limit only ever drops stored turns, the oldest first, and drops
\* none that fits.
OnlyOldTurnsDropped ==
  LET older == {n \in 1..(start - 1) : \A k \in 1..Len(request) : request[k] # Stored(n)}
      kept == {n \in 1..(start - 1) : \E k \in 1..Len(request) : request[k] = Stored(n)}
  IN  /\ \A n \in older, m \in kept : n < m
      /\ older # {} => Len(request) - 1 >= HistoryLimit
      /\ kept # {} => Len(request) - 1 <= HistoryLimit

\* Every tool call the trace reports has the one result that fits it, and its
\* executor ran once if the call was acceptable and never otherwise.
CallsAnsweredOnce ==
  \A k \in 1..Len(flow) :
    /\ Len(flow[k].results) = Len(flow[k].calls)
    /\ \A j \in 1..Len(flow[k].calls) :
         LET times == Cardinality({m \in DOMAIN runs : runs[m] = <<flow[k].iteration, j>>})
         IN  CASE flow[k].calls[j] = "good" ->
                    times = 1 /\ flow[k].results[j] \in {"result", "tool failed"}
               [] flow[k].calls[j] = "bad arguments" ->
                    times = 0 /\ flow[k].results[j] = "filter error"
               [] OTHER -> times = 0 /\ flow[k].results[j] = "unknown tool"

\* A turn that replies reports every executor that ran, with the call it ran for.
\* A turn that raises, because the model failed or left out the event, has lost the
\* trace of earlier iterations, but ran nothing in the iteration it raised in.
RunsAccountedFor ==
  /\ phase \in {"answered", "capped"} =>
       \A k \in 1..Len(runs) : \E j \in 1..Len(flow) :
         flow[j].iteration = runs[k][1] /\ runs[k][2] \in 1..Len(flow[j].calls)
  /\ phase \in {"failed", "defect"} =>
       \A k \in 1..Len(runs) : runs[k][1] < iteration

\* Every turn ends.
TurnEnds == <>(phase \in Endings)
=============================================================================
