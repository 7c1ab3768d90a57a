---------------------------- MODULE AgentLoopProofs ----------------------------
(***************************************************************************)
(* Proofs about AgentLoop, for every history limit, any number of          *)
(* iterations, retries and calls in an answer: what the model is sent is   *)
(* well formed and drops only old turns, every call is answered once, and  *)
(* what ran is in the trace of the reply, or lost with the trace of a turn *)
(* that raised in a later iteration.                                       *)
(***************************************************************************)
EXTENDS AgentLoop, SequenceTheorems, FiniteSetTheorems, TLAPS

Items ==
  {System, Question} \cup {Stored(n) : n \in Nat}
    \cup {Event(i, cs) : i \in Nat, cs \in Seq(CallKinds)}
    \cup {Results(i, rs) : i \in Nat, rs \in Seq(ResultKinds)}

Rounds == [iteration : Nat, calls : Seq(CallKinds), results : Seq(ResultKinds)]

Types ==
  /\ phase \in {"asking", "dispatching"} \cup Endings
  /\ conversation \in Seq(Items)
  /\ start \in 1..(Len(conversation) - 1)
  /\ request \in Seq(Items)
  /\ iteration \in 1..MaxIterations
  /\ attempt \in 0..RetryAttempts
  /\ calls \in Seq(CallKinds)
  /\ results \in Seq(ResultKinds) /\ Len(results) <= Len(calls)
  /\ runs \in Seq(Nat \X Nat)
  /\ flow \in Seq(Rounds)

\* The results at a place of a conversation answer the event before them.
AnswersEvent(conv, k) ==
  /\ conv[k - 1].kind = "event"
  /\ conv[k - 1].iteration = conv[k].iteration
  /\ Len(conv[k - 1].calls) = Len(conv[k].results)

\* A conversation is the system message, the stored turns in order, the question,
\* and then events, some of them followed by their results.
Ordered(conv, n) ==
  /\ conv[1] = System
  /\ \A k \in 2..n : conv[k] = Stored(k - 1)
  /\ conv[n + 1] = Question
  /\ \A k \in (n + 2)..Len(conv) : conv[k].kind \in {"event", "results"}
  /\ \A k \in (n + 2)..Len(conv) : conv[k].kind = "results" => AnswersEvent(conv, k)

\* No call waits for its result.
Settled(conv) == conv[Len(conv)].kind = "event" => conv[Len(conv)].calls = <<>>

ConversationInv ==
  /\ Ordered(conversation, start)
  /\ IF phase = "dispatching"
     THEN conversation[Len(conversation)] = Event(iteration, calls)
     ELSE Settled(conversation)

LEMMA SliceDrops ==
  ASSUME NEW conv \in Seq(Items), NEW n \in 1..(Len(conv) - 1)
  PROVE  \E d \in 0..(n - 1) :
           /\ SliceForModel(conv, n) \in Seq(Items)
           /\ Len(SliceForModel(conv, n)) = Len(conv) - d
           /\ SliceForModel(conv, n)[1] = conv[1]
           /\ \A k \in 2..(Len(conv) - d) : SliceForModel(conv, n)[k] = conv[k + d]
           /\ d > 0 => Len(conv) - d - 1 >= HistoryLimit
           /\ d < n - 1 => Len(conv) - d - 1 <= HistoryLimit
<1> DEFINE older == SubSeq(conv, 2, n)
           current == SubSeq(conv, n + 1, Len(conv))
           room == IF Len(current) < HistoryLimit THEN HistoryLimit - Len(current) ELSE 0
           fit == Smaller(room, Len(older))
           d == n - 1 - fit
<1>1. Len(conv) \in Nat /\ n \in Nat /\ n >= 1 /\ n + 1 <= Len(conv) /\ HistoryLimit \in Nat
  BY LoopAssumption DEF LoopAssumption
<1>2. /\ older \in Seq(Items) /\ Len(older) = n - 1
      /\ \A i \in 1..(n - 1) : older[i] = conv[i + 1]
  BY <1>1, SubSeqProperties
<1>3. /\ current \in Seq(Items) /\ Len(current) = Len(conv) - n
      /\ \A i \in 1..(Len(conv) - n) : current[i] = conv[n + i]
  BY <1>1, SubSeqProperties
<1>4. fit \in 0..(n - 1) /\ d \in 0..(n - 1) /\ fit = n - 1 - d
  BY <1>1, <1>2, <1>3 DEF Smaller
<1>5. /\ d > 0 => Len(conv) - d - 1 >= HistoryLimit
      /\ d < n - 1 => Len(conv) - d - 1 <= HistoryLimit
  <2>1. CASE Len(conv) - n < HistoryLimit
    <3>1. room = HistoryLimit - (Len(conv) - n)
      BY <1>3, <2>1
    <3>2. CASE room < n - 1
      <4>1. fit = HistoryLimit - (Len(conv) - n)
        BY <1>2, <3>1, <3>2 DEF Smaller
      <4>2. d = Len(conv) - 1 - HistoryLimit
        BY <1>1, <4>1
      <4> HIDE DEF d
      <4> QED BY <1>1, <4>2
    <3>3. CASE ~(room < n - 1)
      <4>1. fit = n - 1
        BY <1>2, <3>3 DEF Smaller
      <4>2. d = 0
        BY <1>1, <4>1
      <4>3. Len(conv) - 1 <= HistoryLimit
        <5> HIDE DEF room
        <5> QED BY <1>1, <3>1, <3>3
      <4> HIDE DEF d
      <4> QED BY <1>1, <4>2, <4>3
    <3> QED BY <3>2, <3>3
  <2>2. CASE ~(Len(conv) - n < HistoryLimit)
    <3>1. fit = 0
      BY <1>1, <1>2, <1>3, <2>2 DEF Smaller
    <3> HIDE DEF fit
    <3> QED BY <1>1, <2>2, <3>1
  <2> QED BY <2>1, <2>2
<1> DEFINE kept == Newest(older, fit)
<1>6. /\ kept \in Seq(Items) /\ Len(kept) = fit
      /\ \A i \in 1..fit : kept[i] = conv[i + d + 1]
  <2>1. kept = SubSeq(older, n - 1 - fit + 1, n - 1)
    BY <1>2 DEF Newest
  <2>2. n - 1 - fit + 1 = d + 1 /\ d + 1 \in Int /\ n - 1 \in Int
    BY <1>1, <1>4
  <2>3. \A i \in (d + 1)..(n - 1) : older[i] \in Items
    BY <1>1, <1>2, <1>4
  <2> HIDE DEF older, fit, d, kept
  <2>4. kept = SubSeq(older, d + 1, n - 1)
    BY <2>1, <2>2
  <2>5. /\ kept \in Seq(Items) /\ Len(kept) = IF d + 1 <= n - 1 THEN n - 1 - (d + 1) + 1 ELSE 0
        /\ \A i \in 1..(n - 1 - (d + 1) + 1) : kept[i] = older[d + 1 + i - 1]
    BY <2>2, <2>3, <2>4, SubSeqProperties
  <2>6. n - 1 - (d + 1) + 1 = fit /\ (~(d + 1 <= n - 1) => fit = 0)
    BY <1>1, <1>4
  <2> QED BY <1>1, <1>2, <1>4, <2>5, <2>6
<1>7. <<Head(conv)>> \in Seq(Items) /\ Len(<<Head(conv)>>) = 1 /\ <<Head(conv)>>[1] = conv[1]
  BY <1>1
<1> HIDE DEF older, current, room, fit, d, kept
<1>8. SliceForModel(conv, n) = (<<Head(conv)>> \o kept) \o current
  BY DEF SliceForModel, older, current, room, fit, kept
<1> DEFINE first == <<Head(conv)>> \o kept
<1>9. /\ first \in Seq(Items) /\ Len(first) = 1 + fit /\ first[1] = conv[1]
      /\ \A k \in 2..(1 + fit) : first[k] = conv[k + d]
  BY <1>1, <1>4, <1>6, <1>7, ConcatProperties
<1> HIDE DEF first
<1>10. /\ first \o current \in Seq(Items) /\ Len(first \o current) = Len(conv) - d
       /\ (first \o current)[1] = conv[1]
       /\ \A k \in 2..(Len(conv) - d) : (first \o current)[k] = conv[k + d]
  <2>1. Len(first) + Len(current) = Len(conv) - d
    BY <1>1, <1>3, <1>4, <1>9
  <2>2. /\ first \o current \in Seq(Items) /\ Len(first \o current) = Len(conv) - d
        /\ \A k \in 1..(Len(conv) - d) :
             (first \o current)[k] = IF k <= Len(first) THEN first[k] ELSE current[k - Len(first)]
    <3>1. first \in Seq(Items) /\ current \in Seq(Items)
      BY <1>3, <1>9
    <3>2. /\ first \o current \in Seq(Items)
          /\ Len(first \o current) = Len(first) + Len(current)
          /\ \A k \in 1..(Len(first) + Len(current)) :
               (first \o current)[k] = IF k <= Len(first) THEN first[k] ELSE current[k - Len(first)]
      BY <3>1, ConcatProperties
    <3> QED BY <2>1, <3>2
  <2>3. ASSUME NEW k \in 2..(Len(conv) - d)
        PROVE  (first \o current)[k] = conv[k + d]
    <3>1. CASE k <= 1 + fit
      BY <1>1, <1>4, <1>9, <2>2, <3>1
    <3>2. CASE ~(k <= 1 + fit)
      <4>1. PICK j \in 1..(Len(conv) - n) : j = k - (1 + fit) /\ n + j = k + d
        BY <1>1, <1>4, <3>2
      <4>2. k \in 1..(Len(conv) - d) /\ ~(k <= Len(first)) /\ k - Len(first) = j
        BY <1>1, <1>4, <1>9, <3>2, <4>1
      <4>3. (first \o current)[k] = current[j]
        BY <2>2, <4>2
      <4>4. current[j] = conv[n + j]
        BY <1>3
      <4> QED BY <4>1, <4>3, <4>4
    <3> QED BY <3>1, <3>2
  <2> QED BY <1>1, <1>4, <1>9, <2>2, <2>3
<1> QED BY <1>4, <1>5, <1>8, <1>10 DEF first

-----------------------------------------------------------------------------
\* RequestsAreWellFormed, of any request.
Sent(req) ==
  /\ req[1] = System
  /\ \E k \in 1..Len(req) : req[k] = Question
  /\ \A k \in 1..Len(req) : req[k].kind = "results" => AnswersEvent(req, k)
  /\ \A k \in 1..Len(req) : req[k].kind = "event" /\ req[k].calls # <<>> => k < Len(req)

\* The first d of the stored turns are not in a request, and the others are.
Without(req, n, d) ==
  /\ \A m \in 1..(n - 1) : (\E k \in 1..Len(req) : req[k] = Stored(m)) <=> m > d
  /\ d > 0 => Len(req) - 1 >= HistoryLimit
  /\ d < n - 1 => Len(req) - 1 <= HistoryLimit

\* What is sent of a settled conversation is well formed, and only old turns are missing.
LEMMA SliceIsWellFormed ==
  ASSUME NEW conv \in Seq(Items), NEW n \in 1..(Len(conv) - 1), Ordered(conv, n), Settled(conv)
  PROVE  /\ SliceForModel(conv, n) \in Seq(Items)
         /\ Sent(SliceForModel(conv, n))
         /\ \E d \in 0..(n - 1) : Without(SliceForModel(conv, n), n, d)
<1> DEFINE req == SliceForModel(conv, n)
<1>1. PICK d \in 0..(n - 1) :
        /\ req \in Seq(Items) /\ Len(req) = Len(conv) - d /\ req[1] = conv[1]
        /\ \A k \in 2..(Len(conv) - d) : req[k] = conv[k + d]
        /\ d > 0 => Len(conv) - d - 1 >= HistoryLimit
        /\ d < n - 1 => Len(conv) - d - 1 <= HistoryLimit
  BY SliceDrops
<1>2. Len(conv) \in Nat /\ n \in Nat /\ d \in Nat /\ n >= 1 /\ d <= n - 1 /\ n + 1 <= Len(conv)
  OBVIOUS
<1> HIDE DEF req
<1>3. req[1] = System
  BY <1>1 DEF Ordered
<1>a. Len(req) = Len(conv) - d
  BY <1>1
<1>b. /\ \A i \in 2..n : conv[i].kind = "stored"
      /\ conv[n + 1].kind = "question"
  <2>1. (\A m : Stored(m).kind = "stored") /\ Question.kind = "question"
    BY DEF Stored, Question
  <2>2. (\A i \in 2..n : conv[i] = Stored(i - 1)) /\ conv[n + 1] = Question
    BY DEF Ordered
  <2> QED BY <2>1, <2>2
<1>c. ASSUME NEW k \in 1..Len(req), k # 1
      PROVE  \E i \in 2..Len(conv) : i = k + d /\ req[k] = conv[i]
  <2>1. k \in 2..(Len(conv) - d) /\ k + d \in 2..Len(conv)
    BY <1>2, <1>a, <1>c
  <2> QED BY <1>1, <2>1
<1>4. req[n + 1 - d] = Question /\ n + 1 - d \in 1..Len(req)
  BY <1>1, <1>2 DEF Ordered
<1>5. ASSUME NEW k \in 1..Len(req), req[k].kind = "results"
      PROVE  AnswersEvent(req, k)
  <2>1. k # 1
    BY <1>3, <1>5 DEF System
  <2>2. PICK i \in 2..Len(conv) : i = k + d /\ req[k] = conv[i]
    BY <1>c, <2>1
  <2>3. i \in (n + 2)..Len(conv)
    <3>1. i \notin 2..n
      BY <1>5, <2>2, <1>b
    <3>2. i # n + 1
      BY <1>5, <2>2, <1>b
    <3> QED BY <1>2, <3>1, <3>2
  <2>4. AnswersEvent(conv, i)
    BY <1>5, <2>2, <2>3 DEF Ordered
  <2>5. req[k - 1] = conv[i - 1]
    <3>1. k \in Nat /\ i \in Nat /\ i = k + d /\ i >= n + 2 /\ i <= Len(conv)
      BY <1>2, <2>2, <2>3
    <3>2. k - 1 \in 2..(Len(conv) - d) /\ (k - 1) + d = i - 1
      BY <1>2, <3>1
    <3>3. req[k - 1] = conv[(k - 1) + d]
      BY <1>1, <3>2
    <3> QED BY <3>2, <3>3
  <2> QED BY <2>2, <2>4, <2>5 DEF AnswersEvent
<1>6. ASSUME NEW k \in 1..Len(req), req[k].kind = "event", req[k].calls # <<>>
      PROVE  k < Len(req)
  <2>1. k # 1
    BY <1>3, <1>6 DEF System
  <2>2. PICK i \in 2..Len(conv) : i = k + d /\ req[k] = conv[i]
    BY <1>c, <2>1
  <2>3. i # Len(conv)
    BY <1>6, <2>2 DEF Settled
  <2> QED BY <1>2, <1>a, <2>2, <2>3
<1>7. ASSUME NEW m \in 1..(n - 1)
      PROVE  (\E k \in 1..Len(req) : req[k] = Stored(m)) <=> m > d
  <2>1. ASSUME m > d PROVE \E k \in 1..Len(req) : req[k] = Stored(m)
    <3>1. PICK i \in 2..n : i = m + 1 /\ i - 1 = m
      BY <1>2
    <3>2. PICK k \in 2..(Len(conv) - d) : k + d = i
      BY <1>2, <2>1, <3>1
    <3>3. req[k] = conv[i]
      BY <1>1, <3>2
    <3>4. conv[i] = Stored(m)
      BY <3>1 DEF Ordered
    <3> QED BY <1>1, <1>2, <3>3, <3>4
  <2>2. ASSUME NEW k \in 1..Len(req), req[k] = Stored(m) PROVE m > d
    <3>1. k # 1
      BY <1>3, <2>2 DEF System, Stored
    <3>2. PICK i \in 2..Len(conv) : i = k + d /\ req[k] = conv[i]
      BY <1>c, <3>1
    <3>3. i # n + 1
      BY <2>2, <3>2 DEF Ordered, Question, Stored
    <3>4. i \notin (n + 2)..Len(conv)
      BY <2>2, <3>2 DEF Ordered, Stored
    <3>5. i \in 2..n
      BY <1>2, <3>2, <3>3, <3>4
    <3>6. Stored(i - 1) = Stored(m)
      BY <2>2, <3>2, <3>5 DEF Ordered
    <3>7. i - 1 = m
      BY <3>6 DEF Stored
    <3> QED BY <1>1, <1>2, <3>1, <3>2, <3>7
  <2> QED BY <2>1, <2>2
<1>8. Without(req, n, d)
  BY <1>1, <1>7 DEF Without
<1> QED BY <1>1, <1>3, <1>4, <1>5, <1>6, <1>8 DEF Sent, req

\* A conversation stays in order when an event joins it, or the results of the last one.
LEMMA AppendKeepsOrder ==
  ASSUME NEW conv \in Seq(Items), NEW n \in 1..(Len(conv) - 1), Ordered(conv, n),
         NEW item \in Items,
         \/ item.kind = "event"
         \/ /\ item.kind = "results" /\ conv[Len(conv)].kind = "event"
            /\ conv[Len(conv)].iteration = item.iteration
            /\ Len(conv[Len(conv)].calls) = Len(item.results)
  PROVE  /\ Append(conv, item) \in Seq(Items)
         /\ n \in 1..(Len(Append(conv, item)) - 1)
         /\ Ordered(Append(conv, item), n)
<1> DEFINE longer == Append(conv, item)
<1>1. /\ longer \in Seq(Items) /\ Len(longer) = Len(conv) + 1
      /\ \A k \in 1..Len(conv) : longer[k] = conv[k]
      /\ longer[Len(conv) + 1] = item
  BY AppendProperties
<1>2. Len(conv) \in Nat /\ n \in Nat /\ n >= 1 /\ n + 1 <= Len(conv)
  OBVIOUS
<1> HIDE DEF longer
<1>3. ASSUME NEW k \in (n + 2)..Len(longer), longer[k].kind = "results"
      PROVE  AnswersEvent(longer, k)
  <2>1. k - 1 \in 1..Len(conv) /\ longer[k - 1] = conv[k - 1]
    BY <1>1, <1>2
  <2>2. CASE k <= Len(conv)
    BY <1>1, <1>2, <1>3, <2>1, <2>2 DEF Ordered, AnswersEvent
  <2>3. CASE ~(k <= Len(conv))
    <3>1. k = Len(conv) + 1 /\ k - 1 = Len(conv)
      BY <1>1, <1>2, <2>3
    <3> QED BY <1>1, <1>3, <2>1, <3>1 DEF AnswersEvent
  <2> QED BY <2>2, <2>3
<1>4. \A k \in (n + 2)..Len(longer) : longer[k].kind \in {"event", "results"}
  BY <1>1, <1>2 DEF Ordered
<1>5. longer[1] = System /\ longer[n + 1] = Question /\ \A k \in 2..n : longer[k] = Stored(k - 1)
  BY <1>1, <1>2 DEF Ordered
<1>6. Ordered(longer, n)
  BY <1>3, <1>4, <1>5 DEF Ordered
<1>7. longer \in Seq(Items) /\ n \in 1..(Len(longer) - 1)
  BY <1>1, <1>2
<1> QED BY <1>6, <1>7 DEF longer

-----------------------------------------------------------------------------
RequestInv == Sent(request) /\ \E d \in 0..(start - 1) : Without(request, start, d)

\* A call has the result that fits it, and its executor ran if and only if it should.
AnsweredRight(i, call, j, r) ==
  CASE call = "good" ->
         r \in {"result", "tool failed"} /\ \E m \in 1..Len(runs) : runs[m] = <<i, j>>
    [] call = "bad arguments" -> r = "filter error" /\ \A m \in 1..Len(runs) : runs[m] # <<i, j>>
    [] OTHER -> r = "unknown tool" /\ \A m \in 1..Len(runs) : runs[m] # <<i, j>>

\* A run is in the trace, with the call it ran for.
Recorded(run) ==
  \E k \in 1..Len(flow) :
    flow[k].iteration = run[1] /\ run[2] \in 1..Len(flow[k].calls)

\* No executor ran twice, and what ran belongs to an earlier iteration, or to the calls
\* of this one that have their results.  It is in the trace, unless an exception lost it.
RunsInv ==
  /\ \A k, m \in 1..Len(runs) : runs[k] = runs[m] => k = m
  /\ \A m \in 1..Len(runs) :
       /\ phase = "asking" => runs[m][1] < iteration
       /\ phase = "dispatching" =>
            \/ runs[m][1] < iteration
            \/ runs[m][1] = iteration /\ runs[m][2] \in 1..Len(results)
       /\ phase \in {"failed", "defect"} => runs[m][1] < iteration
       /\ \/ phase \in {"failed", "defect"}
          \/ phase = "dispatching" /\ runs[m][1] = iteration
          \/ Recorded(runs[m])
  /\ phase = "dispatching" =>
       \A j \in 1..Len(results) : AnsweredRight(iteration, calls[j], j, results[j])

FlowInv ==
  \A k \in 1..Len(flow) :
    /\ phase \in {"asking", "dispatching"} => flow[k].iteration < iteration
    /\ Len(flow[k].results) = Len(flow[k].calls)
    /\ \A j \in 1..Len(flow[k].calls) :
         AnsweredRight(flow[k].iteration, flow[k].calls[j], j, flow[k].results[j])

LoopInv == Types /\ ConversationInv /\ RequestInv /\ RunsInv /\ FlowInv

LEMMA Begins == Init => LoopInv
<1> SUFFICES ASSUME Init PROVE LoopInv
  OBVIOUS
<1>1. PICK n \in 0..HistoryLimit :
        conversation = <<System>> \o [k \in 1..n |-> Stored(k)] \o <<Question>>
  BY DEF Init
<1> DEFINE older == [k \in 1..n |-> Stored(k)]
<1>2. n \in Nat
  BY LoopAssumption DEF LoopAssumption
<1>3. older \in Seq(Items) /\ Len(older) = n /\ \A k \in 1..n : older[k] = Stored(k)
  BY <1>2 DEF Items
<1>4. System \in Items /\ Question \in Items
  BY DEF Items
<1> HIDE DEF older
<1>5. /\ <<System>> \in Seq(Items) /\ Len(<<System>>) = 1 /\ <<System>>[1] = System
      /\ <<Question>> \in Seq(Items) /\ Len(<<Question>>) = 1 /\ <<Question>>[1] = Question
  BY <1>4
<1> DEFINE first == <<System>> \o older
<1>6. /\ first \in Seq(Items) /\ Len(first) = 1 + n
      /\ \A k \in 1..(1 + n) : first[k] = IF k <= 1 THEN <<System>>[k] ELSE older[k - 1]
  BY <1>2, <1>3, <1>5, ConcatProperties
<1> HIDE DEF first
<1>7. /\ conversation \in Seq(Items) /\ Len(conversation) = n + 2
      /\ \A k \in 1..(n + 2) :
           conversation[k] = IF k <= n + 1 THEN first[k] ELSE <<Question>>[k - (n + 1)]
  BY <1>1, <1>2, <1>5, <1>6, ConcatProperties DEF first, older
<1>8. start = n + 1 /\ start \in 1..(Len(conversation) - 1)
  BY <1>2, <1>7 DEF Init
<1>9. Ordered(conversation, start) /\ Settled(conversation)
  <2>1. conversation[1] = System /\ conversation[n + 2] = Question
    BY <1>2, <1>5, <1>6, <1>7
  <2>2. \A k \in 2..(n + 1) : conversation[k] = Stored(k - 1)
    <3>1. ASSUME NEW k \in 2..(n + 1) PROVE conversation[k] = Stored(k - 1)
      <4>1. conversation[k] = older[k - 1]
        BY <1>2, <1>6, <1>7
      <4>2. k - 1 \in 1..n
        BY <1>2
      <4> QED BY <1>3, <4>1, <4>2
    <3> QED BY <3>1
  <2>3. start + 1 = n + 2 /\ Len(conversation) = n + 2 /\ (start + 2)..Len(conversation) = {}
    BY <1>2, <1>7, <1>8
  <2> QED BY <1>8, <2>1, <2>2, <2>3 DEF Ordered, Settled, Question
<1>10. /\ request \in Seq(Items) /\ RequestInv
  BY <1>7, <1>8, <1>9, SliceIsWellFormed DEF Init, RequestInv
<1>11. Types /\ ConversationInv
  BY <1>7, <1>8, <1>9, <1>10, LoopAssumption
     DEF Init, Types, ConversationInv, LoopAssumption, Rounds, CallKinds, ResultKinds
<1>12. RunsInv /\ FlowInv
  BY DEF Init, RunsInv, FlowInv
<1> QED BY <1>10, <1>11, <1>12 DEF LoopInv

\* What the next iteration asks is well formed, if nothing waits in the conversation.
LEMMA NextAsks ==
  ASSUME Types, RequestInv, start' = start, conversation' \in Seq(Items),
         start \in 1..(Len(conversation') - 1), Ordered(conversation', start),
         Settled(conversation'), NextIteration
  PROVE  /\ request' \in Seq(Items) /\ RequestInv'
         /\ iteration' \in 1..MaxIterations
         /\ \/ phase' = "asking" /\ iteration' = iteration + 1
            \/ phase' = "capped" /\ iteration' = iteration
<1>1. CASE iteration < MaxIterations
  <2>1. request' = SliceForModel(conversation', start)
    BY <1>1 DEF NextIteration
  <2>2. /\ request' \in Seq(Items) /\ Sent(request')
        /\ \E d \in 0..(start - 1) : Without(request', start, d)
    BY <2>1, SliceIsWellFormed
  <2>3. RequestInv'
    BY <2>2 DEF RequestInv
  <2> QED BY <1>1, <2>2, <2>3, LoopAssumption DEF NextIteration, Types, LoopAssumption
<1>2. CASE ~(iteration < MaxIterations)
  <2>1. request' = request
    BY <1>2 DEF NextIteration
  <2>2. RequestInv'
    BY <2>1 DEF RequestInv
  <2> QED BY <1>2, <2>1, <2>2 DEF NextIteration, Types
<1> QED BY <1>1, <1>2

LEMMA ItemsMade ==
  ASSUME NEW i \in Nat
  PROVE  /\ \A cs \in Seq(CallKinds) : /\ Event(i, cs) \in Items /\ Event(i, cs).kind = "event"
                                      /\ Event(i, cs).iteration = i /\ Event(i, cs).calls = cs
         /\ \A rs \in Seq(ResultKinds) :
              /\ Results(i, rs) \in Items /\ Results(i, rs).kind = "results"
              /\ Results(i, rs).iteration = i /\ Results(i, rs).results = rs
BY DEF Items, Event, Results

\* The round that joins the trace.
LEMMA RoundMade ==
  ASSUME Types, NEW cs \in Seq(CallKinds), NEW rs \in Seq(ResultKinds), Trace(cs, rs)
  PROVE  /\ flow' \in Seq(Rounds) /\ Len(flow') = Len(flow) + 1
         /\ \A k \in 1..Len(flow) : flow'[k] = flow[k]
         /\ flow'[Len(flow) + 1] = [iteration |-> iteration, calls |-> cs, results |-> rs]
<1>1. [iteration |-> iteration, calls |-> cs, results |-> rs] \in Rounds
  BY DEF Types, Rounds
<1> QED BY <1>1, AppendProperties DEF Types, Trace

\* An answer's calls are a sequence of calls.
LEMMA CallListsAreSequences == CallLists \subseteq Seq(CallKinds)
BY LoopAssumption DEF LoopAssumption, CallLists

\* The conversation after an event joined it, or did not.
LEMMA AnswerKeepsOrder ==
  ASSUME Types, ConversationInv, phase = "asking", NEW cs \in Seq(CallKinds), Answered(cs)
  PROVE  /\ conversation' \in Seq(Items) /\ start \in 1..(Len(conversation') - 1)
         /\ Ordered(conversation', start)
         /\ cs = <<>> => Settled(conversation')
<1>1. iteration \in Nat
  BY LoopAssumption DEF Types, LoopAssumption
<1>2. Event(iteration, cs) \in Items /\ Event(iteration, cs).kind = "event"
      /\ Event(iteration, cs).calls = cs
  BY <1>1, ItemsMade
<1>3. CASE conversation' = Append(conversation, Event(iteration, cs))
  <2>1. conversation'[Len(conversation')] = Event(iteration, cs)
    BY <1>2, <1>3, AppendProperties DEF Types
  <2> QED BY <1>2, <1>3, <2>1, AppendKeepsOrder DEF Types, ConversationInv, Settled
<1>4. CASE conversation' = conversation
  BY <1>4 DEF Types, ConversationInv
<1> QED BY <1>3, <1>4 DEF Answered

-----------------------------------------------------------------------------
LEMMA ShapeStays ==
  ASSUME LoopInv, Next
  PROVE  Types' /\ ConversationInv' /\ RequestInv'
<1> USE DEF LoopInv
<1>0. iteration \in Nat /\ RetryAttempts \in Nat
  BY LoopAssumption DEF Types, LoopAssumption
<1>1. CASE ModelUnavailable \/ ModelRefuses
  <2>1. Types'
    <3>1. /\ phase' \in {"asking", "failed"} /\ attempt' \in 0..RetryAttempts
          /\ flow' = flow \/ flow' = <<>>
          /\ UNCHANGED <<conversation, start, request, iteration, calls, results, runs>>
      BY <1>0, <1>1 DEF ModelUnavailable, ModelRefuses, Raise, EndTurn, Types
    <3>2. <<>> \in Seq(Rounds) /\ flow \in Seq(Rounds)
      BY DEF Types
    <3>3. flow' \in Seq(Rounds)
      BY <3>1, <3>2
    <3> QED BY <3>1, <3>3 DEF Types, Endings
  <2>2. ConversationInv'
    BY <1>1 DEF ModelUnavailable, ModelRefuses, Raise, EndTurn, ConversationInv
  <2>3. RequestInv'
    BY <1>1 DEF ModelUnavailable, ModelRefuses, Raise, EndTurn, RequestInv
  <2> QED BY <2>1, <2>2, <2>3
<1>2. CASE ModelTexts
  <2>1. phase = "asking" /\ Answered(<<>>) /\ Trace(<<>>, <<>>) /\ attempt' = 0
        /\ UNCHANGED <<start, calls, results, runs>>
        /\ (EndTurn("answered") \/ NextIteration)
    BY <1>2 DEF ModelTexts
  <2>2. <<>> \in Seq(CallKinds) /\ <<>> \in Seq(ResultKinds)
    OBVIOUS
  <2>3. flow' \in Seq(Rounds)
    BY <2>1, <2>2, RoundMade
  <2>4. /\ conversation' \in Seq(Items) /\ start \in 1..(Len(conversation') - 1)
        /\ Ordered(conversation', start) /\ Settled(conversation')
    BY <2>1, <2>2, AnswerKeepsOrder
  <2>5. CASE EndTurn("answered")
    <3>1. Types'
      BY <1>0, <2>1, <2>3, <2>4, <2>5 DEF EndTurn, Types, Endings
    <3>2. ConversationInv' /\ RequestInv'
      BY <2>1, <2>4, <2>5 DEF EndTurn, ConversationInv, RequestInv
    <3> QED BY <3>1, <3>2
  <2>6. CASE NextIteration
    <3>1. /\ request' \in Seq(Items) /\ RequestInv' /\ iteration' \in 1..MaxIterations
          /\ phase' \in {"asking", "capped"}
      BY <2>1, <2>4, <2>6, NextAsks
    <3>2. Types'
      BY <1>0, <2>1, <2>3, <2>4, <3>1 DEF Types, Endings
    <3>3. ConversationInv'
      BY <2>1, <2>4, <3>1 DEF ConversationInv
    <3> QED BY <3>1, <3>2, <3>3
  <2> QED BY <2>1, <2>5, <2>6
<1>3. CASE ModelCalls
  <2>1. phase = "asking" /\ attempt' = 0 /\ results' = <<>>
        /\ UNCHANGED <<start, request, iteration, runs>>
    BY <1>3 DEF ModelCalls, Raise, EndTurn
  <2>2. RequestInv'
    BY <2>1 DEF RequestInv
  <2>3. CASE \E cs \in CallLists : /\ conversation' = Append(conversation, Event(iteration, cs))
                                  /\ calls' = cs /\ phase' = "dispatching"
                                  /\ flow' = flow
    <3>1. PICK cs \in Seq(CallKinds) :
             /\ conversation' = Append(conversation, Event(iteration, cs))
             /\ calls' = cs /\ phase' = "dispatching" /\ flow' = flow
      BY <2>3, CallListsAreSequences
    <3>2. /\ conversation' \in Seq(Items) /\ start \in 1..(Len(conversation') - 1)
          /\ Ordered(conversation', start)
      BY <2>1, <3>1, AnswerKeepsOrder DEF Answered
    <3>3. conversation'[Len(conversation')] = Event(iteration, cs)
      BY <1>0, <3>1, ItemsMade, AppendProperties DEF Types
    <3>4. Types'
      BY <1>0, <2>1, <3>1, <3>2 DEF Types
    <3>5. ConversationInv'
      BY <2>1, <3>1, <3>2, <3>3 DEF ConversationInv
    <3> QED BY <2>2, <3>4, <3>5
  <2>4. CASE phase' = "defect" /\ flow' = <<>> /\ UNCHANGED <<conversation, calls>>
    <3>0. <<>> \in Seq(Rounds)
      OBVIOUS
    <3>1. Types'
      BY <1>0, <2>1, <2>4, <3>0 DEF Types, Endings
    <3>2. ConversationInv'
      BY <2>1, <2>4 DEF ConversationInv
    <3> QED BY <2>2, <3>1, <3>2
  <2> QED BY <1>3, <2>3, <2>4 DEF ModelCalls, Raise, EndTurn
<1>4. CASE Dispatch
  <2>1. /\ phase = "dispatching" /\ Len(results) < Len(calls)
        /\ UNCHANGED <<phase, conversation, start, request, iteration, attempt, calls, flow>>
        /\ \E r \in ResultKinds : results' = Append(results, r)
        /\ runs' = runs \/ runs' = Append(runs, <<iteration, Len(results) + 1>>)
    BY <1>4 DEF Dispatch, ResultKinds
  <2>2. results' \in Seq(ResultKinds) /\ Len(results') <= Len(calls)
    BY <2>1, AppendProperties DEF Types
  <2>3. runs' \in Seq(Nat \X Nat)
    <3>1. <<iteration, Len(results) + 1>> \in Nat \X Nat
      BY <1>0 DEF Types
    <3>2. runs \in Seq(Nat \X Nat)
      BY DEF Types
    <3>3. Append(runs, <<iteration, Len(results) + 1>>) \in Seq(Nat \X Nat)
      BY <3>1, <3>2, AppendProperties
    <3> QED BY <2>1, <3>2, <3>3
  <2>4. Types'
    BY <2>1, <2>2, <2>3 DEF Types
  <2>5. ConversationInv' /\ RequestInv'
    BY <2>1 DEF ConversationInv, RequestInv
  <2> QED BY <2>4, <2>5
<1>5. CASE FeedBack
  <2>1. phase = "dispatching" /\ Len(results) = Len(calls) /\ Trace(calls, results)
        /\ conversation' = Append(conversation, Results(iteration, results)) /\ NextIteration
        /\ UNCHANGED <<start, attempt, calls, results, runs>>
    BY <1>5 DEF FeedBack
  <2>2. flow' \in Seq(Rounds)
    BY <2>1, RoundMade DEF Types
  <2> DEFINE fed == Results(iteration, results)
  <2>3. fed \in Items /\ fed.kind = "results" /\ fed.iteration = iteration
        /\ fed.results = results
    BY <1>0, ItemsMade DEF Types
  <2> HIDE DEF fed
  <2>4. conversation[Len(conversation)] = Event(iteration, calls)
    BY <2>1 DEF ConversationInv
  <2>5. /\ Event(iteration, calls).kind = "event"
        /\ Event(iteration, calls).iteration = iteration /\ Event(iteration, calls).calls = calls
    BY <1>0, ItemsMade DEF Types
  <2>6. /\ conversation' \in Seq(Items) /\ start \in 1..(Len(conversation') - 1)
        /\ Ordered(conversation', start)
    BY <2>1, <2>3, <2>4, <2>5, AppendKeepsOrder DEF Types, ConversationInv, fed
  <2>7. conversation'[Len(conversation')] = fed
    BY <2>1, <2>3, AppendProperties DEF Types, fed
  <2>8. Settled(conversation')
    BY <2>3, <2>7 DEF Settled
  <2>9. /\ request' \in Seq(Items) /\ RequestInv' /\ iteration' \in 1..MaxIterations
        /\ phase' \in {"asking", "capped"}
    BY <2>1, <2>6, <2>8, NextAsks
  <2>10. Types'
    BY <2>1, <2>2, <2>6, <2>9 DEF Types, Endings
  <2>11. ConversationInv'
    BY <2>1, <2>6, <2>8, <2>9 DEF ConversationInv
  <2> QED BY <2>9, <2>10, <2>11
<1> QED BY <1>1, <1>2, <1>3, <1>4, <1>5 DEF Next

\* An answer once given stays right as long as no executor of it runs again.
LEMMA RightStays ==
  ASSUME NEW i, NEW call, NEW j, NEW r, AnsweredRight(i, call, j, r),
         \/ runs' = runs
         \/ /\ Len(runs') = Len(runs) + 1 /\ Len(runs) \in Nat
            /\ \A m \in 1..Len(runs) : runs'[m] = runs[m]
            /\ runs'[Len(runs) + 1] # <<i, j>>
  PROVE  AnsweredRight(i, call, j, r)'
<1>1. CASE runs' = runs
  BY <1>1 DEF AnsweredRight
<1>2. CASE runs' # runs
  <2>1. \A m \in 1..Len(runs) : m \in 1..Len(runs') /\ runs'[m] = runs[m]
    BY <1>2
  <2>2. \A m \in 1..Len(runs') : m \in 1..Len(runs) \/ runs'[m] # <<i, j>>
    BY <1>2
  <2> QED BY <2>1, <2>2 DEF AnsweredRight
<1> QED BY <1>1, <1>2

\* The rounds so far stay right while a new one joins them.
LEMMA TraceStays ==
  ASSUME Types, RunsInv, FlowInv, phase \in {"asking", "dispatching"},
         NEW cs \in Seq(CallKinds), NEW rs \in Seq(ResultKinds), Trace(cs, rs),
         UNCHANGED runs, Len(rs) = Len(cs),
         \A j \in 1..Len(cs) : AnsweredRight(iteration, cs[j], j, rs[j]),
         phase = "dispatching" => Len(results) = Len(cs),
         \/ phase' = "asking" /\ iteration' = iteration + 1
         \/ phase' \in {"answered", "capped"} /\ iteration' = iteration
  PROVE  RunsInv' /\ FlowInv'
<1>1. /\ Len(flow') = Len(flow) + 1 /\ Len(flow) \in Nat
      /\ \A k \in 1..Len(flow) : flow'[k] = flow[k]
      /\ flow'[Len(flow) + 1] = [iteration |-> iteration, calls |-> cs, results |-> rs]
  <2>1. flow \in Seq(Rounds)
    BY DEF Types
  <2> QED BY <2>1, RoundMade
<1>2. iteration \in Nat /\ \A m \in 1..Len(runs) : runs[m][1] \in Nat
  <2>1. iteration \in 1..MaxIterations /\ runs \in Seq(Nat \X Nat)
    BY DEF Types
  <2>2. iteration \in Nat
    BY <2>1, LoopAssumption DEF LoopAssumption
  <2>3. ASSUME NEW m \in 1..Len(runs) PROVE runs[m] \in Nat \X Nat
    BY <2>1
  <2> QED BY <2>2, <2>3
<1>3. \/ phase' \in {"answered", "capped"}
      \/ phase' = "asking" /\ iteration' = iteration + 1
  OBVIOUS
<1>4. FlowInv'
  <2>1. ASSUME NEW k \in 1..Len(flow')
        PROVE  /\ phase' = "asking" => flow'[k].iteration < iteration'
               /\ Len(flow'[k].results) = Len(flow'[k].calls)
               /\ \A j \in 1..Len(flow'[k].calls) :
                    AnsweredRight(flow'[k].iteration, flow'[k].calls[j], j, flow'[k].results[j])
    <3>1. CASE k \in 1..Len(flow)
      <4>1. flow[k].iteration \in Nat
        <5>1. flow[k] \in Rounds
          BY <3>1 DEF Types
        <5> QED BY <5>1 DEF Rounds
      <4> QED BY <1>1, <1>2, <1>3, <3>1, <4>1 DEF FlowInv
    <3>2. CASE k = Len(flow) + 1
      BY <1>1, <1>2, <1>3, <3>2
    <3> QED BY <1>1, <3>1, <3>2
  <2>2. phase' # "dispatching"
    BY <1>3
  <2> QED BY <2>1, <2>2 DEF FlowInv, AnsweredRight
<1>5. ASSUME NEW m \in 1..Len(runs)
      PROVE  /\ phase' = "asking" => runs[m][1] < iteration'
             /\ \E k \in 1..Len(flow') :
                  flow'[k].iteration = runs[m][1] /\ runs[m][2] \in 1..Len(flow'[k].calls)
  <2>1. CASE Recorded(runs[m])
    <3>1. PICK k \in 1..Len(flow) :
            flow[k].iteration = runs[m][1] /\ runs[m][2] \in 1..Len(flow[k].calls)
      BY <2>1 DEF Recorded
    <3>2. k \in 1..Len(flow') /\ flow'[k] = flow[k]
      BY <1>1
    <3>3. phase' = "asking" => runs[m][1] < iteration'
      BY <1>2, <1>3 DEF RunsInv
    <3> QED BY <3>1, <3>2, <3>3
  <2>2. CASE phase = "dispatching" /\ runs[m][1] = iteration
    <3>1. runs[m][2] \in 1..Len(cs)
      BY <1>2, <2>2 DEF RunsInv
    <3>2. Len(flow) + 1 \in 1..Len(flow')
      BY <1>1
    <3>3. flow'[Len(flow) + 1].iteration = iteration /\ flow'[Len(flow) + 1].calls = cs
      BY <1>1
    <3>4. phase' = "asking" => runs[m][1] < iteration'
      BY <1>2, <1>3, <2>2
    <3> QED BY <2>2, <3>1, <3>2, <3>3, <3>4
  <2> QED BY <2>1, <2>2 DEF RunsInv
<1>6. \A m \in 1..Len(runs) : Recorded(runs[m])'
  BY <1>5 DEF Recorded
<1> QED BY <1>3, <1>4, <1>5, <1>6 DEF RunsInv

\* Nothing ran, and the trace is as before, or an exception lost it.
LEMMA NothingRan ==
  ASSUME RunsInv, FlowInv, phase = "asking", UNCHANGED <<runs, iteration>>,
         \/ phase' = "asking" /\ flow' = flow
         \/ phase' = "dispatching" /\ results' = <<>> /\ flow' = flow
         \/ phase' \in {"failed", "defect"} /\ flow' = <<>>
  PROVE  RunsInv' /\ FlowInv'
<1>1. \A i, call, j, r : AnsweredRight(i, call, j, r) => AnsweredRight(i, call, j, r)'
  BY RightStays
<1>2. FlowInv'
  <2>1. CASE flow' = flow
    BY <1>1, <2>1 DEF FlowInv
  <2>2. CASE flow' = <<>>
    BY <2>2 DEF FlowInv
  <2> QED BY <2>1, <2>2
<1>3. phase' = "dispatching" => Len(results') = 0
  OBVIOUS
<1>4. \A m \in 1..Len(runs) : Recorded(runs[m]) /\ flow' = flow => Recorded(runs[m])'
  BY DEF Recorded
<1>5. RunsInv'
  BY <1>3, <1>4 DEF RunsInv
<1> QED BY <1>2, <1>5

LEMMA RunsStay ==
  ASSUME LoopInv, Next
  PROVE  RunsInv' /\ FlowInv'
<1> USE DEF LoopInv
<1>1. CASE ModelUnavailable \/ ModelRefuses
  <2>1. /\ UNCHANGED <<runs, iteration>> /\ phase = "asking"
        /\ \/ phase' = "asking" /\ flow' = flow
           \/ phase' \in {"failed", "defect"} /\ flow' = <<>>
    BY <1>1 DEF ModelUnavailable, ModelRefuses, Raise, EndTurn
  <2> QED BY <2>1, NothingRan
<1>2. CASE ModelTexts
  <2>1. phase = "asking" /\ Trace(<<>>, <<>>) /\ UNCHANGED runs
        /\ (EndTurn("answered") \/ NextIteration)
    BY <1>2 DEF ModelTexts
  <2> DEFINE none == <<>>
  <2>2. none \in Seq(CallKinds) /\ none \in Seq(ResultKinds) /\ Len(none) = 0
    OBVIOUS
  <2>3. \A j \in 1..Len(none) : AnsweredRight(iteration, none[j], j, none[j])
    BY <2>2
  <2>4. \/ phase' = "asking" /\ iteration' = iteration + 1
        \/ phase' \in {"answered", "capped"} /\ iteration' = iteration
    BY <2>1 DEF EndTurn, NextIteration
  <2>5. Trace(none, none)
    BY <2>1
  <2> HIDE DEF none
  <2> QED BY <2>1, <2>2, <2>3, <2>4, <2>5, TraceStays
<1>3. CASE ModelCalls
  <2>1. phase = "asking" /\ results' = <<>> /\ UNCHANGED <<iteration, runs>>
        /\ \/ phase' = "dispatching" /\ flow' = flow
           \/ phase' = "defect" /\ flow' = <<>>
    BY <1>3 DEF ModelCalls, Raise, EndTurn
  <2> QED BY <2>1, NothingRan
<1>4. CASE Dispatch
  <2>0. results \in Seq(ResultKinds) /\ runs \in Seq(Nat \X Nat)
    BY DEF Types
  <2>a. PICK index \in Nat : index = Len(results) + 1
    BY <2>0
  <2>1. /\ phase = "dispatching" /\ Len(results) < Len(calls)
        /\ UNCHANGED <<phase, iteration, calls, flow>>
    BY <1>4 DEF Dispatch
  <2>2. PICK r \in ResultKinds :
          /\ results' = Append(results, r)
          /\ \/ calls[index] = "unknown tool" /\ r = "unknown tool" /\ runs' = runs
             \/ calls[index] = "bad arguments" /\ r = "filter error" /\ runs' = runs
             \/ /\ calls[index] = "good" /\ r \in {"result", "tool failed"}
                /\ runs' = Append(runs, <<iteration, index>>)
    BY <1>4, <2>a DEF Dispatch, ResultKinds
  <2>3. /\ Len(results) \in Nat /\ Len(results') = index
        /\ \A j \in 1..Len(results) : results'[j] = results[j]
        /\ results'[index] = r
    <3>1. results' = Append(results, r)
      BY <2>2
    <3> QED BY <2>0, <2>a, <3>1, AppendProperties
  <2>4. Len(runs) \in Nat /\ \A m \in 1..Len(runs) : runs[m][1] \in Nat /\ runs[m][2] \in Nat
                                                  /\ runs[m] = <<runs[m][1], runs[m][2]>>
    BY <2>0
  <2>5. iteration \in Nat /\ index \in Nat
    BY LoopAssumption DEF Types, LoopAssumption
  <2>6. \A m \in 1..Len(runs) : runs[m] # <<iteration, index>>
    BY <2>a, <2>1, <2>3, <2>4, <2>5 DEF RunsInv
  <2>7. \/ calls[index] # "good" /\ runs' = runs
        \/ /\ calls[index] = "good" /\ Len(runs') = Len(runs) + 1
           /\ \A m \in 1..Len(runs) : runs'[m] = runs[m]
           /\ runs'[Len(runs) + 1] = <<iteration, index>>
    <3>1. CASE calls[index] # "good"
      BY <2>2, <3>1
    <3>2. CASE calls[index] = "good"
      <4>1. PICK e \in Nat \X Nat : e = <<iteration, index>>
        BY <2>5
      <4>2. runs' = Append(runs, e)
        BY <2>2, <3>2, <4>1
      <4>3. /\ Len(runs') = Len(runs) + 1 /\ runs'[Len(runs) + 1] = e
            /\ \A m \in 1..Len(runs) : runs'[m] = runs[m]
        BY <2>0, <4>2, AppendProperties
      <4> QED BY <3>2, <4>1, <4>3
    <3> QED BY <3>1, <3>2
  <2>8. \A i, call, j, x : (i # iteration \/ j # index) /\ AnsweredRight(i, call, j, x)
                            => AnsweredRight(i, call, j, x)'
    <3>1. ASSUME NEW i, NEW call, NEW j, NEW x, i # iteration \/ j # index,
                 AnsweredRight(i, call, j, x)
          PROVE  AnsweredRight(i, call, j, x)'
      <4>1. <<iteration, index>> # <<i, j>>
        BY <3>1
      <4> QED BY <2>4, <2>7, <3>1, <4>1, RightStays
    <3> QED BY <3>1
  <2>b. calls' = calls /\ iteration' = iteration
    BY <2>1
  <2>9. AnsweredRight(iteration, calls[index], index, r)'
    <3>1. CASE calls[index] # "good"
      <4>1. /\ \A m \in 1..Len(runs') : runs'[m] # <<iteration, index>>
            /\ \/ calls[index] = "unknown tool" /\ r = "unknown tool"
               \/ calls[index] = "bad arguments" /\ r = "filter error"
        BY <2>2, <2>6, <2>7, <3>1
      <4> QED BY <2>b, <4>1 DEF AnsweredRight
    <3>2. CASE calls[index] = "good"
      <4>1. r \in {"result", "tool failed"}
        BY <2>2, <3>2
      <4>2. Len(runs) + 1 \in 1..Len(runs') /\ runs'[Len(runs) + 1] = <<iteration, index>>
        BY <2>4, <2>7, <3>2
      <4> QED BY <2>b, <3>2, <4>1, <4>2 DEF AnsweredRight
    <3> QED BY <3>1, <3>2
  <2>10. FlowInv'
    <3>1. \A k \in 1..Len(flow) : flow[k].iteration # iteration
      BY <2>1, <2>5 DEF FlowInv
    <3> QED BY <2>1, <2>8, <3>1 DEF FlowInv
  <2>11. ASSUME NEW j \in 1..Len(results')
         PROVE  AnsweredRight(iteration, calls[j], j, results[j])'
    <3>1. CASE j = index
      BY <2>1, <2>3, <2>9, <3>1
    <3>2. CASE j # index
      <4>1. j \in 1..Len(results) /\ AnsweredRight(iteration, calls[j], j, results[j])
        BY <2>a, <2>1, <2>3, <3>2 DEF RunsInv
      <4>2. AnsweredRight(iteration, calls[j], j, results[j])'
        BY <2>1, <2>3, <2>8, <3>2, <4>1
      <4> QED BY <4>2
    <3> QED BY <3>1, <3>2
  <2>12. \A k, m \in 1..Len(runs') : runs'[k] = runs'[m] => k = m
    BY <2>4, <2>6, <2>7 DEF RunsInv
  <2>13. ASSUME NEW m \in 1..Len(runs')
         PROVE  /\ \/ runs'[m][1] < iteration
                   \/ runs'[m][1] = iteration /\ runs'[m][2] \in 1..Len(results')
                /\ runs'[m][1] = iteration \/ Recorded(runs[m])'
    <3>1. CASE m \in 1..Len(runs) /\ runs'[m] = runs[m]
      BY <2>a, <2>1, <2>3, <2>4, <2>5, <3>1 DEF RunsInv, Recorded
    <3>2. CASE runs'[m] = <<iteration, index>>
      <4>1. index \in 1..Len(results')
        BY <2>0, <2>a, <2>3
      <4> QED BY <3>2, <4>1
    <3> QED BY <2>4, <2>7, <3>1, <3>2
  <2> QED BY <2>1, <2>10, <2>11, <2>12, <2>13 DEF RunsInv
<1>5. CASE FeedBack
  <2>1. phase = "dispatching" /\ Len(results) = Len(calls) /\ Trace(calls, results)
        /\ NextIteration /\ UNCHANGED runs
    BY <1>5 DEF FeedBack
  <2>2. \/ phase' = "asking" /\ iteration' = iteration + 1
        \/ phase' \in {"answered", "capped"} /\ iteration' = iteration
    BY <2>1 DEF NextIteration
  <2>3. \A j \in 1..Len(calls) : AnsweredRight(iteration, calls[j], j, results[j])
    BY <2>1 DEF RunsInv
  <2> QED BY <2>1, <2>2, <2>3, TraceStays DEF Types
<1> QED BY <1>1, <1>2, <1>3, <1>4, <1>5 DEF Next

LEMMA Stays == LoopInv /\ [Next]_vars => LoopInv'
<1> SUFFICES ASSUME LoopInv, [Next]_vars PROVE LoopInv'
  OBVIOUS
<1>1. CASE Next
  BY <1>1, ShapeStays, RunsStay DEF LoopInv
<1>2. CASE UNCHANGED vars
  <2>1. Types' /\ ConversationInv' /\ RequestInv'
    BY <1>2 DEF vars, LoopInv, Types, ConversationInv, RequestInv
  <2>2. \A i, call, j, r : AnsweredRight(i, call, j, r) => AnsweredRight(i, call, j, r)'
    BY <1>2, RightStays DEF vars
  <2>3. FlowInv'
    BY <1>2, <2>2 DEF vars, LoopInv, FlowInv
  <2>4. RunsInv'
    BY <1>2, <2>2 DEF vars, LoopInv, RunsInv, Recorded
  <2> QED BY <2>1, <2>3, <2>4 DEF LoopInv
<1> QED BY <1>1, <1>2

LEMMA Invariance == Spec => []LoopInv
BY Begins, Stays, PTL DEF Spec

-----------------------------------------------------------------------------
\* Every variable keeps its type, so no counter passes its limit, whatever the model
\* and the tools answer.
THEOREM TypeCorrect == Spec => []TypeOK
<1>1. LoopInv => TypeOK
  BY DEF LoopInv, Types, TypeOK, Endings
<1> QED BY <1>1, Invariance, PTL

\* Every request shows the system message first, keeps the question, and puts results
\* right after the event that asked for them, for every history limit and every
\* length of the stored history and of the turn.
THEOREM WellFormed == Spec => []RequestsAreWellFormed
<1>1. LoopInv => RequestsAreWellFormed
  BY DEF LoopInv, RequestInv, Sent, AnswersEvent, RequestsAreWellFormed
<1> QED BY <1>1, Invariance, PTL

\* The history limit drops only stored turns, the oldest first, and none that fits.
THEOREM OldTurnsDropped == Spec => []OnlyOldTurnsDropped
<1>1. ASSUME LoopInv PROVE OnlyOldTurnsDropped
  <2>1. PICK d \in 0..(start - 1) : Without(request, start, d)
    BY <1>1 DEF LoopInv, RequestInv
  <2>2. start \in Nat /\ d \in Nat
    BY <1>1 DEF LoopInv, Types
  <2> DEFINE older == {n \in 1..(start - 1) : \A k \in 1..Len(request) : request[k] # Stored(n)}
             kept == {n \in 1..(start - 1) : \E k \in 1..Len(request) : request[k] = Stored(n)}
  <2>3. \A n \in 1..(start - 1) : (n \in kept <=> n > d) /\ (n \in older <=> n <= d)
    BY <2>1, <2>2 DEF Without
  <2>4. /\ \A n \in older, m \in kept : n < m
        /\ older # {} => d > 0
        /\ kept # {} => d < start - 1
    BY <2>2, <2>3
  <2> QED BY <2>1, <2>4 DEF Without, OnlyOldTurnsDropped
<1> QED BY <1>1, Invariance, PTL

\* Every call that the trace reports has the one result that fits it, and its executor
\* ran exactly once, or never if the call was not acceptable.
THEOREM AnsweredOnce == Spec => []CallsAnsweredOnce
<1>1. ASSUME LoopInv, NEW k \in 1..Len(flow), NEW j \in 1..Len(flow[k].calls)
      PROVE  LET times == Cardinality({m \in DOMAIN runs : runs[m] = <<flow[k].iteration, j>>})
             IN  CASE flow[k].calls[j] = "good" ->
                        times = 1 /\ flow[k].results[j] \in {"result", "tool failed"}
                   [] flow[k].calls[j] = "bad arguments" ->
                        times = 0 /\ flow[k].results[j] = "filter error"
                   [] OTHER -> times = 0 /\ flow[k].results[j] = "unknown tool"
  <2> DEFINE run == <<flow[k].iteration, j>>
             ran == {m \in DOMAIN runs : runs[m] = run}
  <2>1. DOMAIN runs = 1..Len(runs)
    BY <1>1 DEF LoopInv, Types
  <2>2. AnsweredRight(flow[k].iteration, flow[k].calls[j], j, flow[k].results[j])
    BY <1>1 DEF LoopInv, FlowInv
  <2>3. (\E m \in 1..Len(runs) : runs[m] = run) => Cardinality(ran) = 1
    <3>1. ASSUME NEW m \in 1..Len(runs), runs[m] = run PROVE ran = {m}
      BY <1>1, <2>1, <3>1 DEF LoopInv, RunsInv
    <3> QED BY <3>1, FS_Singleton
  <2>4. (\A m \in 1..Len(runs) : runs[m] # run) => Cardinality(ran) = 0
    <3>1. ASSUME \A m \in 1..Len(runs) : runs[m] # run PROVE ran = {}
      BY <2>1, <3>1
    <3> QED BY <3>1, FS_EmptySet
  <2> QED BY <2>2, <2>3, <2>4 DEF AnsweredRight
<1>2. LoopInv => CallsAnsweredOnce
  BY <1>1 DEF CallsAnsweredOnce, LoopInv, FlowInv
<1> QED BY <1>2, Invariance, PTL

\* A reply reports every executor that ran, with its call; a turn that raises loses the
\* trace of earlier iterations, and ran nothing in the one it raised in.
THEOREM Accounted == Spec => []RunsAccountedFor
<1>1. LoopInv => RunsAccountedFor
  BY DEF LoopInv, RunsInv, Recorded, RunsAccountedFor
<1> QED BY <1>1, Invariance, PTL
=============================================================================
