-------------------------- MODULE MemoryVaultProofs --------------------------
(***************************************************************************)
(* What holds of the vault for every cap, every set of texts and any       *)
(* number of calls that overlap in any way.                                *)
(***************************************************************************)
EXTENDS MemoryVault, FiniteSetTheorems, WellFoundedInduction, TLAPS

\* The table, or the rows that a call has found: each under its own id.
Tables ==
  {t \in [Ops -> Row \cup {NoRow}] : \A i \in Ops : t[i] # NoRow => t[i] \in Row /\ t[i].id = i}

Flights ==
  [at : Places, tool : {"remember", "forget"}, text : Texts, topic : Topics \cup {NoTopic},
   now : 0..MaxOps, found : Tables, searched : Nat, target : Row \cup {NoRow},
   victims : SUBSET Ops]

Ended == [at : {"done"}, outcome : Outcomes]

\* What a call holds at the place it has reached.
Ready(c) ==
  /\ c.searched <= MaxSearchTokens
  /\ c.at = "topic" => c.searched = 0 /\ IdsOf(c.found) = {}
  /\ c.at = "search" => c.searched < MaxSearchTokens
                        /\ (c.searched = 0 \/ c.searched < Len(WordsOf[c.text]))
  /\ c.at = "search" /\ c.tool = "forget" => WordsOf[c.text] # <<>>
  /\ c.at \notin {"search", "delete"} => c.tool = "remember"
  /\ c.at = "delete" => c.tool = "forget" /\ c.victims # {} /\ c.victims \subseteq IdsOf(c.found)
  /\ c.tool = "remember" => c.text \notin Secrets /\ c.now # 0
  /\ IF c.at = "update" THEN c.target \in Row ELSE c.target = NoRow

Stage == {c \in Flights : Ready(c)}

Types ==
  /\ rows \in Tables
  /\ begun \in 0..MaxOps /\ clock \in 0..begun
  /\ calls \in [Ops -> {Idle} \cup Ended \cup Stage]
  /\ \A o \in Ops : o > begun => calls[o] = Idle /\ o \notin overlapped
  /\ overlapped \subseteq Ops

LEMMA Numbers == MaxOps \in Nat /\ IsFiniteSet(Ops) /\ \A o \in Ops : o \in Nat
  BY FS_Interval, VaultAssumption DEF VaultAssumption, Ops

LEMMA NoRowIsNone == NoRow \notin Row
  BY DEF NoRow, Row

LEMMA SmallestExists ==
  ASSUME NEW S \in SUBSET Nat, S # {}
  PROVE  \E x \in S : \A y \in S : x <= y
<1>1. PICK x \in S : \A y \in S : <<y, x>> \notin OpToRel(<, Nat)
  BY WFMin, NatLessThanWellFounded, Zenon
<1>2. \A y \in S : ~(y < x)
  BY <1>1, Zenon DEF OpToRel
<1> QED BY <1>2

\* Some row of a set is the oldest, and some row the one updated last.
LEMMA OldestExists ==
  ASSUME NEW t \in Tables, NEW ids \in SUBSET IdsOf(t), ids # {}
  PROVE  Oldest(t, ids) \in ids
<1> DEFINE stamps == {t[i].created : i \in ids}
<1>1. \A i \in ids : t[i].created \in Nat
  BY Numbers DEF Tables, IdsOf, Row
<1>2. stamps \in SUBSET Nat /\ stamps # {}
  BY <1>1
<1>3. PICK x \in stamps : \A y \in stamps : x <= y
  <2> HIDE DEF stamps
  <2> QED BY <1>2, SmallestExists
<1>4. \E i \in ids : \A j \in ids : t[i].created <= t[j].created
  BY <1>3
<1> QED BY <1>4 DEF Oldest

LEMMA NewestIs ==
  ASSUME NEW t \in Tables, NEW ids \in SUBSET IdsOf(t), ids # {}
  PROVE  \E i \in ids : \A j \in ids : t[j].updated <= t[i].updated
<1> DEFINE ages == {MaxOps - t[i].updated : i \in ids}
<1>1. \A i \in ids : t[i].updated \in 1..MaxOps
  BY Numbers DEF Tables, IdsOf, Row
<1>2. ages \in SUBSET Nat /\ ages # {}
  BY <1>1, Numbers
<1>3. PICK x \in ages : \A y \in ages : x <= y
  <2> HIDE DEF ages
  <2> QED BY <1>2, SmallestExists
<1>4. PICK i \in ids : \A j \in ids : MaxOps - t[i].updated <= MaxOps - t[j].updated
  BY <1>3
<1>5. \A j \in ids : t[j].updated <= t[i].updated
  BY <1>1, <1>4, Numbers
<1> QED BY <1>5

LEMMA NewestExists ==
  ASSUME NEW t \in Tables, NEW ids \in SUBSET IdsOf(t), ids # {}
  PROVE  Newest(t, ids) \in ids
BY NewestIs DEF Newest

-----------------------------------------------------------------------------
Matches(row, x) == \E w \in SetOfWords(x) : Contains(row, w)

\* What a call that runs beside no other knows of the table: what it has read is
\* still so.
Lone(c) ==
  /\ c.at = "search" =>
       \A i \in IdsOf(c.found) :
         rows[i] = c.found[i] /\ (c.tool = "forget" => Matches(rows[i], c.text))
  /\ c.at = "update" => rows[c.target.id] # NoRow
  /\ c.at \in {"oldest", "evict"} => Cardinality(IdsOf(rows)) >= Cap
  /\ c.at = "evict" =>
       c.victims = {Oldest(rows, IdsOf(rows))} /\ c.victims \subseteq IdsOf(rows)
  /\ c.at = "save" => Cardinality(IdsOf(rows)) < Cap + Cardinality(overlapped)
  /\ c.at = "delete" => \A i \in c.victims : rows[i] # NoRow /\ Matches(rows[i], c.text)

LoneInv == \A o \in Active \ overlapped : Active = {o} /\ Lone(calls[o])

\* Only overlapped calls that are over have added what exceeds the cap.
Capped == Cardinality(IdsOf(rows)) <= Cap + Cardinality(overlapped \ Active)

VaultInv == Types /\ LoneInv /\ Capped

LEMMA Begins == Init => VaultInv
<1> SUFFICES ASSUME Init PROVE VaultInv
  OBVIOUS
<1>1. IdsOf(rows) = {} /\ Active = {}
  BY DEF Init, IdsOf, Active, Idle, Places
<1>2. Types
  BY Numbers DEF Init, Types, Tables, Ops
<1>3. Capped
  <2>1. overlapped \ Active = {}
    BY DEF Init
  <2>2. Cap \in Nat /\ Cardinality({}) = 0
    BY FS_EmptySet, VaultAssumption DEF VaultAssumption
  <2> QED BY <1>1, <2>1, <2>2 DEF Capped
<1> QED BY <1>1, <1>2, <1>3 DEF VaultInv, LoneInv

LEMMA InFlight ==
  ASSUME Types
  PROVE  /\ \A o \in Ops : o \in Active <=> calls[o] \in Stage
         /\ \A v \in Ended : v.at \notin Places
         /\ \A v \in Stage : v.at \in Places
  BY DEF Types, Active, Stage, Flights, Ended, Idle, Places

\* A step of a call that is in flight: the call goes on or ends, and a call that runs
\* alone adds a row only where there is room.
LEMMA StepKeeps ==
  ASSUME VaultInv, NEW o \in Active, NEW v \in Stage \cup Ended,
         calls' = [calls EXCEPT ![o] = v],
         rows' \in Tables, UNCHANGED <<clock, begun, overlapped>>,
         \/ IdsOf(rows') \subseteq IdsOf(rows)
         \/ /\ v \in Ended
            /\ \E i \in Ops : IdsOf(rows') \subseteq IdsOf(rows) \cup {i}
            /\ o \notin overlapped => Cardinality(IdsOf(rows')) <= Cap + Cardinality(overlapped),
         o \notin overlapped /\ v \in Stage => Lone(v)'
  PROVE  VaultInv'
<1> USE DEF VaultInv
<1>1. o \in Ops /\ o <= begun
  BY Numbers DEF Active, Types, Idle, Places
<1>2. Types'
  <2>1. calls' \in [Ops -> {Idle} \cup Ended \cup Stage]
    BY <1>1 DEF Types
  <2>2. ASSUME NEW p \in Ops, p > begun PROVE calls'[p] = Idle /\ p \notin overlapped
    BY <1>1, <2>2, Numbers DEF Types
  <2> QED BY <2>1, <2>2 DEF Types
<1>3. Active' = (IF v \in Stage THEN Active ELSE Active \ {o}) /\ (v \in Stage => v \notin Ended)
  BY <1>1, <1>2, InFlight DEF Active, Types
<1>4. LoneInv'
  <2>1. ASSUME NEW p \in Active', p \notin overlapped PROVE Active' = {p} /\ Lone(calls[p])'
    <3>1. p = o /\ Active = {o} /\ v \in Stage
      BY <1>3, <2>1 DEF LoneInv
    <3>2. calls'[p] = v
      BY <1>1, <3>1 DEF Types
    <3>3. Lone(v)'
      BY <2>1, <3>1
    <3> QED BY <1>3, <3>1, <3>2, <3>3 DEF Lone
  <2> QED BY <2>1 DEF LoneInv
<1>5. Capped'
  <2>1. IsFiniteSet(IdsOf(rows)) /\ IsFiniteSet(overlapped \ Active) /\ IsFiniteSet(overlapped)
        /\ IsFiniteSet(IdsOf(rows'))
    BY Numbers, FS_Subset DEF Types, Tables, IdsOf
  <2>2. /\ Cardinality(IdsOf(rows)) \in Nat /\ Cardinality(overlapped \ Active) \in Nat
        /\ Cardinality(IdsOf(rows')) \in Nat /\ Cap \in Nat
    BY <2>1, FS_CardinalityType, VaultAssumption DEF VaultAssumption
  <2>3. overlapped' \ Active' = IF v \in Ended /\ o \in overlapped
                                THEN (overlapped \ Active) \cup {o} ELSE overlapped \ Active
    BY <1>3
  <2>4. Cardinality(overlapped' \ Active') = IF v \in Ended /\ o \in overlapped
                                             THEN Cardinality(overlapped \ Active) + 1
                                             ELSE Cardinality(overlapped \ Active)
    <3>1. o \notin overlapped \ Active
      OBVIOUS
    <3>2. Cardinality((overlapped \ Active) \cup {o}) = Cardinality(overlapped \ Active) + 1
      BY <2>1, <3>1, FS_AddElement
    <3> QED BY <2>3, <3>2
  <2>5. CASE IdsOf(rows') \subseteq IdsOf(rows)
    <3>1. Cardinality(IdsOf(rows')) <= Cardinality(IdsOf(rows))
      BY <2>1, <2>5, FS_Subset
    <3> QED BY <2>2, <2>4, <3>1 DEF Capped, IdsOf
  <2>6. CASE /\ v \in Ended /\ o \in overlapped
             /\ \E i \in Ops : IdsOf(rows') \subseteq IdsOf(rows) \cup {i}
    <3>1. PICK i \in Ops : IdsOf(rows') \subseteq IdsOf(rows) \cup {i}
      BY <2>6
    <3>2. Cardinality(IdsOf(rows')) <= Cardinality(IdsOf(rows)) + 1
      <4>1. /\ IsFiniteSet(IdsOf(rows) \cup {i})
            /\ Cardinality(IdsOf(rows) \cup {i})
                 \in {Cardinality(IdsOf(rows)), Cardinality(IdsOf(rows)) + 1}
        BY <2>1, FS_AddElement
      <4>2. Cardinality(IdsOf(rows')) <= Cardinality(IdsOf(rows) \cup {i})
        BY <3>1, <4>1, FS_Subset
      <4> QED BY <2>2, <4>1, <4>2
    <3> QED BY <2>2, <2>4, <2>6, <3>2 DEF Capped, IdsOf
  <2>7. CASE /\ v \in Ended /\ o \notin overlapped
             /\ Cardinality(IdsOf(rows')) <= Cap + Cardinality(overlapped)
    <3>1. overlapped \ Active = overlapped
      BY <2>7 DEF LoneInv
    <3> QED BY <2>2, <2>4, <2>7, <3>1 DEF Capped, IdsOf
  <2> QED BY <2>5, <2>6, <2>7
<1> QED BY <1>2, <1>4, <1>5

LEMMA EndingKeeps ==
  ASSUME VaultInv, NEW o \in Active, NEW r \in Outcomes, Finish(o, r),
         rows' \in Tables, UNCHANGED <<clock, begun, overlapped>>,
         \/ IdsOf(rows') \subseteq IdsOf(rows)
         \/ /\ \E i \in Ops : IdsOf(rows') \subseteq IdsOf(rows) \cup {i}
            /\ o \notin overlapped => Cardinality(IdsOf(rows')) <= Cap + Cardinality(overlapped)
  PROVE  VaultInv'
<1>1. PICK v \in Ended : v = [at |-> "done", outcome |-> r]
  BY DEF Ended
<1>2. v \notin Stage
  BY InFlight DEF VaultInv
<1> QED BY <1>1, <1>2, StepKeeps DEF Finish

\* What a write does to the table.
LEMMA WriteDoes ==
  ASSUME rows \in Tables, NEW i \in Ops, NEW row, Write(i, row)
  PROVE  /\ \A j \in Ops : j # i => rows'[j] = rows[j]
         /\ row = NoRow =>
              rows' \in Tables /\ IdsOf(rows') = IdsOf(rows) \ {i} /\ rows'[i] = NoRow
         /\ row \in Row /\ row.id = i =>
              rows' \in Tables /\ IdsOf(rows') = IdsOf(rows) \cup {i}
  BY NoRowIsNone DEF Tables, Write, IdsOf

\* A call that moves on keeps what it holds.
Moved(v, c, place) ==
  /\ v \in Flights /\ v.at = place
  /\ v.tool = c.tool /\ v.text = c.text /\ v.topic = c.topic /\ v.now = c.now
  /\ v.found = c.found /\ v.searched = c.searched /\ v.target = c.target /\ v.victims = c.victims

LEMMA Moves ==
  ASSUME NEW c \in Flights, NEW place \in Places
  PROVE  Moved([c EXCEPT !.at = place], c, place)
  BY DEF Flights, Moved

\* A remember goes on with what it has found: nothing, or a row that still stands if
\* the call runs beside no other.
LEMMA DecideKeeps ==
  ASSUME VaultInv, NEW o \in Active, NEW c \in Flights, c.tool = "remember",
         c.text \notin Secrets, c.now # 0, c.searched <= MaxSearchTokens, c.target = NoRow,
         NEW e \in Row \cup {NoRow},
         e # NoRow /\ o \notin overlapped => e.id \in Ops /\ rows[e.id] # NoRow,
         Decide(o, c, e), UNCHANGED <<rows, clock, begun, overlapped>>
  PROVE  VaultInv'
<1>1. rows' \in Tables /\ IdsOf(rows') \subseteq IdsOf(rows)
  BY DEF VaultInv, Types
<1>2. CASE e = NoRow
  <2>0. PICK v : v = [c EXCEPT !.at = "count"] /\ Moved(v, c, "count")
    BY Moves DEF Places
  <2>1. v \in Stage
    BY <2>0 DEF Stage, Ready, Moved
  <2>2. calls' = [calls EXCEPT ![o] = v]
    BY <1>2, <2>0 DEF Decide, Goto
  <2>3. Lone(v)'
    BY <2>0 DEF Lone, Moved
  <2> QED BY <1>1, <2>1, <2>2, <2>3, StepKeeps
<1>3. CASE e # NoRow /\ AlreadyHolds(e, c.text, c.topic)
  <2>1. Finish(o, "unchanged") /\ "unchanged" \in Outcomes
    BY <1>3 DEF Decide, Outcomes
  <2> QED BY <1>1, <2>1, EndingKeeps
<1>4. CASE e # NoRow /\ ~AlreadyHolds(e, c.text, c.topic)
  <2> DEFINE target == [e EXCEPT !.content = c.text, !.updated = c.now,
                                 !.topic = IF c.topic = NoTopic THEN @ ELSE c.topic]
  <2>1. target \in Row /\ target.id = e.id
    <3>1. c.now \in 1..MaxOps /\ c.text \in Texts \ Secrets /\ c.topic \in Topics \cup {NoTopic}
      BY Numbers DEF Flights
    <3>2. PICK topic \in Topics \cup {NoTopic} :
            target = [e EXCEPT !.content = c.text, !.updated = c.now, !.topic = topic]
      BY <1>4, <3>1 DEF Row
    <3> HIDE DEF target
    <3> QED BY <1>4, <3>1, <3>2 DEF Row
  <2> HIDE DEF target
  <2> DEFINE d == [c EXCEPT !.target = target]
  <2>2. /\ d \in Flights /\ d.target = target /\ d.tool = c.tool
        /\ d.text = c.text /\ d.now = c.now /\ d.searched = c.searched
    <3>1. PICK t \in Row \cup {NoRow} : t = target
      BY <2>1
    <3> QED BY <3>1 DEF Flights
  <2> HIDE DEF d
  <2>3. PICK v : v = [d EXCEPT !.at = "update"] /\ Moved(v, d, "update")
    BY <2>2, Moves DEF Places
  <2>4. v \in Stage
    <3>1. Ready(v)
      BY <2>1, <2>2, <2>3 DEF Ready, Moved
    <3> QED BY <2>3, <3>1 DEF Stage, Moved
  <2>5. calls' = [calls EXCEPT ![o] = v]
    <3>1. Goto(o, "update", [c EXCEPT !.target = target])
      BY <1>4 DEF Decide, target
    <3> QED BY <2>3, <3>1 DEF Goto, d
  <2>6. o \notin overlapped => Lone(v)'
    BY <1>4, <2>1, <2>2, <2>3 DEF Lone, Moved
  <2> QED BY <1>1, <2>4, <2>5, <2>6, StepKeeps
<1> QED BY <1>2, <1>3, <1>4

-----------------------------------------------------------------------------
LEMMA FindByTopicKeeps ==
  ASSUME VaultInv, NEW o \in Ops, FindByTopic(o)
  PROVE  VaultInv'
<1> USE DEF VaultInv
<1> DEFINE same == {i \in Search(calls[o].topic, CandidateLimit) : rows[i].topic = calls[o].topic}
<1>1. o \in Active /\ calls[o] \in Stage /\ calls[o].at = "topic"
  BY InFlight DEF FindByTopic, At, Active, Places
<1>2. UNCHANGED <<rows, clock, begun, overlapped>> /\ rows \in Tables
  BY DEF FindByTopic, Types
<1>3. CASE same = {}
  <2>1. Goto(o, "search", calls[o])
    BY <1>3 DEF FindByTopic
  <2>2. calls[o] \in Flights /\ Ready(calls[o])
    BY <1>1 DEF Stage
  <2>3. PICK v : v = [calls[o] EXCEPT !.at = "search"] /\ Moved(v, calls[o], "search")
    BY <2>2, Moves DEF Places
  <2>4. v \in Stage
    <3>1. 0 < MaxSearchTokens
      BY VaultAssumption DEF VaultAssumption
    <3>2. Ready(v)
      BY <1>1, <2>2, <2>3, <3>1 DEF Ready, Moved
    <3> QED BY <2>3, <3>2 DEF Stage, Moved
  <2>5. Lone(v)'
    BY <1>1, <2>2, <2>3 DEF Lone, Ready, Moved
  <2> QED BY <1>1, <1>2, <2>1, <2>3, <2>4, <2>5, StepKeeps DEF Goto
<1>4. CASE same # {}
  <2>1. same \subseteq IdsOf(rows)
    BY DEF Search, Freshest
  <2>2. Newest(rows, same) \in IdsOf(rows)
    BY <1>2, <1>4, <2>1, NewestExists
  <2>3. PICK e \in Row : e = rows[Newest(rows, same)] /\ rows[e.id] = e /\ e.id \in Ops
    <3>1. PICK i \in Ops : i = Newest(rows, same) /\ rows[i] # NoRow
      BY <2>2 DEF IdsOf, Types, Tables
    <3>2. rows[i] \in Row /\ rows[i].id = i
      BY <1>2, <3>1 DEF Tables
    <3> QED BY <3>1, <3>2
  <2>4. PICK c \in Flights : c = calls[o] /\ Ready(c)
    BY <1>1 DEF Stage
  <2>5. Decide(o, c, e)
    BY <1>4, <2>3, <2>4 DEF FindByTopic
  <2>6. /\ c.tool = "remember" /\ c.text \notin Secrets /\ c.now # 0
        /\ c.searched <= MaxSearchTokens /\ c.target = NoRow
    BY <1>1, <2>4 DEF Ready
  <2> QED BY <1>1, <1>2, <2>3, <2>5, <2>6, NoRowIsNone, DecideKeeps
<1> QED BY <1>3, <1>4

LEMMA SearchWordKeeps ==
  ASSUME VaultInv, NEW o \in Ops, SearchWord(o)
  PROVE  VaultInv'
<1> USE DEF VaultInv
<1> DEFINE words == WordsOf[calls[o].text]
           n == calls[o].searched + 1
           hits == IF words = <<>> THEN {} ELSE Search(words[n], SearchLimit(calls[o]))
           merged == [i \in Ops |-> IF i \in hits THEN rows[i] ELSE calls[o].found[i]]
           matches == Freshest(merged, IdsOf(merged), ForgetLimit)
           c == [calls[o] EXCEPT !.found = merged, !.searched = n]
<1>1. o \in Active /\ calls[o] \in Flights /\ Ready(calls[o]) /\ calls[o].at = "search"
  BY InFlight DEF SearchWord, At, Active, Places, Stage
<1>2. UNCHANGED <<rows, clock, begun, overlapped>> /\ rows \in Tables
  BY DEF SearchWord, Types
<1>3. rows' \in Tables /\ IdsOf(rows') \subseteq IdsOf(rows)
  BY <1>2
<1>4. /\ n \in Nat /\ n <= MaxSearchTokens /\ MaxSearchTokens \in Nat
      /\ calls[o].text \in Texts
      /\ words # <<>> => words[n] \in SetOfWords(calls[o].text)
  <2>1. words \in Seq({words[i] : i \in DOMAIN words})
    BY <1>1, VaultAssumption DEF VaultAssumption, Flights
  <2>2. words # <<>> => n \in DOMAIN words
    BY <1>1, <2>1 DEF Ready, Flights
  <2>3. MaxSearchTokens \in Nat
    BY VaultAssumption DEF VaultAssumption
  <2> QED BY <1>1, <2>2, <2>3 DEF Ready, Flights, SetOfWords
<1>5. /\ hits \subseteq IdsOf(rows)
      /\ \A i \in hits : Matches(rows[i], calls[o].text)
  BY <1>4 DEF Search, Freshest, Matches
<1> HIDE DEF hits
<1>6. merged \in Tables
  BY <1>1, <1>2 DEF Tables, Flights
<1>7. o \notin overlapped =>
        \A i \in IdsOf(merged) :
          rows[i] = merged[i] /\ (calls[o].tool = "forget" => Matches(rows[i], calls[o].text))
  <2>1. o \notin overlapped => Lone(calls[o])
    BY <1>1 DEF LoneInv
  <2>2. ASSUME NEW i \in IdsOf(merged), i \notin hits PROVE i \in IdsOf(calls[o].found)
    BY <1>1, <2>2 DEF IdsOf, Tables, Flights
  <2>3. IdsOf(merged) \subseteq Ops
    BY DEF IdsOf
  <2> QED BY <1>1, <1>5, <2>1, <2>2, <2>3 DEF Lone
<1> HIDE DEF n, merged
<1>8. /\ c \in Flights /\ c.tool = calls[o].tool /\ c.text = calls[o].text
      /\ c.now = calls[o].now /\ c.target = calls[o].target
      /\ c.found = merged /\ c.searched = n
  BY <1>1, <1>4, <1>6 DEF Flights
<1> HIDE DEF words, matches, c
<1>9. CASE n < Len(words) /\ n < MaxSearchTokens
  <2>1. Goto(o, "search", c)
    BY <1>9 DEF SearchWord, words, n, hits, merged, c
  <2>2. PICK v : v = [c EXCEPT !.at = "search"] /\ Moved(v, c, "search")
    BY <1>8, Moves DEF Places
  <2>3. v \in Stage
    <3>1. n < Len(WordsOf[v.text]) /\ v.searched = n
      BY <1>8, <1>9, <2>2 DEF Moved, words
    <3>2. Ready(v)
      BY <1>1, <1>4, <1>8, <1>9, <2>2, <3>1 DEF Ready, Moved
    <3> QED BY <2>2, <3>2 DEF Stage, Moved
  <2>4. o \notin overlapped => Lone(v)'
    BY <1>2, <1>7, <1>8, <2>2 DEF Lone, Moved, Matches
  <2> QED BY <1>1, <1>2, <1>3, <2>1, <2>2, <2>3, <2>4, StepKeeps DEF Goto
<1>10. CASE ~(n < Len(words) /\ n < MaxSearchTokens) /\ calls[o].tool = "remember"
  <2> DEFINE similar == {i \in Freshest(merged, IdsOf(merged), CandidateLimit) :
                           Similar(merged[i], c.text)}
  <2>1. PICK e : /\ e = IF words = <<>> THEN NoRow ELSE FirstSimilar(merged, c.text)
                 /\ e = NoRow \/ \E i \in IdsOf(merged) : e = merged[i]
    <3>1. CASE similar # {}
      <4>1. similar \subseteq IdsOf(merged)
        BY DEF Freshest
      <4>2. Newest(merged, similar) \in IdsOf(merged)
        BY <1>6, <3>1, <4>1, NewestExists
      <4> QED BY <3>1, <4>2 DEF FirstSimilar
    <3>2. CASE similar = {}
      BY <3>2 DEF FirstSimilar
    <3> QED BY <3>1, <3>2
  <2>2. Decide(o, c, e)
    <3>1. Decide(o, c, IF words = <<>> THEN NoRow ELSE FirstSimilar(merged, c.text))
      BY <1>10 DEF SearchWord, words, n, hits, merged, c
    <3> QED BY <2>1, <3>1
  <2>3. /\ e \in Row \cup {NoRow}
        /\ e # NoRow /\ o \notin overlapped => e.id \in Ops /\ rows[e.id] # NoRow
    BY <1>6, <1>7, <2>1 DEF Tables, IdsOf
  <2>4. /\ c.tool = "remember" /\ c.text \notin Secrets /\ c.now # 0
        /\ c.searched <= MaxSearchTokens /\ c.target = NoRow
    BY <1>1, <1>4, <1>8, <1>10 DEF Ready
  <2>5. PICK d \in Flights : d = c
    BY <1>8
  <2> QED BY <1>1, <1>2, <2>2, <2>3, <2>4, <2>5, DecideKeeps
<1>11. CASE ~(n < Len(words) /\ n < MaxSearchTokens) /\ calls[o].tool # "remember"
  <2>1. IF matches = {} THEN Finish(o, "forgot")
        ELSE Goto(o, "delete", [c EXCEPT !.victims = matches])
    BY <1>11 DEF SearchWord, words, n, hits, merged, c, matches
  <2>2. CASE matches = {}
    BY <1>1, <1>2, <1>3, <2>1, <2>2, EndingKeeps DEF Outcomes
  <2>3. CASE matches # {}
    <3>1. matches \subseteq IdsOf(merged) /\ matches \in SUBSET Ops
      BY <1>6 DEF matches, Freshest, IdsOf, Tables
    <3> DEFINE d == [c EXCEPT !.victims = matches]
    <3>2. /\ d \in Flights /\ d.tool = c.tool /\ d.text = c.text /\ d.found = c.found
          /\ d.searched = c.searched /\ d.target = c.target /\ d.victims = matches
      BY <1>8, <3>1 DEF Flights
    <3> HIDE DEF d
    <3>3. PICK v : v = [d EXCEPT !.at = "delete"] /\ Moved(v, d, "delete")
      BY <3>2, Moves DEF Places
    <3>4. v \in Stage
      <4>1. v.tool = "forget"
        BY <1>1, <1>8, <1>11, <3>2, <3>3 DEF Moved, Flights
      <4>2. Ready(v)
        BY <1>1, <1>4, <1>8, <2>3, <3>1, <3>2, <3>3, <4>1 DEF Ready, Moved
      <4> QED BY <3>3, <4>2 DEF Stage, Moved
    <3>5. o \notin overlapped => Lone(v)'
      <4>1. calls[o].tool = "forget"
        BY <1>1, <1>11 DEF Flights
      <4>2. \A i \in IdsOf(merged) : merged[i] # NoRow
        BY DEF IdsOf
      <4> QED BY <1>2, <1>7, <1>8, <3>1, <3>2, <3>3, <4>1, <4>2 DEF Lone, Moved, Matches
    <3>6. calls' = [calls EXCEPT ![o] = v]
      BY <2>1, <2>3, <3>3 DEF Goto, d
    <3> QED BY <1>1, <1>2, <1>3, <3>4, <3>5, <3>6, StepKeeps
  <2> QED BY <2>2, <2>3
<1> QED BY <1>9, <1>10, <1>11

LEMMA UpdateKeeps ==
  ASSUME VaultInv, NEW o \in Ops, Update(o)
  PROVE  VaultInv'
<1> USE DEF VaultInv
<1>1. o \in Active /\ calls[o].at = "update" /\ calls[o].target \in Row
  BY InFlight DEF Update, At, Active, Places, Stage, Ready
<1>2. PICK row \in Row : row = calls[o].target /\ row.id \in Ops
  BY <1>1 DEF Row
<1>3. /\ rows' \in Tables /\ IdsOf(rows') = IdsOf(rows) \cup {row.id}
      /\ UNCHANGED <<clock, begun, overlapped>>
  BY <1>2, WriteDoes DEF Update, Types
<1>4. Finish(o, "updated") \/ Finish(o, "failed")
  BY DEF Update, Reported
<1>5. o \notin overlapped => IdsOf(rows') \subseteq IdsOf(rows)
  BY <1>1, <1>2, <1>3 DEF LoneInv, Lone, IdsOf, Tables, Types
<1>6. CASE o \in overlapped
  BY <1>1, <1>2, <1>3, <1>4, <1>6, EndingKeeps DEF Outcomes
<1>7. CASE o \notin overlapped
  BY <1>1, <1>3, <1>4, <1>5, <1>7, EndingKeeps DEF Outcomes
<1> QED BY <1>6, <1>7

LEMMA SaveKeeps ==
  ASSUME VaultInv, NEW o \in Ops, Save(o)
  PROVE  VaultInv'
<1> USE DEF VaultInv
<1>1. /\ o \in Active /\ calls[o].at = "save" /\ calls[o].text \in Texts \ Secrets
      /\ calls[o].topic \in Topics \cup {NoTopic} /\ calls[o].now \in 1..MaxOps
  BY InFlight, Numbers DEF Save, At, Active, Places, Stage, Flights, Ready
<1>2. PICK row \in Row :
        row.id = o /\ row = [id |-> o, content |-> calls[o].text, topic |-> calls[o].topic,
                             created |-> calls[o].now, updated |-> calls[o].now]
  BY <1>1 DEF Row
<1>3. /\ rows' \in Tables /\ IdsOf(rows') = IdsOf(rows) \cup {o}
      /\ UNCHANGED <<clock, begun, overlapped>>
  BY <1>2, WriteDoes DEF Save, Types
<1>4. Finish(o, "created") \/ Finish(o, "failed")
  BY DEF Save, Reported
<1>5. o \notin overlapped => Cardinality(IdsOf(rows')) <= Cap + Cardinality(overlapped)
  <2>1. /\ IsFiniteSet(IdsOf(rows)) /\ Cardinality(IdsOf(rows)) \in Nat
        /\ Cardinality(overlapped) \in Nat /\ Cap \in Nat
    BY Numbers, FS_Subset, FS_CardinalityType, VaultAssumption
    DEF Types, Tables, IdsOf, VaultAssumption
  <2>2. Cardinality(IdsOf(rows) \cup {o})
          \in {Cardinality(IdsOf(rows)), Cardinality(IdsOf(rows)) + 1}
    BY <2>1, FS_AddElement
  <2>3. o \notin overlapped => Cardinality(IdsOf(rows)) < Cap + Cardinality(overlapped)
    BY <1>1 DEF LoneInv, Lone
  <2> QED BY <1>3, <2>1, <2>2, <2>3
<1> QED BY <1>1, <1>3, <1>4, <1>5, EndingKeeps DEF Outcomes

LEMMA MakeRoomKeeps ==
  ASSUME VaultInv, NEW o \in Ops, Count(o) \/ FindOldest(o)
  PROVE  VaultInv'
<1> USE DEF VaultInv
<1>1. /\ o \in Active /\ calls[o] \in Flights /\ Ready(calls[o])
      /\ calls[o].at \in {"count", "oldest"}
  BY InFlight DEF Count, FindOldest, At, Active, Places, Stage
<1>2. UNCHANGED <<rows, clock, begun, overlapped>> /\ rows \in Tables
  BY DEF Count, FindOldest, Types
<1>3. rows' \in Tables /\ IdsOf(rows') \subseteq IdsOf(rows)
  BY <1>2
<1>4. /\ Cardinality(IdsOf(rows)) \in Nat /\ Cardinality(overlapped) \in Nat /\ Cap \in Nat \ {0}
      /\ Cardinality(IdsOf(rows)) = 0 <=> IdsOf(rows) = {}
  BY Numbers, FS_Subset, FS_CardinalityType, FS_EmptySet, VaultAssumption
  DEF Types, Tables, IdsOf, VaultAssumption
<1>5. calls[o].tool = "remember" /\ calls[o].target = NoRow
  BY <1>1 DEF Ready
<1>6. ASSUME Goto(o, "save", calls[o]),
             o \notin overlapped => Cardinality(IdsOf(rows)) < Cap + Cardinality(overlapped)
      PROVE  VaultInv'
  <2>1. PICK v : v = [calls[o] EXCEPT !.at = "save"] /\ Moved(v, calls[o], "save")
    BY <1>1, Moves DEF Places
  <2>2. v \in Stage
    BY <1>1, <1>5, <2>1 DEF Stage, Ready, Moved
  <2>3. o \notin overlapped => Lone(v)'
    BY <1>2, <1>6, <2>1 DEF Lone, Moved
  <2> QED BY <1>1, <1>2, <1>3, <1>6, <2>1, <2>2, <2>3, StepKeeps DEF Goto
<1>7. CASE Count(o)
  <2>1. CASE Cardinality(IdsOf(rows)) < Cap
    BY <1>4, <1>6, <1>7, <2>1 DEF Count
  <2>2. CASE ~(Cardinality(IdsOf(rows)) < Cap)
    <3>1. Goto(o, "oldest", calls[o])
      BY <1>7, <2>2 DEF Count
    <3>2. PICK v : v = [calls[o] EXCEPT !.at = "oldest"] /\ Moved(v, calls[o], "oldest")
      BY <1>1, Moves DEF Places
    <3>3. v \in Stage
      BY <1>1, <1>5, <3>2 DEF Stage, Ready, Moved
    <3>4. Lone(v)'
      BY <1>2, <1>4, <2>2, <3>2 DEF Lone, Moved
    <3> QED BY <1>1, <1>2, <1>3, <3>1, <3>2, <3>3, <3>4, StepKeeps DEF Goto
  <2> QED BY <2>1, <2>2
<1>8. CASE FindOldest(o)
  <2>1. calls[o].at = "oldest"
    BY <1>8 DEF FindOldest, At
  <2>2. o \notin overlapped => Cardinality(IdsOf(rows)) >= Cap
    BY <1>1, <2>1 DEF LoneInv, Lone
  <2>3. CASE IdsOf(rows) = {}
    BY <1>4, <1>6, <1>8, <2>2, <2>3 DEF FindOldest
  <2>4. CASE IdsOf(rows) # {}
    <3> DEFINE oldest == Oldest(rows, IdsOf(rows))
               d == [calls[o] EXCEPT !.victims = {oldest}]
    <3>1. oldest \in IdsOf(rows) /\ {oldest} \in SUBSET Ops
      BY <1>2, <2>4, OldestExists DEF IdsOf, Tables
    <3>2. Goto(o, "evict", d)
      BY <1>8, <2>4 DEF FindOldest
    <3> HIDE DEF oldest
    <3>3. /\ d \in Flights /\ d.tool = "remember" /\ d.text = calls[o].text /\ d.now = calls[o].now
          /\ d.searched = calls[o].searched /\ d.target = NoRow /\ d.victims = {oldest}
      BY <1>1, <1>5, <3>1 DEF Flights
    <3> HIDE DEF d
    <3>4. PICK v : v = [d EXCEPT !.at = "evict"] /\ Moved(v, d, "evict")
      BY <3>3, Moves DEF Places
    <3>5. v \in Stage
      BY <1>1, <3>3, <3>4 DEF Stage, Ready, Moved
    <3>6. o \notin overlapped => Lone(v)'
      BY <1>2, <2>2, <3>1, <3>3, <3>4 DEF Lone, Moved, oldest
    <3> QED BY <1>1, <1>2, <1>3, <3>2, <3>4, <3>5, <3>6, StepKeeps DEF Goto
  <2> QED BY <2>3, <2>4
<1> QED BY <1>7, <1>8

LEMMA DeletesKeep ==
  ASSUME VaultInv, NEW o \in Ops, Evict(o) \/ DeleteMatch(o)
  PROVE  VaultInv'
<1> USE DEF VaultInv
<1>1. /\ o \in Active /\ calls[o] \in Flights /\ Ready(calls[o])
      /\ calls[o].at \in {"evict", "delete"}
  BY InFlight DEF Evict, DeleteMatch, At, Active, Places, Stage
<1>2. o \notin overlapped => Lone(calls[o])
  BY <1>1 DEF LoneInv
<1>3. UNCHANGED <<clock, begun, overlapped>> /\ rows \in Tables
  BY DEF Evict, DeleteMatch, Types
<1>4. CASE Evict(o)
  <2>1. calls[o].at = "evict"
    BY <1>4 DEF Evict, At
  <2>2. PICK i \in calls[o].victims : Write(i, NoRow)
    BY <1>4 DEF Evict
  <2>3. i \in Ops
    BY <1>1 DEF Flights
  <2>4. rows' \in Tables /\ IdsOf(rows') = IdsOf(rows) \ {i}
    BY <1>3, <2>2, <2>3, WriteDoes
  <2>5. CASE Finish(o, "failed")
    BY <1>1, <1>3, <2>4, <2>5, EndingKeeps DEF Outcomes
  <2>6. CASE Goto(o, "save", calls[o])
    <3>1. PICK v : v = [calls[o] EXCEPT !.at = "save"] /\ Moved(v, calls[o], "save")
      BY <1>1, Moves DEF Places
    <3>2. v \in Stage
      BY <1>1, <2>1, <3>1 DEF Stage, Ready, Moved
    <3>3. o \notin overlapped => Cardinality(IdsOf(rows')) < Cap + Cardinality(overlapped)
      <4>1. /\ IsFiniteSet(IdsOf(rows)) /\ Cardinality(IdsOf(rows)) \in Nat
            /\ IsFiniteSet(overlapped) /\ Cap \in Nat
        BY <1>3, Numbers, FS_Subset, FS_CardinalityType, VaultAssumption
        DEF Types, Tables, IdsOf, VaultAssumption
      <4>2. o \notin overlapped => i \in IdsOf(rows)
        BY <1>2, <2>1, <2>2 DEF Lone
      <4>3. i \in IdsOf(rows) => Cardinality(IdsOf(rows')) = Cardinality(IdsOf(rows)) - 1
        BY <2>4, <4>1, FS_RemoveElement
      <4>4. o \notin overlapped => Cardinality(IdsOf(rows)) <= Cap + Cardinality(overlapped)
        <5>1. o \notin overlapped => overlapped \ Active = overlapped
          BY <1>1 DEF LoneInv
        <5> QED BY <5>1 DEF Capped
      <4>5. Cardinality(overlapped) \in Nat
        BY <4>1, FS_CardinalityType
      <4> QED BY <4>1, <4>2, <4>3, <4>4, <4>5
    <3>4. o \notin overlapped => Lone(v)'
      BY <1>3, <3>1, <3>3 DEF Lone, Moved, IdsOf
    <3> QED BY <1>1, <1>3, <2>4, <2>6, <3>1, <3>2, <3>4, StepKeeps DEF Goto
  <2> QED BY <1>4, <2>5, <2>6 DEF Evict, Reported
<1>5. CASE DeleteMatch(o)
  <2>1. calls[o].at = "delete"
    BY <1>5 DEF DeleteMatch, At
  <2>2. /\ calls[o].tool = "forget" /\ calls[o].victims # {} /\ calls[o].target = NoRow
        /\ calls[o].victims \subseteq IdsOf(calls[o].found) /\ calls[o].found \in Tables
    BY <1>1, <2>1 DEF Ready, Flights
  <2>3. PICK i : i = Newest(calls[o].found, calls[o].victims) /\ i \in calls[o].victims
    BY <2>2, NewestExists
  <2>4. PICK left : left = calls[o].victims \ {i}
    OBVIOUS
  <2>5. Write(i, NoRow) /\ i \in Ops
    BY <1>1, <1>5, <2>3 DEF DeleteMatch, Flights
  <2>6. /\ rows' \in Tables /\ IdsOf(rows') = IdsOf(rows) \ {i}
        /\ \A j \in Ops : j # i => rows'[j] = rows[j]
    BY <1>3, <2>5, WriteDoes
  <2>7. \/ Finish(o, "forgot") \/ Finish(o, "failed")
        \/ left # {} /\ Goto(o, "delete", [calls[o] EXCEPT !.victims = left])
    BY <1>5, <2>3, <2>4 DEF DeleteMatch, Reported
  <2>8. CASE Finish(o, "forgot") \/ Finish(o, "failed")
    BY <1>1, <1>3, <2>6, <2>8, EndingKeeps DEF Outcomes
  <2>9. CASE left # {} /\ Goto(o, "delete", [calls[o] EXCEPT !.victims = left])
    <3> DEFINE d == [calls[o] EXCEPT !.victims = left]
    <3>1. /\ d \in Flights /\ d.tool = "forget" /\ d.text = calls[o].text
          /\ d.found = calls[o].found /\ d.searched = calls[o].searched /\ d.target = NoRow
          /\ d.victims = left
      BY <1>1, <2>2, <2>4 DEF Flights
    <3>2. Goto(o, "delete", d)
      BY <2>9
    <3> HIDE DEF d
    <3>3. PICK v : v = [d EXCEPT !.at = "delete"] /\ Moved(v, d, "delete")
      BY <3>1, Moves DEF Places
    <3>4. v \in Stage
      BY <1>1, <2>2, <2>4, <2>9, <3>1, <3>3 DEF Stage, Ready, Moved
    <3>5. o \notin overlapped => Lone(v)'
      <4>1. \A j \in left : j \in calls[o].victims /\ rows'[j] = rows[j]
        BY <1>1, <2>4, <2>6 DEF Flights
      <4> QED BY <1>2, <2>1, <3>1, <3>3, <4>1 DEF Lone, Moved, Matches
    <3> QED BY <1>1, <1>3, <2>6, <3>2, <3>3, <3>4, <3>5, StepKeeps DEF Goto
  <2> QED BY <2>7, <2>8, <2>9
<1> QED BY <1>4, <1>5

LEMMA FailKeeps ==
  ASSUME VaultInv, NEW o \in Ops, Fail(o)
  PROVE  VaultInv'
  BY EndingKeeps DEF Fail, Outcomes, VaultInv, Types

-----------------------------------------------------------------------------
StartedAt(place, now, tool, x, topic, start) ==
  [[Started(tool, x, topic, start) EXCEPT !.now = now] EXCEPT !.at = place]

MayStart(tool, x, now, place) ==
  /\ x \in Texts /\ now \in 0..MaxOps
  /\ \/ tool = "remember" /\ x \notin Secrets /\ now # 0 /\ place \in {"topic", "search"}
     \/ tool = "forget" /\ place = "search" /\ WordsOf[x] # <<>>

LEMMA StartsReady ==
  ASSUME NEW tool, NEW x, NEW topic \in Topics \cup {NoTopic}, NEW now, NEW place,
         NEW start \in Places,
         MayStart(tool, x, now, place)
  PROVE  /\ StartedAt(place, now, tool, x, topic, start) \in Stage
         /\ StartedAt(place, now, tool, x, topic, start).at = place
         /\ IdsOf(StartedAt(place, now, tool, x, topic, start).found) = {}
<1> DEFINE none == [i \in Ops |-> NoRow]
           s == Started(tool, x, topic, start)
           t == [s EXCEPT !.now = now]
           w == StartedAt(place, now, tool, x, topic, start)
<1>1. none \in Tables /\ IdsOf(none) = {}
  BY DEF Tables, IdsOf
<1>2. 0 < MaxSearchTokens /\ 0 <= MaxSearchTokens
  BY VaultAssumption DEF VaultAssumption
<1>3. /\ s \in Flights /\ s.tool = tool /\ s.text = x /\ s.found = none /\ s.searched = 0
      /\ s.target = NoRow
  <2>1. s = [at |-> start, tool |-> tool, text |-> x, topic |-> topic, now |-> 0,
             found |-> none, searched |-> 0, target |-> NoRow, victims |-> {}]
    BY DEF Started
  <2>2. 0 \in 0..MaxOps /\ tool \in {"remember", "forget"} /\ x \in Texts
    BY Numbers DEF MayStart
  <2> HIDE DEF none, s
  <2> QED BY <1>1, <2>1, <2>2 DEF Flights
<1> HIDE DEF none, s
<1>4. /\ t \in Flights /\ t.tool = tool /\ t.text = x /\ t.now = now /\ t.found = none
      /\ t.searched = 0 /\ t.target = NoRow
  BY <1>3 DEF Flights, MayStart
<1> HIDE DEF t
<1>5. Moved(w, t, place)
  <2>1. place \in Places
    BY DEF MayStart, Places
  <2> QED BY <1>4, <2>1, Moves DEF StartedAt, t, s
<1> HIDE DEF w
<1>6. Ready(w)
  BY <1>1, <1>2, <1>4, <1>5 DEF Ready, Moved, MayStart
<1> QED BY <1>1, <1>4, <1>5, <1>6 DEF Stage, Moved, w

\* A new call: if others are in flight, all of them are overlapped from now on.
LEMMA BeginKeeps ==
  ASSUME VaultInv, NEW o \in Ops, Begin(o)
  PROVE  VaultInv'
<1> USE DEF VaultInv
<1>1. /\ o = begun + 1 /\ begun \in Nat /\ begun' = o /\ o \in 1..MaxOps /\ UNCHANGED rows
      /\ overlapped' = overlapped \cup (IF Active = {} THEN {} ELSE Active \cup {o})
  BY Numbers DEF Begin, Types, Ops
<1>2. calls[o] = Idle /\ o \notin overlapped /\ o \notin Active
  BY <1>1 DEF Types, Active, Idle, Places
<1>3. PICK v \in Stage \cup Ended :
        /\ calls' = [calls EXCEPT ![o] = v]
        /\ clock' \in 0..o
        /\ v \in Stage => v.at \in {"topic", "search"} /\ IdsOf(v.found) = {}
  <2>1. clock \in Nat /\ clock <= begun
    BY <1>1 DEF Types
  <2>4. CASE \E x \in Texts \ Secrets, topic \in Topics \cup {NoTopic} :
               /\ clock' = clock + 1
               /\ Goto(o, IF topic = NoTopic THEN "search" ELSE "topic",
                       [Started("remember", x, topic, "topic") EXCEPT !.now = clock'])
    <3>1. PICK x \in Texts \ Secrets, topic \in Topics \cup {NoTopic} :
               /\ clock' = clock + 1
               /\ Goto(o, IF topic = NoTopic THEN "search" ELSE "topic",
                       [Started("remember", x, topic, "topic") EXCEPT !.now = clock'])
      BY <2>4
    <3>2. clock' \in 0..MaxOps /\ clock' # 0 /\ clock' \in 0..o
      BY <1>1, <2>1, <3>1, Numbers
    <3>3. PICK place \in {"topic", "search"} :
            Goto(o, place, [Started("remember", x, topic, "topic") EXCEPT !.now = clock'])
      BY <3>1, <3>2
    <3>4. PICK w : w = StartedAt(place, clock', "remember", x, topic, "topic")
      OBVIOUS
    <3>5. w \in Stage /\ w.at = place /\ IdsOf(w.found) = {}
      <4>1. "topic" \in Places /\ MayStart("remember", x, clock', place)
        BY <3>2 DEF Places, MayStart
      <4>2. /\ StartedAt(place, clock', "remember", x, topic, "topic") \in Stage
            /\ StartedAt(place, clock', "remember", x, topic, "topic").at = place
            /\ IdsOf(StartedAt(place, clock', "remember", x, topic, "topic").found) = {}
        BY <4>1, StartsReady, Zenon
      <4> QED BY <3>4, <4>2
    <3>6. calls' = [calls EXCEPT ![o] = w]
      BY <3>3, <3>4 DEF Goto, StartedAt
    <3> QED BY <3>2, <3>3, <3>5, <3>6
  <2>5. CASE Secrets # {} /\ Finish(o, "rejected") /\ UNCHANGED clock
    <3>1. PICK w \in Ended : w = [at |-> "done", outcome |-> "rejected"]
      BY DEF Ended, Outcomes
    <3>2. calls' = [calls EXCEPT ![o] = w] /\ w \notin Stage
      BY <2>5, <3>1, InFlight DEF Finish
    <3>3. clock' \in 0..o
      BY <1>1, <2>1, <2>5
    <3> QED BY <3>1, <3>2, <3>3
  <2>6. CASE \E x \in {y \in Texts : WordsOf[y] # <<>>} :
               /\ Goto(o, "search", Started("forget", x, NoTopic, "search"))
               /\ UNCHANGED clock
    <3>1. PICK x \in Texts : /\ WordsOf[x] # <<>> /\ UNCHANGED clock
                             /\ Goto(o, "search", Started("forget", x, NoTopic, "search"))
      BY <2>6
    <3>2. PICK w : w = StartedAt("search", 0, "forget", x, NoTopic, "search")
      OBVIOUS
    <3>3. w \in Stage /\ w.at = "search" /\ IdsOf(w.found) = {}
      <4>1. "search" \in Places /\ MayStart("forget", x, 0, "search")
        BY <3>1, Numbers DEF Places, MayStart
      <4>2. /\ StartedAt("search", 0, "forget", x, NoTopic, "search") \in Stage
            /\ StartedAt("search", 0, "forget", x, NoTopic, "search").at = "search"
            /\ IdsOf(StartedAt("search", 0, "forget", x, NoTopic, "search").found) = {}
        BY <4>1, StartsReady, Zenon
      <4> QED BY <3>2, <4>2
    <3>4. w = [Started("forget", x, NoTopic, "search") EXCEPT !.at = "search"]
      <4>1. [Started("forget", x, NoTopic, "search") EXCEPT !.now = 0]
              = Started("forget", x, NoTopic, "search")
        BY DEF Started
      <4> QED BY <3>2, <4>1 DEF StartedAt
    <3>5. calls' = [calls EXCEPT ![o] = w]
      BY <3>1, <3>4 DEF Goto
    <3>6. clock' \in 0..o
      BY <1>1, <2>1, <3>1
    <3> QED BY <3>3, <3>5, <3>6
  <2> QED BY <2>4, <2>5, <2>6 DEF Begin
<1>4. Types'
  <2>1. calls' \in [Ops -> {Idle} \cup Ended \cup Stage] /\ overlapped' \subseteq Ops
    BY <1>1, <1>3 DEF Types, Active
  <2>2. ASSUME NEW p \in Ops, p > o PROVE calls'[p] = Idle /\ p \notin overlapped'
    <3>1. calls[p] = Idle /\ p \notin overlapped /\ p # o
      BY <1>1, <2>2, Numbers DEF Types
    <3>2. p \notin Active
      BY <3>1 DEF Active, Idle, Places
    <3> QED BY <1>1, <1>3, <3>1, <3>2 DEF Types
  <2>3. rows' \in Tables /\ begun' \in 0..MaxOps /\ clock' \in 0..begun'
    BY <1>1, <1>3 DEF Types
  <2> QED BY <1>1, <2>1, <2>2, <2>3 DEF Types
<1>5. Active' = (IF v \in Stage THEN Active \cup {o} ELSE Active) /\ (v \in Stage => v \notin Ended)
  BY <1>2, <1>3, <1>4, InFlight DEF Active, Types
<1>6. LoneInv'
  <2>1. ASSUME NEW p \in Active', p \notin overlapped' PROVE Active' = {p} /\ Lone(calls[p])'
    <3>1. Active = {} /\ p = o /\ v \in Stage /\ Active' = {o}
      BY <1>1, <1>5, <2>1
    <3>2. calls'[p] = v
      BY <1>3, <3>1 DEF Types
    <3> QED BY <1>3, <3>1, <3>2 DEF Lone
  <2> QED BY <2>1 DEF LoneInv
<1>7. Capped'
  <2>1. overlapped \ Active \subseteq overlapped' \ Active' /\ overlapped' \ Active' \subseteq Ops
    BY <1>1, <1>2, <1>4, <1>5 DEF Types
  <2>2. IsFiniteSet(overlapped' \ Active')
    BY <2>1, Numbers, FS_Subset
  <2>3. IsFiniteSet(overlapped \ Active)
        /\ Cardinality(overlapped \ Active) <= Cardinality(overlapped' \ Active')
    BY <2>1, <2>2, FS_Subset
  <2>4. /\ IsFiniteSet(IdsOf(rows)) /\ Cardinality(IdsOf(rows)) \in Nat /\ Cap \in Nat
        /\ Cardinality(overlapped \ Active) \in Nat /\ Cardinality(overlapped' \ Active') \in Nat
    BY <2>2, <2>3, Numbers, FS_Subset, FS_CardinalityType, VaultAssumption
    DEF Types, Tables, IdsOf, VaultAssumption
  <2>5. IdsOf(rows)' = IdsOf(rows)
    BY <1>1
  <2> QED BY <2>3, <2>4, <2>5 DEF Capped
<1> QED BY <1>4, <1>6, <1>7

LEMMA Stays == VaultInv /\ [Next]_vars => VaultInv'
<1> SUFFICES ASSUME VaultInv, [Next]_vars PROVE VaultInv'
  OBVIOUS
<1>1. ASSUME Next PROVE VaultInv'
  BY <1>1, FindByTopicKeeps, SearchWordKeeps, UpdateKeeps, SaveKeeps, MakeRoomKeeps, DeletesKeep,
     FailKeeps, BeginKeeps DEF Next
<1>2. CASE UNCHANGED vars
  <2>1. Types' /\ Active' = Active /\ IdsOf(rows)' = IdsOf(rows) /\ overlapped' = overlapped
    BY <1>2 DEF vars, VaultInv, Types, Active
  <2>2. ASSUME NEW o \in Active, Lone(calls[o]) PROVE Lone(calls[o])'
    BY <1>2, <2>1, <2>2 DEF vars, Lone
  <2> QED BY <2>1, <2>2 DEF VaultInv, LoneInv, Capped
<1> QED BY <1>1, <1>2

LEMMA Invariance == Spec => []VaultInv
BY Begins, Stays, PTL DEF Spec

-----------------------------------------------------------------------------
\* Rows, calls and the clock keep their types and their bounds.
THEOREM TypeCorrect == Spec => []TypeOK
<1>1. ASSUME VaultInv PROVE TypeOK
  <2>1. \A i \in Ops : rows[i] = NoRow \/ (rows[i] \in Row /\ rows[i].id = i)
    BY <1>1 DEF VaultInv, Types, Tables
  <2>2. clock \in 0..MaxOps /\ begun \in 0..MaxOps /\ overlapped \subseteq Ops
    BY <1>1, Numbers DEF VaultInv, Types
  <2>3. ASSUME NEW c \in Stage PROVE ActiveCall(c)
    BY VaultAssumption DEF Stage, Flights, Ready, Tables, ActiveCall, VaultAssumption
  <2>4. \A o \in Ops : calls[o] = Idle \/ calls[o] \in Ended \/ calls[o] \in Stage
    BY <1>1 DEF VaultInv, Types
  <2> QED BY <2>1, <2>2, <2>3, <2>4 DEF TypeOK, Ended
<1> QED BY <1>1, Invariance, PTL

\* However many calls run at once, each of those that overlapped another adds at most
\* one entry above the cap, and calls that run one after another keep it.
THEOREM Overshoot == Spec => []OvershootBounded
<1>1. ASSUME VaultInv PROVE OvershootBounded
  <2>1. IsFiniteSet(overlapped) /\ overlapped \ Active \in SUBSET overlapped
    BY <1>1, Numbers, FS_Subset DEF VaultInv, Types
  <2>2. Cardinality(overlapped \ Active) <= Cardinality(overlapped)
    BY <2>1, FS_Subset
  <2>3. /\ IsFiniteSet(IdsOf(rows)) /\ IsFiniteSet(overlapped \ Active)
    BY <1>1, <2>1, Numbers, FS_Subset DEF VaultInv, Types, Tables, IdsOf
  <2>4. /\ Cardinality(IdsOf(rows)) \in Nat /\ Cardinality(overlapped \ Active) \in Nat
        /\ Cardinality(overlapped) \in Nat /\ Cap \in Nat
    BY <2>1, <2>3, FS_CardinalityType, VaultAssumption DEF VaultAssumption
  <2> QED BY <1>1, <2>2, <2>4 DEF VaultInv, Capped, OvershootBounded
<1> QED BY <1>1, Invariance, PTL

\* A deleted entry comes back only through an update of a call that overlapped another.
THEOREM ComesBack == Spec => ComesBackOnlyInOverlap
<1> DEFINE Asked(i) ==
      \/ i \in Active /\ calls[i].at = "save"
      \/ \E o \in Active \cap overlapped : calls[o].at = "update" /\ calls[o].target.id = i
<1>1. ASSUME VaultInv, [Next]_vars, NEW i \in Ops, rows[i] = NoRow, rows'[i] # NoRow
      PROVE  Asked(i)
  <2>1. PICK o \in Ops : Update(o) \/ Save(o)
    <3>1. ASSUME NEW o \in Ops, Evict(o) \/ DeleteMatch(o) PROVE rows'[i] = NoRow
      <4>1. PICK j : Write(j, NoRow)
        BY <3>1 DEF Evict, DeleteMatch
      <4> QED BY <1>1, <4>1 DEF Write, VaultInv, Types, Tables
    <3> QED BY <1>1, <3>1
         DEF Next, vars, Begin, FindByTopic, SearchWord, Count, FindOldest, Fail
  <2>2. rows \in Tables /\ Types
    BY <1>1 DEF VaultInv, Types
  <2>3. CASE Save(o)
    <3>1. o \in Active /\ calls[o].at = "save"
      BY <2>3 DEF Save, At, Active, Places
    <3>2. i = o
      BY <1>1, <2>2, <2>3 DEF Save, Write, Tables
    <3> QED BY <3>1, <3>2
  <2>4. CASE Update(o)
    <3>1. o \in Active /\ calls[o].at = "update"
      BY <2>4 DEF Update, At, Active, Places
    <3>2. calls[o].target.id = i
      BY <1>1, <2>2, <2>4 DEF Update, Write, Tables
    <3>3. o \in overlapped
      BY <1>1, <3>1, <3>2 DEF VaultInv, LoneInv, Lone
    <3> QED BY <3>1, <3>2, <3>3
  <2> QED BY <2>1, <2>3, <2>4
<1>2. VaultInv /\ [Next]_vars =>
        [\A i \in Ops : rows[i] = NoRow /\ rows'[i] # NoRow => Asked(i)]_vars
  BY <1>1
<1> QED BY <1>2, Invariance, PTL DEF Spec, ComesBackOnlyInOverlap

\* A call that overlaps no other deletes only what the user asked to forget, or the
\* oldest entry of a full vault.
THEOREM NothingLost == Spec => NothingLostNeedlessly
<1> DEFINE Wanted(i) ==
      \/ \E o \in Active : calls[o].tool = "forget"
           /\ \E w \in SetOfWords(calls[o].text) : Contains(rows[i], w)
      \/ /\ i = Oldest(rows, IdsOf(rows))
         /\ Cardinality(IdsOf(rows)) >= Cap
<1>1. ASSUME VaultInv, [Next]_vars, Active \cap overlapped = {},
             NEW i \in IdsOf(rows), rows'[i] = NoRow
      PROVE  Wanted(i)
  <2>1. rows \in Tables /\ Types /\ rows[i] # NoRow /\ i \in Ops
    BY <1>1 DEF VaultInv, Types, Tables, IdsOf
  <2>2. PICK o \in Ops : Evict(o) \/ DeleteMatch(o)
    <3>1. ASSUME NEW o \in Ops, Update(o) \/ Save(o) PROVE rows'[i] # NoRow
      <4>1. PICK j, row : Write(j, row) /\ row # NoRow
        <5>1. CASE Update(o)
          <6>1. calls[o].target \in Row
            BY <2>1, <5>1, InFlight DEF Update, At, Active, Places, Stage, Ready
          <6> QED BY <5>1, <6>1, NoRowIsNone DEF Update
        <5>2. CASE Save(o)
          <6>1. [id |-> o, content |-> calls[o].text, topic |-> calls[o].topic,
                 created |-> calls[o].now, updated |-> calls[o].now] # NoRow
            BY DEF NoRow
          <6> QED BY <5>2, <6>1 DEF Save
        <5> QED BY <3>1, <5>1, <5>2
      <4> QED BY <2>1, <4>1 DEF Write, Tables
    <3> QED BY <1>1, <2>1, <3>1
         DEF Next, vars, Begin, FindByTopic, SearchWord, Count, FindOldest, Fail
  <2>3. o \in Active /\ Lone(calls[o])
    BY <1>1, <2>2 DEF Evict, DeleteMatch, At, Active, Places, VaultInv, LoneInv
  <2>4. PICK j \in calls[o].victims : Write(j, NoRow)
    <3>1. CASE DeleteMatch(o)
      <4>1. calls[o] \in Stage /\ calls[o].at = "delete"
        BY <2>1, <2>3, <3>1, InFlight DEF DeleteMatch, At
      <4>2. Newest(calls[o].found, calls[o].victims) \in calls[o].victims
        BY <4>1, NewestExists DEF Stage, Flights, Ready
      <4> QED BY <3>1, <4>2 DEF DeleteMatch
    <3> QED BY <2>2, <3>1 DEF Evict
  <2>5. i = j
    BY <1>1, <2>1, <2>4 DEF Write, Tables
  <2>6. CASE Evict(o)
    BY <2>3, <2>4, <2>5, <2>6 DEF Evict, At, Lone
  <2>7. CASE DeleteMatch(o)
    <3>1. calls[o].at = "delete" /\ calls[o].tool = "forget"
      BY <2>1, <2>3, <2>7, InFlight DEF DeleteMatch, At, Stage, Ready
    <3> QED BY <2>3, <2>4, <2>5, <3>1 DEF Lone, Matches
  <2> QED BY <2>2, <2>6, <2>7
<1>2. VaultInv /\ [Next]_vars =>
        [Active \cap overlapped = {} =>
           \A i \in IdsOf(rows) : rows'[i] = NoRow => Wanted(i)]_vars
  BY <1>1
<1> QED BY <1>2, Invariance, PTL DEF Spec, NothingLostNeedlessly
-----------------------------------------------------------------------------
\* The rows of a table that contain a word, and those among ids fresher than one of them.
Containing(t, w) == {i \in IdsOf(t) : Contains(t[i], w)}
Fresher(t, ids, i) == {j \in ids : t[j].updated > t[i].updated}

\* Every row on a topic is hidden from a search for it by enough fresher mentions,
\* counting the rows that are to go.
Hides(t, topic, going) ==
  \A i \in IdsOf(t) : t[i].topic = topic =>
    Cardinality(Fresher(t, Containing(t, topic), i) \cup going) >= CandidateLimit

\* What a remember that runs beside no other call knows of its topic, once it has looked
\* for it.
Remembers(t, c) ==
  /\ c.at \in {"search", "count", "oldest"} => c.topic = NoTopic \/ Hides(t, c.topic, {})
  /\ c.at \in {"evict", "save"} => c.topic = NoTopic \/ Hides(t, c.topic, c.victims)
  /\ c.at = "update" =>
       \/ c.target.topic = t[c.target.id].topic
       \/ c.topic # NoTopic /\ c.target.topic = c.topic /\ Hides(t, c.topic, {})

Sought(c) == {WordsOf[c.text][n] : n \in DOMAIN WordsOf[c.text] \cap 1..MaxSearchTokens}
Remain(t, c) == {i \in IdsOf(t) : \E w \in Sought(c) : Contains(t[i], w)}

Found(t, w) == Freshest(t, Containing(t, w), ForgetLimit)
FoundBy(t, c, n) == UNION {Found(t, WordsOf[c.text][m]) : m \in 1..n}
Taken(c) == Freshest(c.found, IdsOf(c.found), ForgetLimit)

\* Enough rows have been chosen for deletion, all of them updated after a given one.
Outnumbered(c, row) ==
  /\ Cardinality(Taken(c)) >= ForgetLimit
  /\ \A j \in Taken(c) : row.updated < c.found[j].updated

\* What a forget that runs beside no other call knows: what it found is what its searches
\* return now; and once it deletes, what is gone and why the rest may stay.
Forgets(t, c) ==
  /\ c.at = "search" => IdsOf(c.found) = FoundBy(t, c, c.searched)
  /\ c.at = "delete" =>
       /\ c.victims \subseteq Taken(c)
       /\ \A i \in IdsOf(c.found) :
            t[i] = IF i \in Taken(c) \ c.victims THEN NoRow ELSE c.found[i]
       /\ \A i \in Remain(t, c) \ c.victims : Outnumbered(c, t[i])

Knows(t, c) == IF c.tool = "forget" THEN Forgets(t, c) ELSE Remembers(t, c)

KnowsInv == \A o \in Active \ overlapped : Knows(rows, calls[o])

-----------------------------------------------------------------------------
\* What a bounded search leaves out is hidden by rows it returns, all of them fresher.
LEMMA LeftOut ==
  ASSUME NEW t \in Tables, NEW ids \in SUBSET IdsOf(t), NEW limit \in Nat,
         NEW i \in ids, i \notin Freshest(t, ids, limit)
  PROVE  /\ Cardinality(Fresher(t, ids, i)) >= limit
         /\ Cardinality(Freshest(t, ids, limit)) >= limit
         /\ \A j \in Freshest(t, ids, limit) : t[i].updated < t[j].updated
<1> DEFINE best == Freshest(t, ids, limit)
           rest == ids \ best
<1>1. IsFiniteSet(ids) /\ \A j \in ids : t[j].updated \in Nat
  BY Numbers, FS_Subset DEF Tables, IdsOf, Row
<1>2. \A j \in ids : Fresher(t, ids, j) \in SUBSET ids
  BY DEF Fresher
<1>3. \A j \in ids : IsFiniteSet(Fresher(t, ids, j)) /\ Cardinality(Fresher(t, ids, j)) \in Nat
  BY <1>1, <1>2, FS_Subset, FS_CardinalityType
<1>4. best \in SUBSET ids /\ \A j \in ids : j \in best <=> Cardinality(Fresher(t, ids, j)) < limit
  BY DEF Freshest, Fresher
<1>5. IsFiniteSet(best) /\ Cardinality(best) \in Nat
  BY <1>1, <1>4, FS_Subset, FS_CardinalityType
<1> HIDE DEF best
<1>6. Cardinality(Fresher(t, ids, i)) >= limit
  BY <1>3, <1>4 DEF best
<1>7. ASSUME NEW j \in best PROVE t[i].updated < t[j].updated
  <2>1. CASE t[j].updated <= t[i].updated
    <3>1. Fresher(t, ids, i) \in SUBSET Fresher(t, ids, j)
      BY <1>1, <1>4, <2>1 DEF Fresher
    <3>2. j \in ids
      BY <1>4
    <3>3. Cardinality(Fresher(t, ids, i)) <= Cardinality(Fresher(t, ids, j))
      BY <1>3, <3>1, <3>2, FS_Subset
    <3>4. Cardinality(Fresher(t, ids, j)) < limit
      BY <1>4, <3>2
    <3> QED BY <1>3, <1>6, <3>2, <3>3, <3>4
  <2>2. t[i].updated \in Nat /\ t[j].updated \in Nat
    BY <1>1, <1>4
  <2> QED BY <2>1, <2>2
<1>8. Cardinality(best) >= limit
  <2>1. rest \in SUBSET IdsOf(t) /\ rest # {} /\ rest \subseteq ids
    BY DEF best
  <2>2. PICK k \in rest : \A j \in rest : t[j].updated <= t[k].updated
    BY <2>1, NewestIs
  <2>3. Fresher(t, ids, k) \in SUBSET best
    <3>1. ASSUME NEW j \in ids, t[j].updated > t[k].updated PROVE j \in best
      BY <1>1, <2>1, <2>2, <3>1
    <3> QED BY <3>1 DEF Fresher
  <2>4. Cardinality(Fresher(t, ids, k)) <= Cardinality(best)
    BY <1>5, <2>3, FS_Subset
  <2>5. k \in ids /\ ~(Cardinality(Fresher(t, ids, k)) < limit)
    BY <1>4, <2>1
  <2> QED BY <1>3, <1>5, <2>4, <2>5
<1> QED BY <1>6, <1>7, <1>8 DEF best

\* A step of a call in flight: what the others know does not matter, for either they run
\* beside it or they are over.
LEMMA KnowledgeKept ==
  ASSUME VaultInv, KnowsInv, NEW o \in Active, NEW v, calls' = [calls EXCEPT ![o] = v],
         UNCHANGED overlapped,
         o \notin overlapped /\ v.at \in Places => Knows(rows', v)
  PROVE  KnowsInv'
<1>1. calls \in [Ops -> {Idle} \cup Ended \cup Stage] /\ o \in Ops
  BY DEF VaultInv, Types, Active
<1>2. ASSUME NEW p \in Active', p \notin overlapped PROVE Knows(rows', calls'[p])
  <2>1. p = o
    <3>1. CASE p # o
      <4>1. p \in Active
        BY <1>1, <3>1 DEF Active
      <4> QED BY <1>2, <3>1, <4>1 DEF VaultInv, LoneInv
    <3> QED BY <3>1
  <2>2. calls'[p] = v /\ v.at \in Places
    BY <1>1, <2>1 DEF Active
  <2>3. Knows(rows', v)
    BY <1>2, <2>1, <2>2
  <2> QED BY <2>2, <2>3
<1> QED BY <1>2 DEF KnowsInv

LEMMA EndingKnown ==
  ASSUME VaultInv, KnowsInv, NEW o \in Active, NEW r, Finish(o, r), UNCHANGED overlapped
  PROVE  KnowsInv'
<1>1. PICK v : v = [at |-> "done", outcome |-> r]
  OBVIOUS
<1>2. v.at \notin Places
  BY <1>1 DEF Places
<1> QED BY <1>1, <1>2, KnowledgeKept DEF Finish

\* More rows to go hide a topic all the better.
LEMMA HidesMore ==
  ASSUME rows \in Tables, NEW topic, NEW S \in SUBSET Ops, NEW T \in SUBSET Ops,
         S \subseteq T, Hides(rows, topic, S)
  PROVE  Hides(rows, topic, T)
<1>1. ASSUME NEW i \in IdsOf(rows), rows[i].topic = topic
      PROVE  Cardinality(Fresher(rows, Containing(rows, topic), i) \cup T) >= CandidateLimit
  <2> DEFINE few == Fresher(rows, Containing(rows, topic), i) \cup S
             many == Fresher(rows, Containing(rows, topic), i) \cup T
  <2>1. many \in SUBSET Ops /\ few \in SUBSET many
    BY DEF Fresher, Containing, IdsOf, Tables
  <2>2. Cardinality(few) >= CandidateLimit
    BY <1>1 DEF Hides
  <2>3. IsFiniteSet(many)
    BY <2>1, Numbers, FS_Subset
  <2> HIDE DEF few, many
  <2>4. /\ Cardinality(few) <= Cardinality(many)
        /\ IsFiniteSet(few)
    BY <2>1, <2>3, FS_Subset
  <2>5. /\ Cardinality(few) \in Nat /\ Cardinality(many) \in Nat
        /\ CandidateLimit \in Nat
    BY <2>3, <2>4, FS_CardinalityType, VaultAssumption DEF VaultAssumption
  <2>6. Cardinality(many) >= CandidateLimit
    BY <2>2, <2>4, <2>5
  <2> QED BY <2>6 DEF many
<1> QED BY <1>1 DEF Hides

\* Whatever a remember decides, it knows that its topic is hidden, or it updates the very
\* entry on the topic.
LEMMA DecideKnown ==
  ASSUME VaultInv, KnowsInv, NEW o \in Active, NEW c \in Flights, c.tool = "remember",
         NEW e \in Row \cup {NoRow}, Decide(o, c, e), UNCHANGED <<rows, overlapped>>,
         o \notin overlapped =>
           /\ e # NoRow => rows[e.id] = e
           /\ \/ c.topic = NoTopic \/ Hides(rows, c.topic, {})
              \/ e # NoRow /\ e.topic = c.topic
  PROVE  KnowsInv'
<1>1. CASE e = NoRow
  <2>1. PICK v : v = [c EXCEPT !.at = "count"] /\ Moved(v, c, "count")
    BY Moves DEF Places
  <2>2. calls' = [calls EXCEPT ![o] = v]
    BY <1>1, <2>1 DEF Decide, Goto
  <2>3. o \notin overlapped => Knows(rows', v)
    <3>1. o \notin overlapped => v.topic = NoTopic \/ Hides(rows', v.topic, {})
      BY <1>1, <2>1 DEF Moved, Hides, Containing
    <3> QED BY <2>1, <3>1 DEF Knows, Remembers, Moved
  <2> QED BY <2>2, <2>3, KnowledgeKept
<1>2. CASE e # NoRow /\ AlreadyHolds(e, c.text, c.topic)
  BY <1>2, EndingKnown DEF Decide
<1>3. CASE e # NoRow /\ ~AlreadyHolds(e, c.text, c.topic)
  <2> DEFINE target == [e EXCEPT !.content = c.text, !.updated = c.now,
                                 !.topic = IF c.topic = NoTopic THEN @ ELSE c.topic]
  <2>1. /\ target.id = e.id
        /\ target.topic = IF c.topic = NoTopic THEN e.topic ELSE c.topic
    BY <1>3 DEF Row
  <2> HIDE DEF target
  <2> DEFINE d == [c EXCEPT !.target = target]
  <2>2. PICK v : v = [d EXCEPT !.at = "update"]
    OBVIOUS
  <2>3. v.at = "update" /\ v.tool = "remember" /\ v.topic = c.topic /\ v.target = target
    BY <2>2 DEF Flights
  <2>4. calls' = [calls EXCEPT ![o] = v]
    BY <1>3, <2>2 DEF Decide, Goto, target
  <2>5. o \notin overlapped => Knows(rows', v)
    <3>1. ASSUME o \notin overlapped
          PROVE  \/ target.topic = rows'[target.id].topic
                 \/ c.topic # NoTopic /\ target.topic = c.topic /\ Hides(rows', c.topic, {})
      <4>1. CASE target.topic = e.topic
        BY <1>3, <2>1, <3>1, <4>1
      <4>2. CASE target.topic # e.topic
        <5>1. c.topic # NoTopic /\ target.topic = c.topic /\ Hides(rows, c.topic, {})
          BY <2>1, <3>1, <4>2
        <5> QED BY <5>1 DEF Hides, Containing
      <4> QED BY <4>1, <4>2
    <3> QED BY <2>3, <3>1 DEF Knows, Remembers, Hides, Containing
  <2> QED BY <2>4, <2>5, KnowledgeKept
<1> QED BY <1>1, <1>2, <1>3

-----------------------------------------------------------------------------
LEMMA FindByTopicKnown ==
  ASSUME VaultInv, KnowsInv, NEW o \in Ops, FindByTopic(o)
  PROVE  KnowsInv'
<1> DEFINE topic == calls[o].topic
           same == {i \in Search(topic, CandidateLimit) : rows[i].topic = topic}
<1>1. /\ o \in Active /\ calls[o] \in Flights /\ Ready(calls[o]) /\ calls[o].at = "topic"
      /\ calls[o].tool = "remember" /\ rows \in Tables /\ UNCHANGED <<rows, overlapped>>
  BY InFlight DEF FindByTopic, At, Active, Places, Stage, Ready, VaultInv, Types
<1>2. CASE same = {}
  <2>1. Hides(rows, topic, {})
    <3>1. ASSUME NEW i \in IdsOf(rows), rows[i].topic = topic
          PROVE  Cardinality(Fresher(rows, Containing(rows, topic), i)) >= CandidateLimit
      <4>1. i \in Containing(rows, topic) /\ Containing(rows, topic) \in SUBSET IdsOf(rows)
        BY <3>1 DEF Containing, Contains
      <4>2. i \notin Freshest(rows, Containing(rows, topic), CandidateLimit)
        BY <1>2, <3>1 DEF Search, Containing
      <4>3. CandidateLimit \in Nat
        BY VaultAssumption DEF VaultAssumption
      <4> QED BY <1>1, <4>1, <4>2, <4>3, LeftOut
    <3>2. \A S : S \cup {} = S
      OBVIOUS
    <3> QED BY <3>1, <3>2 DEF Hides
  <2>2. PICK v : v = [calls[o] EXCEPT !.at = "search"] /\ Moved(v, calls[o], "search")
    BY <1>1, Moves DEF Places
  <2>3. calls' = [calls EXCEPT ![o] = v]
    BY <1>2, <2>2 DEF FindByTopic, Goto
  <2>4. Knows(rows', v)
    BY <1>1, <2>1, <2>2 DEF Knows, Remembers, Moved
  <2> QED BY <1>1, <2>3, <2>4, KnowledgeKept
<1>3. CASE same # {}
  <2>1. same \in SUBSET IdsOf(rows)
    BY DEF Search, Freshest
  <2>2. PICK i \in same : i = Newest(rows, same)
    <3>1. \E i \in same : \A j \in same : rows[j].updated <= rows[i].updated
      BY <1>1, <1>3, <2>1, NewestIs
    <3> QED BY <3>1 DEF Newest
  <2>3. /\ rows[i] \in Row /\ rows[i].id = i /\ rows[i] # NoRow
        /\ rows[i].topic = topic
    BY <1>1, <2>1, <2>2 DEF IdsOf, Tables
  <2>4. PICK e \in Row : e = rows[i]
    BY <2>3
  <2>5. Decide(o, calls[o], e)
    BY <1>3, <2>2, <2>4 DEF FindByTopic
  <2> QED BY <1>1, <2>3, <2>4, <2>5, DecideKnown
<1> QED BY <1>2, <1>3

LEMMA EndsKnown ==
  ASSUME VaultInv, KnowsInv, NEW o \in Ops, Update(o) \/ Save(o) \/ Fail(o)
  PROVE  KnowsInv'
<1>1. o \in Active /\ UNCHANGED overlapped
  BY DEF Update, Save, Fail, At, Active, Places
<1>2. \E r : Finish(o, r)
  BY DEF Update, Save, Fail, Reported
<1> QED BY <1>1, <1>2, EndingKnown

LEMMA MakeRoomKnown ==
  ASSUME VaultInv, KnowsInv, NEW o \in Ops, Count(o) \/ FindOldest(o)
  PROVE  KnowsInv'
<1>1. /\ o \in Active /\ calls[o] \in Flights /\ calls[o].at \in {"count", "oldest"}
      /\ calls[o].tool = "remember" /\ rows \in Tables /\ UNCHANGED <<rows, overlapped>>
  BY InFlight DEF Count, FindOldest, At, Active, Places, Stage, Ready, VaultInv, Types
<1>2. o \notin overlapped => calls[o].topic = NoTopic \/ Hides(rows, calls[o].topic, {})
  BY <1>1 DEF KnowsInv, Knows, Remembers
<1>3. PICK place \in {"oldest", "save", "evict"}, S \in SUBSET Ops :
        Goto(o, place, [calls[o] EXCEPT !.victims = S])
  <2>1. [calls[o] EXCEPT !.victims = calls[o].victims] = calls[o] /\ calls[o].victims \in SUBSET Ops
    BY <1>1 DEF Flights
  <2>2. Oldest(rows, IdsOf(rows)) \in Ops \/ IdsOf(rows) = {}
    BY <1>1, OldestExists DEF IdsOf, Tables
  <2>3. CASE Count(o)
    <3>1. Goto(o, "save", calls[o]) \/ Goto(o, "oldest", calls[o])
      BY <2>3 DEF Count
    <3> QED BY <2>1, <3>1
  <2>4. CASE FindOldest(o)
    <3>1. \/ Goto(o, "save", calls[o])
          \/ /\ IdsOf(rows) # {}
             /\ Goto(o, "evict", [calls[o] EXCEPT !.victims = {Oldest(rows, IdsOf(rows))}])
      BY <2>4 DEF FindOldest
    <3> QED BY <2>1, <2>2, <3>1
  <2> QED BY <2>3, <2>4
<1>4. PICK d : d = [calls[o] EXCEPT !.victims = S]
  OBVIOUS
<1>5. PICK v : v = [d EXCEPT !.at = place]
  OBVIOUS
<1>6. v.at = place /\ v.tool = "remember" /\ v.topic = calls[o].topic /\ v.victims = S
  BY <1>1, <1>4, <1>5 DEF Flights
<1>7. calls' = [calls EXCEPT ![o] = v]
  BY <1>3, <1>4, <1>5 DEF Goto
<1>8. o \notin overlapped => Knows(rows', v)
  <2>1. \A T \in SUBSET Ops : o \notin overlapped => v.topic = NoTopic \/ Hides(rows, v.topic, T)
    BY <1>1, <1>2, <1>6, HidesMore
  <2> QED BY <1>1, <1>6, <2>1 DEF Knows, Remembers
<1> QED BY <1>1, <1>7, <1>8, KnowledgeKept

LEMMA EvictKnown ==
  ASSUME VaultInv, KnowsInv, NEW o \in Ops, Evict(o)
  PROVE  KnowsInv'
<1>1. /\ o \in Active /\ calls[o] \in Flights /\ calls[o].at = "evict"
      /\ calls[o].tool = "remember" /\ rows \in Tables /\ UNCHANGED overlapped
  BY InFlight DEF Evict, At, Active, Places, Stage, Ready, VaultInv, Types
<1>2. PICK k \in calls[o].victims : Write(k, NoRow)
  BY DEF Evict
<1>3. /\ IdsOf(rows') = IdsOf(rows) \ {k} /\ rows' \in Tables
      /\ \A j \in Ops : j # k => rows'[j] = rows[j]
  BY <1>1, <1>2, WriteDoes DEF Flights
<1>4. CASE Finish(o, "failed")
  BY <1>1, <1>4, EndingKnown
<1>5. CASE Goto(o, "save", calls[o])
  <2>1. PICK v : v = [calls[o] EXCEPT !.at = "save"] /\ Moved(v, calls[o], "save")
    BY <1>1, Moves DEF Places
  <2>2. calls' = [calls EXCEPT ![o] = v]
    BY <1>5, <2>1 DEF Goto
  <2>3. ASSUME o \notin overlapped, v.topic # NoTopic PROVE Hides(rows', v.topic, v.victims)
    <3> DEFINE topic == calls[o].topic
               going == calls[o].victims
    <3>1. Hides(rows, topic, going)
      BY <1>1, <2>1, <2>3 DEF KnowsInv, Knows, Remembers, Moved
    <3>2. ASSUME NEW i \in IdsOf(rows'), rows'[i].topic = topic
          PROVE  /\ i \in IdsOf(rows) /\ rows[i].topic = topic
                 /\ Fresher(rows, Containing(rows, topic), i) \cup going
                      = Fresher(rows', Containing(rows', topic), i) \cup going
      <4>1. IdsOf(rows) \subseteq Ops /\ \A j \in IdsOf(rows') : rows'[j] = rows[j] /\ j # k
        BY <1>1, <1>3 DEF IdsOf, Tables
      <4>2. \A j \in IdsOf(rows) : j = k \/ j \in IdsOf(rows')
        BY <1>3
      <4> QED BY <1>2, <1>3, <3>2, <4>1, <4>2 DEF Fresher, Containing
    <3>3. Hides(rows', topic, going)
      BY <3>1, <3>2 DEF Hides
    <3> QED BY <2>1, <3>3 DEF Moved
  <2>4. o \notin overlapped => Knows(rows', v)
    BY <1>1, <2>1, <2>3 DEF Knows, Remembers, Moved
  <2> QED BY <1>1, <2>2, <2>4, KnowledgeKept
<1> QED BY <1>4, <1>5 DEF Evict, Reported

\* A row that contains a searched word and is not chosen for deletion is outnumbered by
\* rows that are, whether its search returned it or not.
LEMMA Spared ==
  ASSUME NEW t \in Tables, NEW f \in Tables, \A j \in IdsOf(f) : f[j] = t[j],
         NEW w, Found(t, w) \subseteq IdsOf(f),
         NEW i \in Containing(t, w), i \notin Freshest(f, IdsOf(f), ForgetLimit)
  PROVE  /\ Cardinality(Freshest(f, IdsOf(f), ForgetLimit)) >= ForgetLimit
         /\ \A j \in Freshest(f, IdsOf(f), ForgetLimit) : t[i].updated < f[j].updated
<1> DEFINE ids == IdsOf(f)
           best == Freshest(f, ids, ForgetLimit)
<1>1. /\ ForgetLimit \in Nat /\ ids \in SUBSET IdsOf(f) /\ Found(t, w) \in SUBSET Ops
      /\ Containing(t, w) \in SUBSET IdsOf(t) /\ best \in SUBSET ids /\ ids \in SUBSET Ops
      /\ i \in IdsOf(t)
  BY VaultAssumption DEF VaultAssumption, Containing, Freshest, Found, IdsOf, Tables
<1>2. CASE i \in Found(t, w)
  <2>1. i \in ids /\ t[i] = f[i]
    BY <1>2
  <2> QED BY <1>1, <2>1, LeftOut
<1>3. CASE i \notin Found(t, w)
  <2>1. /\ Cardinality(Found(t, w)) >= ForgetLimit
        /\ \A j \in Found(t, w) : t[i].updated < t[j].updated
    BY <1>1, <1>3, LeftOut DEF Found
  <2>2. /\ \A j \in ids : f[j].updated \in Nat /\ f[j] = t[j]
        /\ t[i].updated \in Nat
    BY <1>1, Numbers DEF Tables, IdsOf, Row
  <2>3. ASSUME NEW j \in best PROVE t[i].updated < f[j].updated
    <3>1. CASE f[j].updated <= t[i].updated
      <4>1. j \in ids /\ Fresher(f, ids, j) \in SUBSET Ops
        BY <1>1 DEF Fresher
      <4>2. ASSUME NEW k \in Found(t, w) PROVE k \in Fresher(f, ids, j)
        <5>1. k \in ids /\ t[i].updated < f[k].updated
          BY <2>1, <2>2
        <5> QED BY <2>2, <3>1, <4>1, <5>1 DEF Fresher
      <4>3. IsFiniteSet(Fresher(f, ids, j)) /\ Found(t, w) \in SUBSET Fresher(f, ids, j)
        BY <4>1, <4>2, Numbers, FS_Subset
      <4>4. /\ Cardinality(Found(t, w)) <= Cardinality(Fresher(f, ids, j))
            /\ Cardinality(Fresher(f, ids, j)) \in Nat /\ Cardinality(Found(t, w)) \in Nat
        BY <4>3, FS_Subset, FS_CardinalityType
      <4>5. Cardinality(Fresher(f, ids, j)) < ForgetLimit
        BY DEF Freshest, Fresher
      <4> QED BY <1>1, <2>1, <4>4, <4>5
    <3>2. f[j].updated \in Nat
      BY <1>1, <2>2
    <3> QED BY <2>2, <3>1, <3>2
  <2>4. Cardinality(best) >= ForgetLimit
    <3>1. CASE Found(t, w) \subseteq best
      <4>1. Found(t, w) \in SUBSET best /\ IsFiniteSet(best)
        BY <1>1, <3>1, Numbers, FS_Subset
      <4>2. /\ Cardinality(Found(t, w)) <= Cardinality(best)
            /\ Cardinality(best) \in Nat /\ Cardinality(Found(t, w)) \in Nat
        BY <4>1, FS_Subset, FS_CardinalityType
      <4> HIDE DEF best
      <4> QED BY <1>1, <2>1, <4>2
    <3>2. CASE ~(Found(t, w) \subseteq best)
      <4>1. PICK k \in Found(t, w) : k \in ids /\ k \notin best
        BY <3>2
      <4> QED BY <1>1, <4>1, LeftOut
    <3> QED BY <3>1, <3>2
  <2> QED BY <2>3, <2>4
<1> QED BY <1>2, <1>3

LEMMA DecideForgetsNothing ==
  ASSUME VaultInv, NEW o \in Active, NEW c \in Flights, NEW e, Decide(o, c, e)
  PROVE  ~Ends(o, "forgot")
<1>1. calls \in [Ops -> {Idle} \cup Ended \cup Stage] /\ o \in Ops
  BY DEF VaultInv, Types, Active
<1>2. PICK place \in {"count", "update"} :
        \/ Finish(o, "unchanged") \/ Goto(o, place, c)
        \/ \E t : Goto(o, place, [c EXCEPT !.target = t])
  BY DEF Decide
<1>3. /\ [c EXCEPT !.at = place].at = place
      /\ \A t : [[c EXCEPT !.target = t] EXCEPT !.at = place].at = place
  BY DEF Flights
<1>4. CASE Finish(o, "unchanged")
  BY <1>1, <1>4 DEF Finish, Ends
<1>5. CASE Goto(o, place, c)
  BY <1>1, <1>3, <1>5 DEF Goto, Ends
<1>6. CASE \E t : Goto(o, place, [c EXCEPT !.target = t])
  <2>1. PICK t : Goto(o, place, [c EXCEPT !.target = t])
    BY <1>6
  <2>2. calls'[o].at = place
    BY <1>1, <1>3, <2>1 DEF Goto
  <2> QED BY <2>2 DEF Ends
<1> QED BY <1>2, <1>4, <1>5, <1>6

\* A forget that finds nothing is over, and there was nothing.
LEMMA SearchWordKnown ==
  ASSUME VaultInv, KnowsInv, NEW o \in Ops, SearchWord(o)
  PROVE  /\ KnowsInv'
         /\ o \notin overlapped /\ Ends(o, "forgot") => Remain(rows, calls[o]) = {}
<1> DEFINE words == WordsOf[calls[o].text]
           n == calls[o].searched + 1
           hits == IF words = <<>> THEN {} ELSE Search(words[n], SearchLimit(calls[o]))
           merged == [i \in Ops |-> IF i \in hits THEN rows[i] ELSE calls[o].found[i]]
           matches == Freshest(merged, IdsOf(merged), ForgetLimit)
           c == [calls[o] EXCEPT !.found = merged, !.searched = n]
<1>1. /\ o \in Active /\ calls[o] \in Flights /\ Ready(calls[o]) /\ calls[o].at = "search"
      /\ rows \in Tables /\ UNCHANGED <<rows, overlapped>>
  BY InFlight DEF SearchWord, At, Active, Places, Stage, VaultInv, Types
<1>2. /\ n \in Nat \ {0} /\ n <= MaxSearchTokens /\ MaxSearchTokens \in Nat
      /\ words # <<>> => n \in DOMAIN words /\ n <= Len(words)
      /\ Len(words) \in Nat /\ DOMAIN words = 1..Len(words)
  <2>1. words \in Seq({words[i] : i \in DOMAIN words})
    BY <1>1, VaultAssumption DEF VaultAssumption, Flights
  <2>2. MaxSearchTokens \in Nat
    BY VaultAssumption DEF VaultAssumption
  <2> QED BY <1>1, <2>1, <2>2 DEF Ready, Flights
<1>3. hits \subseteq IdsOf(rows)
  BY DEF Search, Freshest
<1>4. merged \in Tables
  BY <1>1, <1>3 DEF Tables, Flights, IdsOf
<1>5. IdsOf(merged) = IdsOf(calls[o].found) \cup hits
  BY <1>1, <1>3 DEF Tables, Flights, IdsOf
<1>6. o \notin overlapped => \A i \in IdsOf(merged) : merged[i] = rows[i]
  <2>1. o \notin overlapped => \A i \in IdsOf(calls[o].found) : rows[i] = calls[o].found[i]
    BY <1>1 DEF VaultInv, LoneInv, Lone
  <2>2. \A i \in IdsOf(merged) : i \in Ops /\ (i \in hits \/ i \in IdsOf(calls[o].found))
    BY <1>5 DEF IdsOf
  <2> QED BY <2>1, <2>2
<1>7. o \notin overlapped => Knows(rows, calls[o])
  BY <1>1 DEF KnowsInv
<1>8. o \notin overlapped /\ calls[o].tool = "forget" => IdsOf(merged) = FoundBy(rows, calls[o], n)
  <2>1. ASSUME o \notin overlapped, calls[o].tool = "forget"
        PROVE  IdsOf(merged) = FoundBy(rows, calls[o], n)
    <3>1. IdsOf(calls[o].found) = FoundBy(rows, calls[o], calls[o].searched)
      BY <1>1, <1>7, <2>1 DEF Knows, Forgets
    <3>2. hits = Found(rows, words[n])
      BY <1>1, <2>1 DEF Ready, Search, Found, Containing, SearchLimit
    <3>3. 1..n = (1..calls[o].searched) \cup {n}
      BY <1>1 DEF Flights
    <3> HIDE DEF hits, n, merged
    <3> QED BY <1>5, <3>1, <3>2, <3>3 DEF FoundBy
  <2> QED BY <2>1
<1> HIDE DEF hits, merged, n
<1>9. /\ c \in Flights /\ c.tool = calls[o].tool /\ c.text = calls[o].text
      /\ c.topic = calls[o].topic /\ c.found = merged /\ c.searched = n
  BY <1>1, <1>2, <1>4 DEF Flights
<1> HIDE DEF words, matches, c
<1>10. CASE n < Len(words) /\ n < MaxSearchTokens
  <2>1. Goto(o, "search", c)
    BY <1>10 DEF SearchWord, words, n, hits, merged, c
  <2>2. PICK v : v = [c EXCEPT !.at = "search"] /\ Moved(v, c, "search")
    BY <1>9, Moves DEF Places
  <2>3. o \notin overlapped => Knows(rows', v)
    <3>1. CASE v.tool = "forget"
      BY <1>1, <1>8, <1>9, <2>2, <3>1 DEF Knows, Forgets, Moved, FoundBy
    <3>2. CASE v.tool # "forget"
      BY <1>1, <1>7, <1>9, <2>2, <3>2 DEF Knows, Remembers, Moved
    <3> QED BY <3>1, <3>2
  <2>4. KnowsInv'
    BY <1>1, <2>1, <2>2, <2>3, KnowledgeKept DEF Goto
  <2>5. ~Ends(o, "forgot")
    BY <2>1, <2>2, InFlight DEF Goto, Ends, Moved, VaultInv, Types
  <2> QED BY <2>4, <2>5
<1>11. CASE ~(n < Len(words) /\ n < MaxSearchTokens) /\ calls[o].tool = "remember"
  <2> DEFINE similar == {i \in Freshest(merged, IdsOf(merged), CandidateLimit) :
                           Similar(merged[i], c.text)}
  <2>1. PICK e : /\ e = IF words = <<>> THEN NoRow ELSE FirstSimilar(merged, c.text)
                 /\ e = NoRow \/ \E i \in IdsOf(merged) : e = merged[i]
    <3>1. CASE similar # {}
      <4>1. similar \subseteq IdsOf(merged)
        BY DEF Freshest
      <4>2. Newest(merged, similar) \in IdsOf(merged)
        BY <1>4, <3>1, <4>1, NewestExists
      <4> QED BY <3>1, <4>2 DEF FirstSimilar
    <3>2. CASE similar = {}
      BY <3>2 DEF FirstSimilar
    <3> QED BY <3>1, <3>2
  <2>2. Decide(o, c, e)
    <3>1. Decide(o, c, IF words = <<>> THEN NoRow ELSE FirstSimilar(merged, c.text))
      BY <1>11 DEF SearchWord, words, n, hits, merged, c
    <3> QED BY <2>1, <3>1
  <2>3. e \in Row \cup {NoRow} /\ (e # NoRow /\ o \notin overlapped => rows[e.id] = e)
    BY <1>4, <1>6, <2>1 DEF Tables, IdsOf
  <2>4. o \notin overlapped => c.topic = NoTopic \/ Hides(rows, c.topic, {})
    BY <1>1, <1>7, <1>9, <1>11 DEF Knows, Remembers
  <2>5. PICK d \in Flights : d = c
    BY <1>9
  <2>6. KnowsInv'
    BY <1>1, <1>9, <1>11, <2>2, <2>3, <2>4, <2>5, DecideKnown
  <2>7. ~Ends(o, "forgot")
    BY <1>1, <2>2, <2>5, DecideForgetsNothing
  <2> QED BY <2>6, <2>7
<1>12. CASE ~(n < Len(words) /\ n < MaxSearchTokens) /\ calls[o].tool # "remember"
  <2>1. IF matches = {} THEN Finish(o, "forgot")
        ELSE Goto(o, "delete", [c EXCEPT !.victims = matches])
    BY <1>12 DEF SearchWord, words, n, hits, merged, c, matches
  <2>0. ASSUME o \notin overlapped, NEW i \in Remain(rows, calls[o]) \ matches
        PROVE  /\ Cardinality(matches) >= ForgetLimit
               /\ \A j \in matches : rows[i].updated < merged[j].updated
    <3>1. PICK m \in DOMAIN words \cap 1..MaxSearchTokens : i \in Containing(rows, words[m])
      BY <2>0 DEF Remain, Sought, words, Containing
    <3>2. m \in 1..n
      BY <1>2, <1>12, <3>1
    <3>3. calls[o].tool = "forget"
      BY <1>1, <1>12 DEF Flights
    <3>4. Found(rows, words[m]) \subseteq IdsOf(merged)
      BY <1>8, <2>0, <3>2, <3>3 DEF FoundBy, words
    <3> QED BY <1>1, <1>4, <1>6, <2>0, <3>1, <3>4, Spared DEF matches
  <2>2. CASE matches = {}
    <3>1. Cardinality(matches) = 0 /\ ForgetLimit \in Nat \ {0}
      BY <2>2, FS_EmptySet, VaultAssumption DEF VaultAssumption
    <3>2. o \notin overlapped => Remain(rows, calls[o]) = {}
      BY <2>0, <2>2, <3>1
    <3>3. KnowsInv'
      BY <1>1, <2>1, <2>2, EndingKnown
    <3> QED BY <3>2, <3>3
  <2>3. CASE matches # {}
    <3> DEFINE d == [c EXCEPT !.victims = matches]
    <3>1. PICK v : v = [d EXCEPT !.at = "delete"]
      OBVIOUS
    <3>2. /\ v.at = "delete" /\ v.tool = "forget" /\ v.text = calls[o].text
          /\ v.found = merged /\ v.victims = matches
      BY <1>1, <1>9, <1>12, <3>1 DEF Flights
    <3>3. calls' = [calls EXCEPT ![o] = v]
      BY <2>1, <2>3, <3>1 DEF Goto
    <3>4. Taken(v) = matches
      BY <3>2 DEF Taken, matches
    <3>5. ASSUME o \notin overlapped, NEW i \in Remain(rows, v) \ matches
          PROVE  Outnumbered(v, rows[i])
      BY <2>0, <3>2, <3>4, <3>5 DEF Outnumbered, Remain, Sought
    <3>6. o \notin overlapped => Knows(rows', v)
      BY <1>1, <1>6, <3>2, <3>4, <3>5 DEF Knows, Forgets
    <3>7. KnowsInv'
      BY <1>1, <3>3, <3>6, KnowledgeKept
    <3>8. ~Ends(o, "forgot")
      BY <3>2, <3>3 DEF Ends, Active, VaultInv, Types
    <3> QED BY <3>7, <3>8
  <2> QED BY <2>2, <2>3
<1> QED BY <1>10, <1>11, <1>12

\* When a forget deletes its last match, exactly what it chose is gone of what it found,
\* and what remains of the words it searched is outnumbered.
LEMMA DeleteMatchKnown ==
  ASSUME VaultInv, KnowsInv, NEW o \in Ops, DeleteMatch(o)
  PROVE  /\ KnowsInv'
         /\ o \notin overlapped /\ Ends(o, "forgot") =>
              /\ IdsOf(calls[o].found) \ IdsOf(rows') = Taken(calls[o])
              /\ \A i \in Remain(rows', calls[o]) : Outnumbered(calls[o], rows'[i])
<1>1. /\ o \in Active /\ calls[o] \in Flights /\ calls[o].at = "delete"
      /\ calls[o].tool = "forget" /\ rows \in Tables /\ UNCHANGED overlapped
      /\ calls[o].victims \in SUBSET IdsOf(calls[o].found) /\ calls[o].victims # {}
      /\ calls[o].found \in Tables /\ IdsOf(calls[o].found) \subseteq Ops
  BY InFlight DEF DeleteMatch, At, Active, Places, Stage, Flights, Ready, VaultInv, Types, IdsOf,
     Tables
<1>2. PICK i : i = Newest(calls[o].found, calls[o].victims) /\ i \in calls[o].victims
  BY <1>1, NewestExists
<1>3. PICK left : left = calls[o].victims \ {i}
  OBVIOUS
<1>4. /\ Write(i, NoRow) /\ i \in Ops
      /\ \/ left = {} /\ Finish(o, "forgot")
         \/ Finish(o, "failed")
         \/ left # {} /\ Goto(o, "delete", [calls[o] EXCEPT !.victims = left])
  BY <1>1, <1>2, <1>3 DEF DeleteMatch, Reported
<1>5. /\ IdsOf(rows') = IdsOf(rows) \ {i} /\ rows'[i] = NoRow
      /\ \A j \in Ops : j # i => rows'[j] = rows[j]
      /\ IdsOf(rows) \subseteq Ops
  BY <1>1, <1>4, WriteDoes DEF IdsOf, Tables
<1>6. o \notin overlapped =>
        /\ calls[o].victims \subseteq Taken(calls[o])
        /\ \A j \in IdsOf(calls[o].found) :
             rows[j] = IF j \in Taken(calls[o]) \ calls[o].victims THEN NoRow ELSE calls[o].found[j]
        /\ \A j \in Remain(rows, calls[o]) \ calls[o].victims : Outnumbered(calls[o], rows[j])
  BY <1>1 DEF KnowsInv, Knows, Forgets
<1>7. ASSUME o \notin overlapped
      PROVE  /\ left \subseteq Taken(calls[o])
             /\ \A j \in IdsOf(calls[o].found) :
                  rows'[j] = IF j \in Taken(calls[o]) \ left THEN NoRow ELSE calls[o].found[j]
             /\ \A j \in Remain(rows', calls[o]) \ left : Outnumbered(calls[o], rows'[j])
  <2>1. left \subseteq Taken(calls[o])
    BY <1>3, <1>6, <1>7
  <2>2. ASSUME NEW j \in IdsOf(calls[o].found)
        PROVE  rows'[j] = IF j \in Taken(calls[o]) \ left THEN NoRow ELSE calls[o].found[j]
    <3>1. CASE j = i
      BY <1>2, <1>3, <1>5, <1>6, <1>7, <3>1
    <3>2. CASE j # i
      BY <1>1, <1>3, <1>5, <1>6, <1>7, <3>2
    <3> QED BY <3>1, <3>2
  <2>3. ASSUME NEW j \in Remain(rows', calls[o]) \ left PROVE Outnumbered(calls[o], rows'[j])
    <3>1. j \in IdsOf(rows) /\ j # i /\ rows'[j] = rows[j]
      BY <1>5 DEF Remain
    <3>2. j \in Remain(rows, calls[o]) \ calls[o].victims
      BY <1>3, <3>1 DEF Remain
    <3> QED BY <1>6, <1>7, <3>1, <3>2
  <2> QED BY <2>1, <2>2, <2>3
<1>8. CASE left # {} /\ Goto(o, "delete", [calls[o] EXCEPT !.victims = left])
  <2>1. PICK d : d = [calls[o] EXCEPT !.victims = left]
    OBVIOUS
  <2>2. PICK v : v = [d EXCEPT !.at = "delete"]
    OBVIOUS
  <2>3. /\ v.at = "delete" /\ v.tool = "forget" /\ v.text = calls[o].text
        /\ v.found = calls[o].found /\ v.victims = left
    BY <1>1, <2>1, <2>2 DEF Flights
  <2>4. calls' = [calls EXCEPT ![o] = v]
    BY <1>8, <2>1, <2>2 DEF Goto
  <2>5. /\ Taken(v) = Taken(calls[o]) /\ Remain(rows', v) = Remain(rows', calls[o])
        /\ \A row : Outnumbered(v, row) <=> Outnumbered(calls[o], row)
    BY <2>3 DEF Taken, Remain, Sought, Outnumbered
  <2>6. o \notin overlapped => Knows(rows', v)
    BY <1>7, <2>3, <2>5 DEF Knows, Forgets
  <2>7. KnowsInv'
    BY <1>1, <2>4, <2>6, KnowledgeKept
  <2>8. ~Ends(o, "forgot")
    BY <2>3, <2>4 DEF Ends, Active, VaultInv, Types
  <2> QED BY <2>7, <2>8
<1>9. CASE Finish(o, "failed")
  <2>1. KnowsInv'
    BY <1>1, <1>9, EndingKnown
  <2>2. ~Ends(o, "forgot")
    BY <1>1, <1>9 DEF Ends, Finish, Active, VaultInv, Types
  <2> QED BY <2>1, <2>2
<1>10. CASE left = {} /\ Finish(o, "forgot")
  <2>1. KnowsInv'
    BY <1>1, <1>10, EndingKnown
  <2>2. ASSUME o \notin overlapped
        PROVE  /\ IdsOf(calls[o].found) \ IdsOf(rows') = Taken(calls[o])
               /\ \A j \in Remain(rows', calls[o]) : Outnumbered(calls[o], rows'[j])
    <3>1. Taken(calls[o]) \subseteq IdsOf(calls[o].found)
      BY DEF Taken, Freshest
    <3>2. ASSUME NEW j \in IdsOf(calls[o].found)
          PROVE  j \in IdsOf(rows') <=> j \notin Taken(calls[o])
      <4>1. j \in Ops /\ calls[o].found[j] # NoRow
        BY <1>1 DEF IdsOf
      <4>2. rows'[j] = IF j \in Taken(calls[o]) THEN NoRow ELSE calls[o].found[j]
        BY <1>7, <1>10, <2>2
      <4>3. j \in IdsOf(rows') <=> rows'[j] # NoRow
        BY <1>1, <1>4, <4>1, WriteDoes DEF IdsOf, Tables
      <4> QED BY <4>1, <4>2, <4>3
    <3> QED BY <1>7, <1>10, <2>2, <3>1, <3>2
  <2> QED BY <2>1, <2>2
<1> QED BY <1>4, <1>8, <1>9, <1>10

LEMMA BeginKnown ==
  ASSUME VaultInv, KnowsInv, NEW o \in Ops, Begin(o)
  PROVE  KnowsInv'
<1>1. /\ overlapped' = overlapped \cup (IF Active = {} THEN {} ELSE Active \cup {o})
      /\ calls \in [Ops -> {Idle} \cup Ended \cup Stage] /\ UNCHANGED rows
  BY DEF Begin, VaultInv, Types
<1>2. PICK v : /\ calls' = [calls EXCEPT ![o] = v]
               /\ v.at \in Places => Knows(rows, v)
  <2>1. CASE \E x \in Texts \ Secrets, topic \in Topics \cup {NoTopic} :
               /\ clock' = clock + 1
               /\ Goto(o, IF topic = NoTopic THEN "search" ELSE "topic",
                       [Started("remember", x, topic, "topic") EXCEPT !.now = clock'])
    <3>1. PICK x \in Texts \ Secrets, topic \in Topics \cup {NoTopic} :
            Goto(o, IF topic = NoTopic THEN "search" ELSE "topic",
                 [Started("remember", x, topic, "topic") EXCEPT !.now = clock'])
      BY <2>1
    <3>2. PICK v : v = [[Started("remember", x, topic, "topic") EXCEPT !.now = clock']
                          EXCEPT !.at = IF topic = NoTopic THEN "search" ELSE "topic"]
      OBVIOUS
    <3>3. /\ v.at = (IF topic = NoTopic THEN "search" ELSE "topic")
          /\ v.tool = "remember" /\ v.topic = topic
      BY <3>2 DEF Started
    <3>4. calls' = [calls EXCEPT ![o] = v]
      BY <3>1, <3>2 DEF Goto
    <3> QED BY <3>3, <3>4 DEF Knows, Remembers
  <2>2. CASE Secrets # {} /\ Finish(o, "rejected") /\ UNCHANGED clock
    <3>1. PICK v : v = [at |-> "done", outcome |-> "rejected"]
      OBVIOUS
    <3>2. v.at \notin Places
      BY <3>1 DEF Places
    <3>3. calls' = [calls EXCEPT ![o] = v]
      BY <2>2, <3>1 DEF Finish
    <3> QED BY <3>2, <3>3
  <2>3. CASE \E x \in {y \in Texts : WordsOf[y] # <<>>} :
               /\ Goto(o, "search", Started("forget", x, NoTopic, "search"))
               /\ UNCHANGED clock
    <3>1. PICK x : Goto(o, "search", Started("forget", x, NoTopic, "search"))
      BY <2>3
    <3>2. PICK v : v = [Started("forget", x, NoTopic, "search") EXCEPT !.at = "search"]
      OBVIOUS
    <3>3. /\ v.at = "search" /\ v.tool = "forget" /\ v.searched = 0
          /\ v.found = [i \in Ops |-> NoRow]
      BY <3>2 DEF Started
    <3>4. calls' = [calls EXCEPT ![o] = v]
      BY <3>1, <3>2 DEF Goto
    <3>5. IdsOf(v.found) = {} /\ FoundBy(rows, v, v.searched) = {}
      BY <3>3 DEF IdsOf, FoundBy
    <3> QED BY <3>3, <3>4, <3>5 DEF Knows, Forgets
  <2> QED BY <2>1, <2>2, <2>3 DEF Begin
<1>3. ASSUME NEW p \in Active', p \notin overlapped' PROVE Knows(rows', calls'[p])
  <2>1. CASE p = o
    BY <1>1, <1>2, <1>3, <2>1 DEF Active
  <2>2. CASE p # o
    <3>1. p \in Active /\ calls'[p] = calls[p] /\ p \notin overlapped
      BY <1>1, <1>2, <1>3, <2>2 DEF Active
    <3> QED BY <1>1, <3>1, <1>3
  <2> QED BY <2>1, <2>2
<1> QED BY <1>3 DEF KnowsInv

LEMMA KnowledgeStays == VaultInv /\ KnowsInv /\ [Next]_vars => KnowsInv'
<1> SUFFICES ASSUME VaultInv, KnowsInv, [Next]_vars PROVE KnowsInv'
  OBVIOUS
<1>1. ASSUME Next PROVE KnowsInv'
  BY <1>1, FindByTopicKnown, SearchWordKnown, EndsKnown, MakeRoomKnown, EvictKnown,
     DeleteMatchKnown, BeginKnown DEF Next
<1>2. CASE UNCHANGED vars
  BY <1>2 DEF vars, KnowsInv, Active
<1> QED BY <1>1, <1>2

LEMMA Knowledge == Spec => [](VaultInv /\ KnowsInv)
<1>1. Init => KnowsInv
  BY DEF Init, KnowsInv, Active, Idle, Places
<1> QED BY <1>1, Begins, Stays, KnowledgeStays, PTL DEF Spec

\* Only a forget that found nothing or deletes its last match ends as "forgot".
LEMMA OnlyForgetForgets ==
  ASSUME VaultInv, [Next]_vars, NEW o \in Ops, Ends(o, "forgot")
  PROVE  SearchWord(o) \/ DeleteMatch(o)
<1>1. /\ calls \in [Ops -> {Idle} \cup Ended \cup Stage]
      /\ o \in Active /\ calls[o] \in Stage /\ calls[o].at # "done"
  BY InFlight DEF VaultInv, Types, Ends, Places
<1>2. calls'[o] # calls[o]
  BY <1>1 DEF Ends
<1>3. PICK p \in Ops :
        \/ Begin(p) \/ FindByTopic(p) \/ SearchWord(p) \/ Update(p) \/ Count(p)
        \/ FindOldest(p) \/ Evict(p) \/ Save(p) \/ DeleteMatch(p) \/ Fail(p)
  BY <1>2 DEF Next, vars
<1>4. \E v : calls' = [calls EXCEPT ![p] = v]
  BY <1>3 DEF Begin, FindByTopic, SearchWord, Update, Count, FindOldest, Evict, Save, DeleteMatch,
     Fail, Reported, Decide, Goto, Finish
<1>5. p = o
  BY <1>1, <1>2, <1>4
<1>6. calls[o] \in Flights
  BY <1>1 DEF Stage
<1>7. ~Begin(o)
  BY <1>1, Numbers DEF Begin, VaultInv, Types, Idle, Active, Places
<1>8. \A r : Finish(o, r) => r = "forgot"
  BY <1>1 DEF Finish, Ends
<1>9. \A place \in Places : ~Goto(o, place, calls[o])
  <2>1. \A place : [calls[o] EXCEPT !.at = place].at = place
    BY <1>6 DEF Flights
  <2> QED BY <1>1, <2>1 DEF Goto, Ends, Places
<1>10. ~Update(o) /\ ~Save(o) /\ ~Fail(o) /\ ~Count(o) /\ ~Evict(o)
  BY <1>8, <1>9 DEF Update, Save, Fail, Count, Evict, Reported, Places
<1>11. ~FindOldest(o)
  <2>1. \A S : ~Goto(o, "evict", [calls[o] EXCEPT !.victims = S])
    <3>1. \A S : [[calls[o] EXCEPT !.victims = S] EXCEPT !.at = "evict"].at = "evict"
      BY <1>6 DEF Flights
    <3> QED BY <1>1, <3>1 DEF Goto, Ends
  <2> QED BY <1>9, <2>1 DEF FindOldest, Places
<1>12. ~FindByTopic(o)
  <2>1. ASSUME FindByTopic(o) PROVE \E e : Decide(o, calls[o], e)
    BY <1>9, <2>1 DEF FindByTopic, Places
  <2> QED BY <1>1, <1>6, <2>1, DecideForgetsNothing
<1> QED BY <1>3, <1>5, <1>7, <1>10, <1>11, <1>12

\* A forget that ran beside no other call and succeeds leaves a match of the words it
\* searched only if it deleted as many as its limit, all of them updated later.
THEOREM TakesTheNewest == Spec => ForgetTakesTheNewest
<1> DEFINE left(o) == {i \in IdsOf(rows') : \E w \in {WordsOf[calls[o].text][n] :
                         n \in DOMAIN WordsOf[calls[o].text] \cap 1..MaxSearchTokens} :
                           Contains(rows'[i], w)}
           gone(o) == IdsOf(calls[o].found) \ IdsOf(rows')
           Fair(o) == left(o) # {} =>
             /\ Cardinality(gone(o)) >= ForgetLimit
             /\ \A i \in left(o), j \in gone(o) : rows'[i].updated < calls[o].found[j].updated
<1>1. ASSUME VaultInv, KnowsInv, [Next]_vars, NEW o \in Ops \ overlapped, Ends(o, "forgot")
      PROVE  Fair(o)
  <2>1. left(o) = Remain(rows', calls[o])
    BY DEF Remain, Sought
  <2>2. SearchWord(o) \/ DeleteMatch(o)
    BY <1>1, OnlyForgetForgets
  <2>3. CASE SearchWord(o)
    <3>1. Remain(rows, calls[o]) = {} /\ rows' = rows
      BY <1>1, <2>3, SearchWordKnown DEF SearchWord
    <3> QED BY <2>1, <3>1
  <2>4. CASE DeleteMatch(o)
    <3>1. /\ gone(o) = Taken(calls[o])
          /\ \A i \in Remain(rows', calls[o]) : Outnumbered(calls[o], rows'[i])
      BY <1>1, <2>4, DeleteMatchKnown
    <3> HIDE DEF left, gone
    <3> QED BY <2>1, <3>1 DEF Outnumbered
  <2> QED BY <2>2, <2>3, <2>4
<1>2. VaultInv /\ KnowsInv /\ [Next]_vars =>
        [\A o \in Ops \ overlapped : Ends(o, "forgot") => Fair(o)]_vars
  BY <1>1
<1> QED BY <1>2, Knowledge, PTL DEF Spec, ForgetTakesTheNewest

\* While no two calls have overlapped, an entry takes a topic that another one has only if
\* the search for the topic could not reach that one behind fresher mentions of it.
THEOREM TopicRepeated == Spec => TopicRepeatedOnlyIfHidden
<1> DEFINE fresher(i) == {j \in IdsOf(rows) : Contains(rows[j], rows[i].topic)
                                                /\ rows[j].updated > rows[i].updated}
           evicted == UNION {calls[o].victims : o \in Active}
           Repeats(i, k) == /\ rows[i].topic # NoTopic /\ rows'[k].topic = rows[i].topic
                            /\ rows[k] = NoRow \/ rows[k].topic # rows[i].topic
<1>1. ASSUME VaultInv, KnowsInv, [Next]_vars, overlapped = {},
             NEW i \in IdsOf(rows), NEW k \in IdsOf(rows') \ {i}, Repeats(i, k)
      PROVE  Cardinality(fresher(i) \cup evicted) >= CandidateLimit
  <2>1. Types /\ rows \in Tables /\ i \in Ops
    BY <1>1 DEF VaultInv, Types, IdsOf, Tables
  <2>2. fresher(i) = Fresher(rows, Containing(rows, rows[i].topic), i)
    BY DEF Fresher, Containing
  <2>3. /\ evicted \in SUBSET Ops
        /\ \A o \in Active : calls[o].victims \subseteq evicted
    BY <2>1, InFlight DEF Stage, Flights, Active
  <2>4. ASSUME NEW o \in Active, NEW S \in SUBSET Ops, S \subseteq evicted,
               calls[o].topic = rows[i].topic, Hides(rows, calls[o].topic, S)
        PROVE  Cardinality(fresher(i) \cup evicted) >= CandidateLimit
    <3>1. Hides(rows, rows[i].topic, evicted)
      <4> HIDE DEF evicted
      <4> QED BY <2>1, <2>3, <2>4, HidesMore
    <3> QED BY <2>2, <3>1 DEF Hides
  <2>5. rows' # rows
    BY <1>1 DEF Repeats, IdsOf
  <2>6. PICK o \in Ops : Update(o) \/ Save(o)
    <3>1. ASSUME NEW o \in Ops, Evict(o) \/ DeleteMatch(o) PROVE FALSE
      <4>1. PICK j : Write(j, NoRow)
        BY <3>1 DEF Evict, DeleteMatch
      <4>2. k \in Ops /\ (rows'[k] = NoRow \/ rows'[k] = rows[k])
        BY <1>1, <2>1, <4>1 DEF Write, Tables, IdsOf
      <4>3. rows'[k] # NoRow
        BY <1>1 DEF IdsOf
      <4> QED BY <1>1, <4>2, <4>3
    <3> QED BY <1>1, <2>5, <3>1
         DEF Next, vars, Begin, FindByTopic, SearchWord, Count, FindOldest, Fail
  <2>7. o \in Active /\ o \notin overlapped /\ Knows(rows, calls[o]) /\ calls[o] \in Stage
    BY <1>1, <2>1, <2>6, InFlight DEF Update, Save, At, Active, Places, KnowsInv
  <2>8. CASE Save(o)
    <3>1. calls[o].at = "save" /\ calls[o].tool = "remember"
      BY <2>7, <2>8 DEF Save, At, Stage, Ready
    <3>2. k = o /\ rows'[k].topic = calls[o].topic
      BY <1>1, <2>1, <2>8 DEF Save, Write, Tables, IdsOf
    <3>3. Hides(rows, calls[o].topic, calls[o].victims) /\ calls[o].topic = rows[i].topic
      BY <1>1, <2>7, <3>1, <3>2 DEF Knows, Remembers
    <3> HIDE DEF evicted, fresher
    <3>4. calls[o].victims \in SUBSET Ops /\ calls[o].victims \subseteq evicted
      BY <2>3, <2>7 DEF Stage, Flights
    <3> QED BY <2>4, <2>7, <3>3, <3>4
  <2>9. CASE Update(o)
    <3>1. calls[o].at = "update" /\ calls[o].tool = "remember"
      BY <2>7, <2>9 DEF Update, At, Stage, Ready
    <3>2. k = calls[o].target.id /\ rows'[k] = calls[o].target
      BY <1>1, <2>1, <2>9 DEF Update, Write, Tables, IdsOf
    <3>3. rows[k] # NoRow
      BY <1>1, <2>7, <3>1, <3>2 DEF VaultInv, LoneInv, Lone
    <3>4. Hides(rows, calls[o].topic, {}) /\ calls[o].topic = rows[i].topic
      BY <1>1, <2>7, <3>1, <3>2, <3>3 DEF Knows, Remembers
    <3> HIDE DEF evicted, fresher
    <3> QED BY <2>4, <2>7, <3>4
  <2> QED BY <2>6, <2>8, <2>9
<1>2. VaultInv /\ KnowsInv /\ [Next]_vars =>
        [overlapped = {} =>
           \A i \in IdsOf(rows) : \A k \in IdsOf(rows') \ {i} :
             Repeats(i, k) => Cardinality(fresher(i) \cup evicted) >= CandidateLimit]_vars
  BY <1>1
<1> QED BY <1>2, Knowledge, PTL DEF Spec, TopicRepeatedOnlyIfHidden
=============================================================================
