----------------------------- MODULE MemoryVault -----------------------------
(***************************************************************************)
(* The long-term memory vault of one user: the remember and forget tool    *)
(* calls of UserMemoryWriter, issued by turns that may run at once (two    *)
(* chats, or two server processes).  Every datastore call is a step; no    *)
(* step is guarded by a lock or a transaction.                             *)
(*                                                                         *)
(* A text is what matters of it: its significant words, in order.  A topic *)
(* is a word.  A row contains a word in its content or as its topic.       *)
(***************************************************************************)
EXTENDS Naturals, Sequences, FiniteSets

CONSTANTS
  Texts,            \* contents of facts, and queries of forget
  WordsOf,          \* the significant words of each text, in order, no repeats
  Secrets,          \* the texts MemoryPrivacyFilter rejects
  Topics, NoTopic,
  MaxOps,           \* bound: tool calls that ever run
  MaxActive,        \* bound: tool calls in flight at once
  Cap,              \* USER_MEMORY_MAX_ENTRIES
  ForgetLimit,      \* FORGET_MATCH_LIMIT
  CandidateLimit,   \* _SIMILAR_CANDIDATE_LIMIT
  MaxSearchTokens,  \* _MAX_SEARCH_TOKENS
  DatastoreFails    \* whether a datastore call can fail

ASSUME VaultAssumption ==
  /\ \A x \in Texts : WordsOf[x] \in Seq({WordsOf[x][i] : i \in DOMAIN WordsOf[x]})
  /\ \A x \in Texts : \A i, j \in DOMAIN WordsOf[x] :
       i # j => WordsOf[x][i] # WordsOf[x][j]
  /\ Secrets \subseteq Texts
  /\ NoTopic \notin Topics
  /\ {MaxOps, MaxActive, Cap, ForgetLimit, CandidateLimit, MaxSearchTokens}
       \subseteq Nat \ {0}
  /\ DatastoreFails \in BOOLEAN

Ops == 1..MaxOps
NoRow == [content |-> "none"]

VARIABLES
  rows,        \* user_memory table: the row each remember created, if it stands
  clock,       \* readings of the clock so far
  begun,       \* tool calls begun so far; they begin in the order of their numbers
  calls,       \* where each call is and what it holds in memory
  overlapped   \* history variable: the calls that ran beside another call

vars == <<rows, clock, begun, calls, overlapped>>

Idle == [at |-> "idle"]
Places == {"topic", "search", "update", "count", "oldest", "evict", "save", "delete"}
Outcomes == {"created", "updated", "unchanged", "rejected", "forgot", "failed"}

IdsOf(table) == {i \in DOMAIN table : table[i] # NoRow}
SetOfWords(x) == {WordsOf[x][i] : i \in DOMAIN WordsOf[x]}
Contains(row, w) == w = row.topic \/ w \in SetOfWords(row.content)

\* The ids of the n most recently updated rows among ids of a table.
Freshest(table, ids, n) ==
  {i \in ids : Cardinality({j \in ids : table[j].updated > table[i].updated}) < n}

Newest(table, ids) == CHOOSE i \in ids : \A j \in ids : table[j].updated <= table[i].updated
Oldest(table, ids) == CHOOSE i \in ids : \A j \in ids : table[i].created <= table[j].created

\* search_by_user_id: rows that contain a word, newest first, up to a limit.
Search(w, limit) == Freshest(rows, {i \in IdsOf(rows) : Contains(rows[i], w)}, limit)

\* The test of _find_similar for a candidate: half of the new fact's words.
Similar(row, x) == Cardinality(SetOfWords(x) \cap SetOfWords(row.content)) * 2 >= Len(WordsOf[x])

AlreadyHolds(row, x, topic) == row.content = x /\ topic \in {NoTopic, row.topic}

Active == {o \in Ops : calls[o].at \in Places}
At(o, place) == calls[o].at = place

-----------------------------------------------------------------------------
Init ==
  /\ rows = [i \in Ops |-> NoRow]
  /\ clock = 0
  /\ begun = 0
  /\ calls = [o \in Ops |-> Idle]
  /\ overlapped = {}

\* A call that has just begun: nothing found, nothing to write or to delete.
Started(tool, x, topic, place) ==
  [at |-> place, tool |-> tool, text |-> x, topic |-> topic, now |-> 0,
   found |-> [i \in Ops |-> NoRow], searched |-> 0, target |-> NoRow, victims |-> {}]

\* A call goes on; c is what it holds from now on.
Goto(o, place, c) == calls' = [calls EXCEPT ![o] = [c EXCEPT !.at = place]]
Finish(o, r) == calls' = [calls EXCEPT ![o] = [at |-> "done", outcome |-> r]]

\* A write that took effect may be reported as failed all the same.
Reported(success, o) == success \/ (DatastoreFails /\ Finish(o, "failed"))

Write(i, row) == rows' = [rows EXCEPT ![i] = row]

SearchLimit(c) == IF c.tool = "forget" THEN ForgetLimit ELSE CandidateLimit

\* What remember does once it knows the entry its fact restates, if any.  The
\* entry is the copy read by the search, changed in memory.
Decide(o, c, existing) ==
  IF existing = NoRow THEN Goto(o, "count", c)
  ELSE IF AlreadyHolds(existing, c.text, c.topic) THEN Finish(o, "unchanged")
  ELSE Goto(o, "update", [c EXCEPT !.target =
         [existing EXCEPT !.content = c.text, !.updated = c.now,
                          !.topic = IF c.topic = NoTopic THEN @ ELSE c.topic]])

\* The first candidate, newest first, that is similar enough.
FirstSimilar(table, x) ==
  LET candidates == Freshest(table, IdsOf(table), CandidateLimit)
      similar == {i \in candidates : Similar(table[i], x)}
  IN  IF similar = {} THEN NoRow ELSE table[Newest(table, similar)]

-----------------------------------------------------------------------------
(* Mistakes in single steps that the checked properties tell from the code. *)

\* The vault may grow to one entry above the cap before one is evicted.
CountLate(o) ==
  /\ At(o, "count")
  /\ Goto(o, IF Cardinality(IdsOf(rows)) <= Cap THEN "save" ELSE "oldest", calls[o])
  /\ UNCHANGED <<rows, clock, begun, overlapped>>

\* The entry evicted is the one not updated for longest.
FindStalest(o) ==
  /\ At(o, "oldest")
  /\ IF IdsOf(rows) = {} THEN Goto(o, "save", calls[o])
     ELSE \E i \in IdsOf(rows) :
       /\ \A j \in IdsOf(rows) : rows[i].updated <= rows[j].updated
       /\ Goto(o, "evict", [calls[o] EXCEPT !.victims = {i}])
  /\ UNCHANGED <<rows, clock, begun, overlapped>>

\* The topic is not looked up.
FindByTopicUnchecked(o) ==
  /\ At(o, "topic")
  /\ Goto(o, "search", calls[o])
  /\ UNCHANGED <<rows, clock, begun, overlapped>>

\* Only the first match is deleted.
DeleteFirst(o) ==
  /\ At(o, "delete")
  /\ Write(Newest(calls[o].found, calls[o].victims), NoRow)
  /\ Reported(Finish(o, "forgot"), o)
  /\ UNCHANGED <<clock, begun, overlapped>>

\* The new entry takes over the id of the entry that made room.
SaveInPlace(o) ==
  /\ At(o, "save")
  /\ \E i \in Ops :
       /\ i \in calls[o].victims \/ (calls[o].victims = {} /\ i = o)
       /\ Write(i, [id |-> i, content |-> calls[o].text, topic |-> calls[o].topic,
                    created |-> calls[o].now, updated |-> calls[o].now])
  /\ Reported(Finish(o, "created"), o)
  /\ UNCHANGED <<clock, begun, overlapped>>

\* The update replaces the entry's id by one of its own.
UpdateUnderNewId(o) ==
  /\ At(o, "update")
  /\ Write(o, calls[o].target)
  /\ Reported(Finish(o, "updated"), o)
  /\ UNCHANGED <<clock, begun, overlapped>>

-----------------------------------------------------------------------------
\* A turn calls remember or forget.  A text the privacy filter rejects ends the
\* call; a remember reads the clock.
Begin(o) ==
  /\ o = begun + 1
  /\ Cardinality(Active) < MaxActive
  /\ begun' = o
  /\ overlapped' = overlapped \cup (IF Active = {} THEN {} ELSE Active \cup {o})
  /\ UNCHANGED rows
  /\ \/ \E x \in Texts \ Secrets, topic \in Topics \cup {NoTopic} :
          /\ clock' = clock + 1
          /\ Goto(o, IF topic = NoTopic THEN "search" ELSE "topic",
                  [Started("remember", x, topic, "topic") EXCEPT !.now = clock'])
     \/ Secrets # {} /\ Finish(o, "rejected") /\ UNCHANGED clock
     \/ \E x \in {y \in Texts : WordsOf[y] # <<>>} :
          /\ Goto(o, "search", Started("forget", x, NoTopic, "search"))
          /\ UNCHANGED clock

\* _find_similar, by topic: the newest candidate with the very topic.
FindByTopic(o) ==
  /\ At(o, "topic")
  /\ LET topic == calls[o].topic
         same == {i \in Search(topic, CandidateLimit) : rows[i].topic = topic}
     IN  IF same = {} THEN Goto(o, "search", calls[o])
         ELSE Decide(o, calls[o], rows[Newest(rows, same)])
  /\ UNCHANGED <<rows, clock, begun, overlapped>>

\* _search_by_tokens: one search for each of the first words; the last one
\* tells a remember what it restates, and a forget what to delete.
SearchWord(o) ==
  /\ At(o, "search")
  /\ UNCHANGED <<rows, clock, begun, overlapped>>
  /\ LET words == WordsOf[calls[o].text]
         n == calls[o].searched + 1
         hits == IF words = <<>> THEN {} ELSE Search(words[n], SearchLimit(calls[o]))
         merged == [i \in Ops |-> IF i \in hits THEN rows[i] ELSE calls[o].found[i]]
         matches == Freshest(merged, IdsOf(merged), ForgetLimit)
         c == [calls[o] EXCEPT !.found = merged, !.searched = n]
     IN  IF n < Len(words) /\ n < MaxSearchTokens THEN Goto(o, "search", c)
         ELSE IF c.tool = "remember"
         THEN Decide(o, c, IF words = <<>> THEN NoRow ELSE FirstSimilar(merged, c.text))
         ELSE IF matches = {} THEN Finish(o, "forgot")
         ELSE Goto(o, "delete", [c EXCEPT !.victims = matches])

\* The changed copy replaces the stored row, or brings it back.
Update(o) ==
  /\ At(o, "update")
  /\ Write(calls[o].target.id, calls[o].target)
  /\ Reported(Finish(o, "updated"), o)
  /\ UNCHANGED <<clock, begun, overlapped>>

\* _make_room counts the entries.
Count(o) ==
  /\ At(o, "count")
  /\ Goto(o, IF Cardinality(IdsOf(rows)) < Cap THEN "save" ELSE "oldest", calls[o])
  /\ UNCHANGED <<rows, clock, begun, overlapped>>

\* _make_room reads the oldest entry.
FindOldest(o) ==
  /\ At(o, "oldest")
  /\ IF IdsOf(rows) = {} THEN Goto(o, "save", calls[o])
     ELSE Goto(o, "evict", [calls[o] EXCEPT !.victims = {Oldest(rows, IdsOf(rows))}])
  /\ UNCHANGED <<rows, clock, begun, overlapped>>

\* _make_room deletes the entry it read.
Evict(o) ==
  /\ At(o, "evict")
  /\ \E i \in calls[o].victims : Write(i, NoRow)
  /\ Reported(Goto(o, "save", calls[o]), o)
  /\ UNCHANGED <<clock, begun, overlapped>>

\* The new entry is stored.
Save(o) ==
  /\ At(o, "save")
  /\ Write(o, [id |-> o, content |-> calls[o].text, topic |-> calls[o].topic,
               created |-> calls[o].now, updated |-> calls[o].now])
  /\ Reported(Finish(o, "created"), o)
  /\ UNCHANGED <<clock, begun, overlapped>>

\* forget deletes its matches one by one, the newest first.
DeleteMatch(o) ==
  /\ At(o, "delete")
  /\ LET i == Newest(calls[o].found, calls[o].victims)
         left == calls[o].victims \ {i}
     IN  /\ Write(i, NoRow)
         /\ Reported(IF left = {} THEN Finish(o, "forgot")
                     ELSE Goto(o, "delete", [calls[o] EXCEPT !.victims = left]), o)
  /\ UNCHANGED <<clock, begun, overlapped>>

\* A datastore call fails before it took effect; the dispatcher reports it.
Fail(o) ==
  /\ DatastoreFails
  /\ o \in Active
  /\ Finish(o, "failed")
  /\ UNCHANGED <<rows, clock, begun, overlapped>>

Next == \E o \in Ops :
  \/ Begin(o) \/ FindByTopic(o) \/ SearchWord(o) \/ Update(o) \/ Count(o)
  \/ FindOldest(o) \/ Evict(o) \/ Save(o) \/ DeleteMatch(o) \/ Fail(o)

Spec == Init /\ [][Next]_vars

-----------------------------------------------------------------------------
Row == [id : Ops, content : Texts \ Secrets, topic : Topics \cup {NoTopic},
        created : 1..MaxOps, updated : 1..MaxOps]

\* A call in flight; only a remember that found an entry has a target.
ActiveCall(c) ==
  /\ c.at \in Places /\ c.tool \in {"remember", "forget"}
  /\ c.text \in Texts /\ c.topic \in Topics \cup {NoTopic} /\ c.now \in 0..MaxOps
  /\ \A i \in Ops : c.found[i] = NoRow \/ (c.found[i] \in Row /\ c.found[i].id = i)
  /\ c.searched \in 0..MaxSearchTokens
  /\ IF c.at = "update" THEN c.target \in Row ELSE c.target = NoRow
  /\ c.victims \subseteq Ops

TypeOK ==
  /\ \A i \in Ops : rows[i] = NoRow \/ (rows[i] \in Row /\ rows[i].id = i)
  /\ clock \in 0..MaxOps /\ begun \in 0..MaxOps
  /\ \A o \in Ops :
       \/ calls[o] = Idle
       \/ calls[o].at = "done" /\ calls[o].outcome \in Outcomes
       \/ ActiveCall(calls[o])
  /\ overlapped \subseteq Ops

\* The cap is exceeded by one entry for every call that ran beside another one,
\* at most: calls that run one after another keep it.
OvershootBounded == Cardinality(IdsOf(rows)) <= Cap + Cardinality(overlapped)

\* A row appears only because the call it is named for creates it.  A deleted row
\* comes back only through a call that ran beside another one: an update writes
\* the copy it read, whatever was deleted meanwhile.
ComesBackOnlyInOverlap ==
  [][\A i \in Ops : rows[i] = NoRow /\ rows'[i] # NoRow =>
       \/ i \in Active /\ calls[i].at = "save"
       \/ \E o \in Active \cap overlapped : calls[o].at = "update" /\ calls[o].target.id = i]_vars

\* A call that runs beside no other deletes an entry only if the user asked to
\* forget something it says, or to make room, and then it is the oldest one and
\* the vault was full.
NothingLostNeedlessly ==
  [][Active \cap overlapped = {} =>
       \A i \in IdsOf(rows) : rows'[i] = NoRow =>
         \/ \E o \in Active : calls[o].tool = "forget"
              /\ \E w \in SetOfWords(calls[o].text) : Contains(rows[i], w)
         \/ /\ i = Oldest(rows, IdsOf(rows))
            /\ Cardinality(IdsOf(rows)) >= Cap]_vars

\* The tool promises of remember: "a note on the same topic is updated instead of
\* duplicated".  Without overlap an entry takes a topic that another one has only
\* if enough entries updated after that one mention the topic to hide it from the
\* bounded search; one of them may have made room since.
TopicRepeatedOnlyIfHidden ==
  [][overlapped = {} =>
       \A i \in IdsOf(rows) : \A k \in IdsOf(rows') \ {i} :
         LET topic == rows[i].topic
             fresher == {j \in IdsOf(rows) : Contains(rows[j], topic)
                                               /\ rows[j].updated > rows[i].updated}
             evicted == UNION {calls[o].victims : o \in Active}
         IN  /\ topic # NoTopic /\ rows'[k].topic = topic
             /\ rows[k] = NoRow \/ rows[k].topic # topic
             => Cardinality(fresher \cup evicted) >= CandidateLimit]_vars

Ends(o, r) == o \in Active /\ calls'[o].at = "done" /\ calls'[o].outcome = r

\* forget: "delete every entry of the owner that matches query".  A forget that ran
\* beside no other call and reports success leaves a match of the words it searched
\* only if it deleted as many as its limit, all of them updated later.
ForgetTakesTheNewest ==
  [][\A o \in Ops \ overlapped : Ends(o, "forgot") =>
       LET found == calls[o].found
           words == WordsOf[calls[o].text]
           searched == {words[n] : n \in DOMAIN words \cap 1..MaxSearchTokens}
           left == {i \in IdsOf(rows') : \E w \in searched : Contains(rows'[i], w)}
           gone == IdsOf(found) \ IdsOf(rows')
       IN  left # {} =>
             /\ Cardinality(gone) >= ForgetLimit
             /\ \A i \in left, j \in gone : rows'[i].updated < found[j].updated]_vars

\* "Storing the same fact twice writes nothing (action: unchanged), so the vault
\* is not affected."
RepeatWritesNothing ==
  [][\A o \in Active :
       (/\ calls[o].tool = "remember"
        /\ \E i \in IdsOf(rows) : AlreadyHolds(rows[i], calls[o].text, calls[o].topic))
       => rows' = rows]_vars
=============================================================================
