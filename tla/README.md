# ydb-agent-kit: a TLA+ model

TLA+ modules for the core of ydb-agent-kit: the chat turn, the agent loop, the memory vault,
the task writes and queries, the migration runner, the YDB connection and the demo seed. TLC
checks each of them on small instances; TLAPS proves every safety property that a passing
run checks, for every value of the constants. `PROJECT.json` lists the components, the runs,
for every definition the lines of source it models, for every property a mutation of the
code that breaks it, the hazards, the findings and the theorems. Paths below are relative to
the repository.

    tlc -config MCChatTurnsFaults.cfg MCChatTurns     # a run
    tlapm ChatTurnsProofs.tla                         # a proof module

## 1. Inventory

| component | state it keeps | operations | what makes it correct |
|---|---|---|---|
| Chat turn (`SendMessageUseCase`) | `messages`, `chats`, `chat_agent_context` tables; per request the chat row, the history and the trace in memory | store the question, run the model, commit the turn, mark it failed, record the conversation state | reply and `sent` appear together; a terminal status is final; the HTTP answer agrees with the tables; every request is answered |
| Agent loop and dispatcher | conversation, trace, iteration, all in memory | ask the model, retry, dispatch tool calls, feed back, cut the history | the model never sees tool results without their calls; each call runs at most once and has one result; the loop ends |
| Memory vault (`UserMemoryWriter`) | `user_memory` table with a cap | remember (create, update, evict), forget | the cap; one entry per topic, as far as the search reaches; nothing lost that nobody asked to lose |
| Task writes | `tasks` table | create, update, delete, by id or by human text | `done` and `completed_at` together; a text reaches the one task it names; only what was asked changes |
| Task queries | none (reads) | `query_tasks` with four ways to find nothing, `list_page` | the outcome tells the truth about the period, by local days; groups and counts add up |
| Migrations | `schema_migrations` table, and the schema itself | plan, load, execute, verify, complete, mark failed, final check | completed means verified; order; recovery |
| Projects, project overviews | `projects` table | create, list with totals | totals agree with the tasks |
| Demo seed | rows of the owner | lay out dates around an anchor, one transaction of upserts, report | all or nothing; repeatable; nothing else touched; the rows obey the domain rules |
| YDB access | driver, session pool | connect, close, transaction with replay | replays are harmless; attempts are bounded; nothing stays open |
| LLM client | none | one call with retries | bounded retries; every SDK error becomes one of the port's |
| Accounts, gateway, prompts, scripts | `users` table; otherwise none | insert, lookup, error mapping, rendering | a request reaches only what its principal owns |

How they interact. The gateway awaits `SendMessageUseCase`, which awaits repositories, the
transaction manager and the agent loop; the loop awaits the LLM client and, through the
dispatcher, the executors, which are the use cases of tasks and memory. Everything inside
a turn is sequential. Concurrency is between requests: any number of turns and HTTP calls
of one owner run at once, in one event loop or in several processes, and meet only in the
YDB tables. Nothing in the code holds a lock, and only the commit of a turn, its `failed`
mark and the seed use a transaction. Migration runs meet in the same way: a container
starts one when it comes up (`docker-compose.yml`) and an operator may start another.

What is hard, therefore: turns interleaved between any two awaits; whole rows written back
from copies read earlier; calls that fail before or after they took effect; a transaction
body that the driver replays, also after a commit whose acknowledgement was lost; process
death between two steps; limits (history, iterations, retries, cap) that cut something in
the middle; and outcomes put together from several reads.

## 2. Modules

| module | models | proofs |
|---|---|---|
| `MessageLifecycle` | what a client may rely on about one message: an abstract specification | |
| `ChatTurns` | all concurrent turns; implements `MessageLifecycle` | `ChatTurnsProofs` |
| `AgentLoop` | one turn inside `RunModel` of `ChatTurns` | `AgentLoopProofs` |
| `MemoryVault` | the `remember` and `forget` tools of one user | `MemoryVaultProofs` |
| `TaskWrites` | the task writes of one owner | `TaskWritesProofs` |
| `TaskQuery` | one `query_tasks`, `list_page` or `list_projects` call beside writes | `TaskQueryProofs` |
| `MigrationRun` | overlapping `migrate up` runs | `MigrationRunProofs` |
| `Connection` | the life of a process's connection to YDB; extended by `DemoSeed` | `DemoSeedProofs` |
| `WorkspaceSeeding` | what the seed command promises the owner: an abstract specification | |
| `DemoSeed` | overlapping seed commands beside the owner's edits; implements `WorkspaceSeeding` | `DemoSeedProofs` |
| `DemoWorkspace` | the dates of the rows a seed writes | `DemoWorkspaceProofs` |

`MC*` modules hold the values of the constants for TLC. In every module an action is one
awaited call and the code up to the next one. The operators under "Mistakes in single
steps", and those whose comment calls them a mistake or that stand unused before the
operator they vary, are no part of any specification: they are plausible bugs, and
`PROJECT.json` pairs each with the property that finds it.

**ChatTurns.** `status` and `replied` are the user and the assistant rows of `messages`,
`touched` is `chats.updated_at`, `context` says whose state `chat_agent_context` holds.
`pc[t]` names the call that a turn makes next: `Arrive` (validation), `LoadChat`
(`_load_owned_chat`), `StoreMessage`, `LoadHistory`, `RenderContext`, `RunModel` (the
loop, with the exceptions that leave it), `CommitTurn` and `MarkFailed` (transactions),
`AbortTransaction` (an attempt that is rolled back), `RecordState`
(`ConversationStateWriter`). A datastore failure is a second outcome of each call, with
and without its effect; for a transaction it is a commit whose acknowledgement is lost
(the effect stays and `ReplayOrGiveUp` runs the body again, with the same ids and times,
or reports 503). `Crash` may come between any two steps. `RenderContext` swallows failures
and `RecordState` reports success either way, as the code does. `response` has one value
for each class of answer in `gateway/api/errors.py`. `known` is a history variable.

**AgentLoop.** `conversation` is the list of items as kinds; `start` is the number of items
that are not of this turn. `request` is the last slice sent and `flow` the trace. `Init`
covers `_build_conversation`. `ModelUnavailable`, `ModelRefuses`, `ModelTexts` and
`ModelCalls` are the outcomes of one model call, `Dispatch` is one tool call, `FeedBack` the
end of an iteration. A turn ends with a reply or by an exception (`Raise`): a failure of the
model, or an answer to tool calls that came without its event. The trace is local to
`generate_response`, so a turn that raises loses it. The client behind the port is external:
`ClientTurns` and `EventOptional` say what it may return. The shipped client always gives an
event and never blank text; the port allows both, and the loop has code for them, so the run
allows them.

**MemoryVault.** A text is its significant words. `FindByTopic` and `SearchWord` are the
searches of `_find_similar` and `_matches`, one step per word, `Decide` what `remember`
does with their result, `Count`, `FindOldest`, `Evict`, `Save` the steps of `_make_room`
and `_create`, `DeleteMatch` one deletion of `forget`. A call holds the rows that it read;
`Update` writes such a copy. The reading tool `recall` is left out.

**TaskWrites.** A row keeps title, notes, status, project and instants. A text is
compared with the titles, and if none is equal, with the parts of titles and notes
(`Matches`; `Mentions` says in which of them a text appears). `Begin` is the arrival of
a create, an update or a delete; `FindNone`, `FindDoomed` and `FindAndEdit` are the ways a
lookup (`TaskLookup`) can end, the last one with the edit made in memory; `Insert`, `Save`
and `Delete` write. The copy held in between is what is saved. Update by id reads the row
and checks the project in one step, because projects are never removed. Priority and
due date take the path of the status.

**TaskQuery.** Instants are numbers, `DayStart` gives the local midnights, so that days
have different lengths. The actions follow `QueryTasksUseCase.execute` call by call:
`CountAll`, `ReadBounds` (coverage and project), `CountMatches`, `Search`, `CountUndated`,
or on the empty branches `SearchUnfiltered` and `CountUnwindowed`; `CountPage` and
`TurnPage` are `list_page`, and `SumUp` is `ListProjectsUseCase`, which folds rows that
the datastore has grouped by project and status. `GroupsOf` is the summary view with its
four groupings. `Change` and `CreateProject` are writes of another request. `InPeriod`,
`Wanted`, `Together`, `OutsideCoverage` and `ShownBefore` are the definitions by days and
by tasks that the outcomes are compared with: a page, for example, with the tasks that
have exactly `offset` wanted ones before them.

**MigrationRun.** `history` is `schema_migrations`, `schema` the set of artifacts that
exist. Statements are `CREATE ... IF NOT EXISTS`, so executing one twice is harmless.
`Plan` .. `CheckAll` are the steps of `apply_pending_migrations`; `Fails(r)` gives every
call of an unsound run a failure, with and without effect.

**Connection.** The driver and the pool of each process, the `stage` it is in and how it is
going to end. `CreateDriver`, `NotReady`, `TryAgain` and `Connect` are `open_ydb_connection`
with its bounded attempts: errors of YDB, timeouts and refused connections are retried, any
other error ends the attempts at once. `Leave`, `StopPool` and `StopDriver` are the closing
that both the composition root and the command lines run in `finally`. `Interrupt` is a
cancellation (or Ctrl-C), raised at whatever await it finds the process in; `Die` is a kill.

**DemoSeed** extends `Connection` with the work of the seed command: `Resolve` (the user of
the token, and the anchor), `Begin`, `Write` for each row, `FailToWrite`, `Commit` (which
may take effect and still report an error, after which the driver runs the transaction
anew), `Refuse` (an unknown user or an anchor out of range: the refusal is printed, and
stands, before the connection is closed) and `CutShort` (an interruption or a kill in the
middle of it). Demo rows have ids derived from the owner and their title, so they are
numbered here. `ReadTask` and `WriteTask` are the two halves of an edit by the owner, who
may hold a row read before the seeding and write it back after it. `WorkspaceSeeding` is the
promise of the module's comment, in terms of the rows and of what the command reported.

**DemoWorkspace.** The generators draw a task as offsets in days from the anchor, and
`Materialise` turns the offsets into instants. `DrawOpen`, `DrawCancelled` and `DrawDone`
choose among all values the random generators can return, `TakePinned` takes one of the
blueprints written out in the source, `PinToPreviousMonth` a slot of the previous month,
`Refuse` is the anchor too close to the edge of the calendar. Day and month lengths are
constants.

## 3. Runs

| run | states | question |
|---|---|---|
| `turns_faults` | 224 k | do two turns racing in one chat, beside a foreign request, stay atomic and truthful under every fault, is every request answered, and what leaves a message `processing`? |
| `agent_loop` | 146 k | are all requests to the model well formed, all calls answered once, does a reply report every tool run, and does the turn end? |
| `memory` | 1.2 M | what does overlap do to the cap and to deleted rows, and what do calls that run alone guarantee, within the limits of their searches? |
| `tasks` | 859 k | are rows consistent under overlap, and what do calls that run alone guarantee? |
| `tasks_query` | 626 k | is each outcome, group and total exact, and was "nothing found" true at some moment? |
| `migrations` | 95 k | completed means declared, order, recovery, with three overlapping runs |
| `seed` | 247 k | is the workspace replaced whole or not at all, are reports true, is every connection closed, does every command end? |
| `demo_rows` | 305 k | does every task the generators can draw obey the rules of the layout? |
| `memory_repeat`, `tasks_deleted`, `query_empty_filter`, `migrations_filtered` | | the four disagreements of section 5: TLC finds the property violated |

Every property stands for a hazard of `PROJECT.json`. Some are conjunctions of parts with
names of their own: `TurnsAreAtomic` (`SentIffReplied`, `AnswersMatchTables`),
`ChatRowsComeFromAnsweredTurns` (`TouchedByReply`, `StateOfAnsweredTurn`),
`RowsConsistent` (`DoneIffCompleted`, `TimesOrdered`), `KeepsTheLayout`
(`ObeysDomainRules`, `StaysInItsDays`, `FillsPreviousMonth`).

Bounds and why they are enough:

- `turns_faults`: two turns of one chat are the least that race; a third meets a foreign
  chat. `HistoryLimit = 2` is below the four messages of the two turns, so the limit cuts.
  `MaxAttempts = 2` allows a replay after an abort and after a lost acknowledgement.
  Liveness is a matter of one turn and is checked in the same run. The proofs remove the
  bound on turns for all safety properties.
- `agent_loop`: three stored messages at most, a limit of three, three iterations of up to
  two calls: one turn adds up to seven items, so it fills and exceeds the limit alone.
- `memory`: four calls, two at once, a vault of two: the vault fills, evicts and is
  overrun. Two texts share a word with each other and with the topic, one is secret. As in
  the code, the searches look at fewer entries than the vault can hold and at fewer words
  than a text has: one candidate, two words, and two matches of `forget` where overlap has
  left three entries. TLC confirms that both limits bite: without the exceptions for them
  the two properties fail.
- `tasks`: four calls, two at once: create, two overlapping changes, and one more after
  them. One title is part of the other, so that both tiers of the resolution decide, and
  one text appears in a title and in notes: it addresses a task by its notes alone, by its
  title alone, or two tasks, which is refused.
- `tasks_query`: every pair of tasks of five shapes, days of 2, 1 and 2 instants, windows
  with each end open, before, inside and after; the days cross a week and a month, so that
  both groupings split. Every set of two projects exists at the start, and one name is
  part of another. `MaxChanges = 1` puts one write anywhere between the reads.
- `migrations`: a migration of two statements can be cut in the middle, one of another
  module stands in between, and the last depends on it. Three runs, all of which may
  overlap: one takes every fault, one is limited to a module, one is sound.
- `seed`: two commands with anchors of their own are the least that overwrite each other;
  one project and one task make a transaction of two statements, so that it can be cut in
  the middle; a task of the owner's own; two edits, which may hold a row across a seeding.
  Two attempts to connect and two runs of a transaction allow a retry and a giving up.
- `demo_rows`: the numbers and the pinned table of the source, and anchors on both sides
  of both edges of the supported days, on the first and on the last day of a month.

`CHECK_DEADLOCK FALSE` is set everywhere because every system here stops: when all
requests, calls or runs are over, or the bound on them is reached, nothing is left to do.

Fairness. `ChatTurns`: weak fairness of each turn's `Step`. A turn is a coroutine that
awaits one call at a time, and each call returns or raises: datastore calls and model
calls have timeouts, executors are made of them. It does not include `Crash`, and it says
nothing about which outcome a call has. `AgentLoop`: weak fairness of `Next`, for the same
reason. `MigrationRun`: weak fairness of each run; `Recovers` asks only what happens to a
run that meets no fault and is alone. `DemoSeed`: weak fairness of the steps of each
command that has been started; connecting, statements and commits all have timeouts, and
nothing makes anyone start a command. The other modules state safety only: their calls are
sequences of reads and writes with no loop that could fail to end, and their ends are part
of the turn's.

## 4. Proofs

The proof modules assume no more than the `ASSUME` of the module they are about: constants
have their types, and the few relations between them that the settings or the source
guarantee. Nothing bounds the number of turns, calls, runs, commands, rows, replays or
overlapping calls (`MaxOps` and `MaxActive` are any naturals). Each invariant was
model-checked before it was proved.

- **ChatTurnsProofs.** The inductive invariant `Outcome` is `TypeOK`, `SentIffReplied`,
  `AnswersMatchTables` and `PlaceMatchesStatus`. The second and third alone are not
  inductive: that `MarkFailed` does not turn a `sent` message into `failed` follows only
  from the fact that a turn in `marking` has never been in `committing`, which
  `PlaceMatchesStatus` carries. From it follow `Atomicity`, `TerminalStatusIsFinal`,
  `ChatRows`, and `PromiseKept`: each action maps to a step of `MessageLifecycle` or to
  one that a client does not see. `AnswersShown` needs a second invariant: `Loaded` says
  that the messages a turn has loaded stay stored, that its question and the turns answered
  before it began are stored with them, and that only finitely many are. `LeftOutForNewer`
  then shows that a bounded search by time leaves a message out only for `HistoryLimit`
  newer ones that it returns; this needs no induction, because the newest of the messages
  left out would otherwise have had room.
- **AgentLoopProofs.** `LoopInv` describes the conversation (`ConversationInv`: the system
  message, the stored turns, the question, then events, each followed by its results), the
  last request as a slice of it, and ties the trace of tool runs to it. `SliceDrops` is
  the lemma about `SliceForModel`: for every limit the slice is the conversation without
  some of the stored turns after the system message, never of the current turn. From them
  follow `WellFormed`, `OldTurnsDropped`, `AnsweredOnce` (no call of the model is
  dispatched twice or answered twice) and `Accounted`: a reply reports every run, and a
  turn that raises ran nothing in the iteration it raised in.
- **MemoryVaultProofs.** `VaultInv` is `Types`, `LoneInv` and `Capped`. `LoneInv` says
  that what a call that runs beside no other has read is still so; a call that has been
  overlapped loses that for good. `Capped` counts only those overlapped calls that are
  over: it is what makes the bound of `Overshoot` inductive, because a call about to store
  may have counted before another one stored. `ComesBack` and `NothingLost` are about
  single steps and follow from `LoneInv`. `TopicRepeated` and `TakesTheNewest` need more:
  `KnowsInv` adds what a call that runs alone knows through the limits of its searches. A
  `remember` past the lookup of its topic knows that each row on that topic is hidden by
  `CandidateLimit` fresher mentions, the evicted row included (`Hides`), or that it updates
  the very row on the topic. A `forget` knows that it has found exactly what its searches
  return now, and while it deletes, which of those are gone, and that whatever else
  contains a searched word is older than all of them and they are as many as the limit
  (`Outnumbered`). `LeftOut` is the lemma about a bounded search, and `Spared` the one
  about bounded searches for several words merged and bounded again.
- **TaskWritesProofs.** `Consistency` states the consistency of rows also for the copies
  that calls hold, and relates both to the clock: a stale copy is written at any later
  time, and stays consistent because it was consistent when it was read. `AloneInv` is the
  counterpart of `LoneInv`: the row that a lone call is about to write is the stored one
  with the edit applied, and the one its address still finds. `NothingElseChanges`,
  `NamedTaskReached` and `ComesBack` follow.
- **MigrationRunProofs.** `Order` is `TypeOK`, `CompletedIsDeclared` and `Behind`: every
  migration in the scope of a run that has left its `pending` set has its declared
  artifacts and a row. It is needed because a row can go back from `completed` to
  `in_progress` or `failed` in another run, while the schema only grows: order must rest
  on the schema and not on the status. `SuccessIsComplete` combines it with the final
  check.
- **TaskQueryProofs.** `QueryInv` is `TypeOK` and `Progress`, which says at each place of
  the call what it knows. Other requests write at any time, so a call never knows what is
  in the tables: it knows that what it read was so at a moment in `seen`, the contents of
  the tables since it began. That is what survives every write; `Aimed` adds that the
  criteria of its searches are those of the question and of the coverage it has read. When
  no write fell into the call (`Quiet`) the only moment is now (`OnlyNow`), and the exact
  answers follow. `Calendar` .. `DayCompares` and `HitsAreWanted` show that windows by
  instants, half open, select the tasks of a range of local days, inclusive, for every
  `DayStart`. `GapIsOutside` shows that a coverage gap is answered only for a period
  before or after every task of its axis. `PlacesInOrder` and `AxisOrders` show that the
  sort of a page gives each task a place of its own, also when several have the same date,
  and `PageHolds` that a page of `limit` places after `offset` is the tasks with that many
  ahead of them (`InPlace`), short only at the end of the list. `GroupsShown` shows that each
  task is in one group, and that groups of days, weeks and months are the tasks that fall
  together. `TotalsTell` follows the fold of `ListProjectsUseCase` over rows grouped by
  project and status: for one project and one status it meets at most one row
  (`TheOneIn`), so the recursion of the sum has to be unrolled once only.
- **DemoSeedProofs** first shows that each step of `Connection` keeps `ConnectionInv`, which
  says of every stage what is open in it, and builds on those lemmas. Its `Inv` adds
  `Counters`, `StoredInv` (what a command's place and ending tell about whether its rows
  were stored, and that one which has refused stored nothing and is closing) and `RowsInv`
  (every row, and every copy an owner's edit holds, derives from a seeding that took effect,
  or from none: without the copies the write of an old copy could not be mapped). From it
  follow `ConnectionsClosed` and `PromiseKept`: each step is one of `WorkspaceSeeding`, or
  one that the owner does not see.
- **DemoWorkspaceProofs.** `Layout`: the rules hold for every anchor, every drawn value
  and all numbers of the layout within `LayoutAssumption`, so the constants of the source
  may be changed within those bounds. The lemmas are about leaving the quiet stretch and
  about spreading days over a month by a rounded division.

Only model-checked:

- Liveness: `EveryRequestAnswered`, `EveryMessageSettles`, `TurnEnds`, `Recovers`,
  `EveryCommandEnds`. The prover has no rule for fairness.
- `RepeatWritesNothing`, `DeletedForGood`, `EmptyFilterHasTasks` and
  `SuccessLeavesNoneUnfinished` are false; TLC shows how (section 5).

What is assumed of the constants. Besides types: `HistoryLimit`, caps and limits are at
least 1 (the settings refuse less, and the limits in the source are literals); `DayStart`
ascends and `MonthOf` never descends, as a calendar does; ids are numbers, which the
model's order of equally dated tasks uses; tasks and projects are finitely many; `None`,
`NoTopic` and `NoOne` differ from every value they stand in for, as `None` does in the
code; the words of a text do not repeat, which `_significant_tokens` ensures; and the numbers
of the demo layout are within `LayoutAssumption`. TLC evaluates each assumption in the runs.

## 5. Where the code and its documents disagree

1. `memory_repeat`: storing a fact that is already stored can overwrite a fresher, similar
   entry instead of writing nothing.
2. `tasks_deleted`: an update that overlaps a delete brings the task back.
3. `query_empty_filter`: `empty_filter` is also answered for a period without any task.
4. `migrations_filtered`: a run with `--module` can succeed while a migration of another
   module is failed or unfinished.

Besides: the module comment "The vault never holds more than its cap" of the listing use
case is true of calls that run one after another; `OvershootBounded` says how far overlap
may exceed it. The `remember` tool's "a note on the same topic is updated instead of
duplicated" and the docstring of `forget`, "delete every entry of the owner that matches",
hold within the search limits of 5 and 20 entries: `TopicRepeatedOnlyIfHidden` and
`ForgetTakesTheNewest` say what is left beyond them. A turn that the datastore, a defect or
the death of its process ends leaves its message `processing`, which the kit's `README.md`
says too; `EveryMessageSettles` says that nothing else does. The comment at
`agent_tool_loop_service.py:137`, "no write happens that could not be reported", is true of
the answer it is about; what tools wrote in earlier iterations is reported neither when that
answer has no event nor when the model fails, because the trace goes with the exception.

## 6. Assumptions and what is not modelled

- Clock readings are ordered as the steps that take them, across processes. Equal or
  reversed readings would only reorder histories and evictions.
- A single YDB statement is atomic, and a transaction that commits is serializable. A
  failed call has had its effect or has not, once and for all when it is reported.
- Projects and users are never removed: no code removes them.
- Case folding, substrings and word splitting are relations given as constants.
- In `AgentLoop` executors are opaque; in `ChatTurns` so is the loop. `RunModel` has the
  three ways out that `AgentLoop` shows (`answered` or `capped`, `failed`, `defect`).
- Not modelled: chat creation and listings (one insert, plain reads); the insert of an
  account; prompts and renderers (pure text); the scripts around the program; the mapping of
  SDK exceptions (external library); the conversion of parameters and rows; the parsing of
  arguments; checksums and the status command of the migrations; `down()` of a migration,
  which no command calls. `PROJECT.json` gives the reason for each component, and names the
  two hazards that no property covers: a model failure, or an answer without its event,
  after tools have written, where the trace is lost, and the pairing of results with calls
  inside the provider's library.

## 7. Plan

Done: the turn, its promise and its proofs; the loop, the vault, the task writes, the
queries with groups, pages and project totals; migrations; the connection and the seed,
its promise and its proofs. Every safety and action property that holds is proved.

What would come next, in this order:

1. A client that pages through the messages of a chat while turns run: the cursor must not
   skip or repeat a message that was there before.
2. The conversation state as a read and a write of its own, with the last windowed query
   found in the trace instead of chosen.
3. An abstract specification of the vault, as a set of facts with a cap, that the calls
   implement while they do not overlap.
4. The provider's pairing of results with calls as an external module beside `AgentLoop`.
