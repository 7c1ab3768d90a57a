---------------------------- MODULE MCMigrationRun ----------------------------
(***************************************************************************)
(* Small instances of MigrationRun: two migrations of the agent module,    *)
(* the first with two statements, and one of the tasks module in between.  *)
(***************************************************************************)
EXTENDS MigrationRun

CONSTANTS agent, tasks, r1, r2, r3

Owners == <<agent, tasks, agent>>
Statements == <<<<"chats", "messages">>, <<"tasks">>, <<"context">>>>
Own == <<{"chats", "messages"}, {"tasks"}, {"context"}>>

\* The last migration also declares the table the tasks module creates, so a run
\* limited to the agent module cannot verify it before that module is migrated.
Shared == <<{"chats", "messages"}, {"tasks"}, {"context", "tasks"}>>

\* r2 is limited to one module.
AgentOnly == [r \in Runs |-> IF r = r2 THEN agent ELSE Everything]
TasksOnly == [r \in Runs |-> IF r = r2 THEN tasks ELSE Everything]
=============================================================================
