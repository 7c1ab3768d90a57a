----------------------------- MODULE Connection -----------------------------
(***************************************************************************)
(* The connection of a process to YDB, from open_ydb_connection to close:  *)
(* the driver is created and awaited a bounded number of times, the        *)
(* session pool is built on it, the process does its work, the pool is     *)
(* stopped, and the driver after it.  The composition root and the command *)
(* lines all follow this course.  A module with the work itself extends    *)
(* this one.                                                               *)
(*                                                                         *)
(* A process can be interrupted once at any await, which raises in the     *)
(* awaiting code, and it can be killed, which closes what it has open.     *)
(***************************************************************************)
EXTENDS Naturals

CONSTANTS
  Commands,         \* the processes that ever run
  ConnectAttempts   \* connect_attempts of the settings

ASSUME ConnectionAssumption == ConnectAttempts \in Nat \ {0}

VARIABLES
  driver,   \* of each process; "cut" when its stop was begun and did not finish
  pool,     \* the session pool of each process, likewise
  stage,    \* where each process is
  attempt,  \* the attempt to connect it is in; 0 outside of the attempts
  ending    \* how it ends, as far as that is known

connection == <<driver, pool, stage, attempt, ending>>

Resources == {"none", "open", "stopped", "cut"}
Stages == {"idle", "waiting", "pausing", "using", "stopping pool", "stopping driver", "over"}
Endings == {"none", "ok", "refused", "failed", "interrupted", "killed"}

ConnectionTypes ==
  /\ driver \in [Commands -> Resources]
  /\ pool \in [Commands -> Resources]
  /\ stage \in [Commands -> Stages]
  /\ attempt \in [Commands -> 0..ConnectAttempts]
  /\ ending \in [Commands -> Endings]

ConnectionInit ==
  /\ driver = [p \in Commands |-> "none"]
  /\ pool = [p \in Commands |-> "none"]
  /\ stage = [p \in Commands |-> "idle"]
  /\ attempt = [p \in Commands |-> 0]
  /\ ending = [p \in Commands |-> "none"]

In(p, s) == stage[p] = s
Enter(p, s) == stage' = [stage EXCEPT ![p] = s]
EndAs(p, how) == ending' = [ending EXCEPT ![p] = how]
SetDriver(p, r) == driver' = [driver EXCEPT ![p] = r]
SetPool(p, r) == pool' = [pool EXCEPT ![p] = r]
NoAttempt(p) == attempt' = [attempt EXCEPT ![p] = 0]

-----------------------------------------------------------------------------
\* The driver is created; the first attempt to reach the database begins.
CreateDriver(p) ==
  /\ In(p, "idle")
  /\ SetDriver(p, "open")
  /\ attempt' = [attempt EXCEPT ![p] = 1]
  /\ Enter(p, "waiting")
  /\ UNCHANGED <<pool, ending>>

\* The driver is ready, and the pool is built on it.
Connect(p) ==
  /\ In(p, "waiting")
  /\ SetPool(p, "open")
  /\ NoAttempt(p)
  /\ Enter(p, "using")
  /\ UNCHANGED <<driver, ending>>

\* A mistake a checked property tells from the code: one attempt too many.
NotReadyOnceMore(p) ==
  /\ In(p, "waiting")
  /\ \/ /\ attempt[p] <= ConnectAttempts
        /\ Enter(p, "pausing")
        /\ UNCHANGED <<attempt, ending>>
     \/ /\ Enter(p, "stopping driver")
        /\ EndAs(p, "failed")
        /\ NoAttempt(p)
  /\ UNCHANGED <<driver, pool>>

\* An attempt failed.  After an error of the kinds that are retried there is another
\* one after a pause, if one is left; the last failure, and at once any other error,
\* ends the attempts, and the driver is stopped.
NotReady(p) ==
  /\ In(p, "waiting")
  /\ \/ /\ attempt[p] < ConnectAttempts
        /\ Enter(p, "pausing")
        /\ UNCHANGED <<attempt, ending>>
     \/ /\ Enter(p, "stopping driver")
        /\ EndAs(p, "failed")
        /\ NoAttempt(p)
  /\ UNCHANGED <<driver, pool>>

TryAgain(p) ==
  /\ In(p, "pausing")
  /\ attempt' = [attempt EXCEPT ![p] = @ + 1]
  /\ Enter(p, "waiting")
  /\ UNCHANGED <<driver, pool, ending>>

\* The work returned or raised; either way the connection is closed.
Leave(p, how) ==
  /\ Enter(p, "stopping pool")
  /\ EndAs(p, how)
  /\ UNCHANGED <<driver, pool, attempt>>

\* close: the driver is stopped after the pool, even if stopping the pool raises.
StopPool(p) ==
  /\ In(p, "stopping pool")
  /\ \/ SetPool(p, "stopped") /\ UNCHANGED ending
     \/ SetPool(p, "cut") /\ EndAs(p, "failed")
  /\ Enter(p, "stopping driver")
  /\ UNCHANGED <<driver, attempt>>

StopDriver(p) ==
  /\ In(p, "stopping driver")
  /\ \/ SetDriver(p, "stopped") /\ UNCHANGED ending
     \/ SetDriver(p, "cut") /\ EndAs(p, "failed")
  /\ Enter(p, "over")
  /\ UNCHANGED <<pool, attempt>>

\* A mistake a checked property tells from the code: open_ydb_connection cleans up
\* after an Exception, which a cancellation is not.
InterruptLeaksDriver(p) ==
  /\ stage[p] \notin {"idle", "over"} /\ ending[p] # "interrupted"
  /\ EndAs(p, "interrupted")
  /\ \/ stage[p] \in {"waiting", "pausing"} /\ Enter(p, "over") /\ UNCHANGED <<driver, pool>>
     \/ In(p, "using") /\ Enter(p, "stopping pool") /\ UNCHANGED <<driver, pool>>
     \/ /\ In(p, "stopping pool") /\ Enter(p, "stopping driver")
        /\ SetPool(p, "cut") /\ UNCHANGED driver
     \/ In(p, "stopping driver") /\ Enter(p, "over") /\ SetDriver(p, "cut") /\ UNCHANGED pool
  /\ NoAttempt(p)

\* A cancellation raises at the await it finds the process in.
Interrupt(p) ==
  /\ stage[p] \notin {"idle", "over"} /\ ending[p] # "interrupted"
  /\ EndAs(p, "interrupted")
  /\ \/ /\ stage[p] \in {"waiting", "pausing"} /\ Enter(p, "stopping driver")
        /\ UNCHANGED <<driver, pool>>
     \/ In(p, "using") /\ Enter(p, "stopping pool") /\ UNCHANGED <<driver, pool>>
     \/ /\ In(p, "stopping pool") /\ Enter(p, "stopping driver")
        /\ SetPool(p, "cut") /\ UNCHANGED driver
     \/ In(p, "stopping driver") /\ Enter(p, "over") /\ SetDriver(p, "cut") /\ UNCHANGED pool
  /\ NoAttempt(p)

\* The process is killed, and its connections go with it.
Die(p) ==
  /\ stage[p] \notin {"idle", "over"}
  /\ SetDriver(p, "stopped")
  /\ SetPool(p, "stopped")
  /\ Enter(p, "over")
  /\ EndAs(p, "killed")
  /\ NoAttempt(p)

\* What a process does about its connection while it has no work to do.
ConnectionStep(p) ==
  CreateDriver(p) \/ Connect(p) \/ NotReady(p) \/ TryAgain(p) \/ StopPool(p) \/ StopDriver(p)

-----------------------------------------------------------------------------
\* "A failed start leaves nothing behind", nor does any other end: a process that
\* is over has at least begun to stop what it opened, and a pool is never left
\* open on a driver that is not.
NothingLeftOpen ==
  \A p \in Commands :
    /\ In(p, "over") => "open" \notin {driver[p], pool[p]}
    /\ pool[p] = "open" => driver[p] = "open"
    /\ In(p, "using") => pool[p] = "open"
=============================================================================
