------------------------------- MODULE Shutdown -------------------------------
(***************************************************************************)
(* The background tasks and the end of the service: lifespan() in          *)
(* src/main.py, run_db() in src/db.py.                                     *)
(*                                                                         *)
(* A task loops over a wait and a piece of database work on a worker       *)
(* thread.  A cancelled task cannot cancel its thread: run_db() waits for  *)
(* it, asyncio.to_thread() does not.  Errors in the work end a round, not  *)
(* the task.                                                               *)
(***************************************************************************)
EXTENDS Integers, FiniteSets

CONSTANTS
    Task,           \* the tasks lifespan() starts
    Shielded,       \* those whose work goes through run_db()
    Once,           \* those that end after one piece of work
    MaxCommits      \* bound: transactions of one piece of work

\* What the constants must be; MCService assumes it.
ShutdownAssumption ==
    /\ Shielded \subseteq Task /\ Once \subseteq Task
    /\ MaxCommits \in Nat \ {0}

VARIABLES
    task,           \* what each task is doing
    thread,         \* transactions its worker thread has still to commit
    cancelled,      \* task.cancel() was called
    service         \* "up", "stopping" after the yield, "down" after the gather

vars == <<task, thread, cancelled, service>>

Init ==
    /\ task = [t \in Task |-> "waiting"]
    /\ thread = [t \in Task |-> 0]
    /\ cancelled = {}
    /\ service = "up"

\* The sleep is over: the work starts on a thread.
Begin(t) ==
    /\ task[t] = "waiting" /\ t \notin cancelled
    /\ task' = [task EXCEPT ![t] = "working"]
    /\ \E n \in 1..MaxCommits : thread' = [thread EXCEPT ![t] = n]
    /\ UNCHANGED <<cancelled, service>>

\* The thread goes on whatever became of its task.
Commit(t) ==
    /\ thread[t] > 0
    /\ thread' = [thread EXCEPT ![t] = @ - 1]
    /\ UNCHANGED <<task, cancelled, service>>

\* The rest of the work is given up on an error, which the task logs.
Fail(t) ==
    /\ thread[t] > 0
    /\ thread' = [thread EXCEPT ![t] = 0]
    /\ UNCHANGED <<task, cancelled, service>>

Finish(t) ==
    /\ task[t] = "working" /\ thread[t] = 0 /\ t \notin cancelled
    /\ task' = [task EXCEPT ![t] = IF t \in Once THEN "ended" ELSE "waiting"]
    /\ UNCHANGED <<thread, cancelled, service>>

\* After the yield every task is cancelled, ...
Stop ==
    /\ service = "up"
    /\ service' = "stopping"
    /\ cancelled' = Task
    /\ UNCHANGED <<task, thread>>

\* Broken variant of Unwind: run_db() does not wait.
UnwindAtOnce(t) ==
    /\ t \in cancelled /\ task[t] # "ended"
    /\ task' = [task EXCEPT ![t] = "ended"]
    /\ UNCHANGED <<thread, cancelled, service>>

\* ... run_db() waits out its thread and raises the cancellation again, ...
Unwind(t) ==
    /\ t \in cancelled /\ task[t] # "ended"
    /\ t \in Shielded => thread[t] = 0
    /\ task' = [task EXCEPT ![t] = "ended"]
    /\ UNCHANGED <<thread, cancelled, service>>

\* ... and gather() waits for all of them before "Shutting down" is logged.
Down ==
    /\ service = "stopping"
    /\ \A t \in Task : task[t] = "ended"
    /\ service' = "down"
    /\ UNCHANGED <<task, thread, cancelled>>

Next ==
    \/ \E t \in Task : Begin(t) \/ Commit(t) \/ Fail(t) \/ Finish(t) \/ Unwind(t)
    \/ Stop \/ Down

Spec == Init /\ [][Next]_vars

-----------------------------------------------------------------------------
(* Properties *)

\* Types.
TypeOK ==
    /\ task \in [Task -> {"waiting", "working", "ended"}]
    /\ thread \in [Task -> 0..MaxCommits]
    /\ cancelled \subseteq Task /\ service \in {"up", "stopping", "down"}

\* "Makes cancellation mean what it says" (run_db): nothing a task started
\* through run_db() is committed after the task is gone, nor after the service
\* has said that it is down.
NothingLandsLater ==
    \A t \in Shielded : task[t] = "ended" \/ service = "down" => thread[t] = 0
===============================================================================
