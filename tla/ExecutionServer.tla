-------------------------- MODULE ExecutionServer --------------------------
(***************************************************************************)
(* The execution side of one handoff-a2a server (server.py) with the rows  *)
(* it keeps (store.py), the workspace lock (workspace.py) and the worker   *)
(* process groups it owns (processes.py).                                  *)
(*                                                                         *)
(* Everything asynchronous in server.py runs on one asyncio event loop, so *)
(* a coroutine keeps the loop until it awaits something that suspends.     *)
(* `loop' names the coroutine that holds it; a step of a coroutine either  *)
(* keeps the loop or gives it back (Idle).  Threads (asyncio.to_thread),   *)
(* worker processes and a crash do not wait for the loop.                  *)
(***************************************************************************)
EXTENDS Naturals

CONSTANTS
  Execution,     \* execution ids clients send
  Cancelable,    \* those a client may ask to cancel
  NoExecution,   \* "no execution": nobody's lock, nobody's owner.json
  CaptureFails,  \* whether _capture_partial may raise (git or the disk fails)
  MaxCrashes     \* bound: how often the server process is killed

ASSUME ServerAssumption ==
  /\ NoExecution \notin Execution
  /\ Cancelable \subseteq Execution
  /\ CaptureFails \in BOOLEAN
  /\ MaxCrashes \in Nat

VARIABLES
  row,      \* executions.status
  pid,      \* executions.pid/pgid/start_identity recorded?
  task,     \* state of the stored A2A Task
  lock,     \* the execution that made execute.lock, if the directory is there
  owner,    \* execution_id in owner.json, if the file is there
  worker,   \* the worker process group of the execution
  mode,     \* life of the server process
  todo,     \* claims reconcile_startup still has to look at
  loop,     \* the coroutine that holds the event loop
  held,     \* ExecuteLock._held, one flag for the whole server
  rt,       \* fields of the ExecutionRuntime
  co,       \* where CodingAgentExecutor.execute stands
  fz,       \* where each caller of ExecutionRuntime.finalize stands
  cpc,      \* where CodingAgentExecutor.cancel stands without a runtime
  thread,   \* the spawn_worker thread
  events,   \* task state the SDK has been told and has not stored yet
  crashes   \* kills so far

stored == <<row, pid, task>>
files == <<lock, owner>>
coroutines == <<rt, co, fz, cpc>>
vars == <<row, pid, task, lock, owner, worker, mode, todo, loop, held, rt, co,
          fz, cpc, thread, events, crashes>>

-----------------------------------------------------------------------------

TERMINAL_EXECUTION == {"completed", "failed", "rejected", "canceled"}
NONTERMINAL == {"claimed", "running", "recovery_required"}
Status == {"none"} \cup NONTERMINAL \cup TERMINAL_EXECUTION

TERMINAL_TASK == {"COMPLETED", "FAILED", "REJECTED", "CANCELED"}
TaskState == {"none", "SUBMITTED", "INPUT_REQUIRED"} \cup TERMINAL_TASK

\* Deviant: the registry status is stored unmapped.
TaskStateVerbatim(s) == s

\* EXECUTION_TO_TASK_STATE
TaskStateOf(s) ==
  CASE s = "completed" -> "COMPLETED"
    [] s = "failed"    -> "FAILED"
    [] s = "rejected"  -> "REJECTED"
    [] s = "canceled"  -> "CANCELED"

\* Coroutines that call finalize, and the SendMessage handler.
Actor == {"execute", "cancel", "shutdown"}
Idle == <<NoExecution, "idle">>

At == {"none", "queued", "spawning", "waiting", "exited", "expired",
       "deadline", "finally", "except", "handler", "outer", "outer_stop",
       "drain", "pop", "done"}
Exit == {"return", "raise", "cancel"}

Runtime ==
  [registered : BOOLEAN,                \* in executor._runtimes
   locked     : BOOLEAN,                \* lock_acquired
   owned      : BOOLEAN,                \* owned is not None
   blocked    : BOOLEAN,                \* _spawn_blocked
   closing    : BOOLEAN,                \* _closing
   final      : BOOLEAN,                \* _finalized
   cleanup    : Actor \cup {"none"}]    \* holder of the asyncio lock _cleanup

Coroutine ==
  [at          : At,
   exit        : Exit,                        \* what leaves _run_validated
   rel         : {"idle", "gate", "closed"},  \* inside release_lock_if_safe
   interrupted : BOOLEAN]                     \* task.cancel() not yet delivered

FinalizeAt == {"idle", "enter", "gate", "gated", "stop", "stopped",
               "unstopped", "release", "releasing"}

NewRuntime == [registered |-> FALSE, locked |-> FALSE, owned |-> FALSE,
               blocked |-> FALSE, closing |-> FALSE, final |-> FALSE,
               cleanup |-> "none"]
NewCoroutine == [at |-> "none", exit |-> "return", rel |-> "idle",
                 interrupted |-> FALSE]

StoredType ==
  /\ row \in [Execution -> Status]
  /\ pid \in [Execution -> BOOLEAN]
  /\ task \in [Execution -> TaskState]
FileType ==
  /\ lock \in Execution \cup {NoExecution}
  /\ owner \in Execution \cup {NoExecution}
ProcessType ==
  /\ worker \in [Execution -> {"none", "live", "dead", "recycled"}]
  /\ thread \in [Execution -> {"none", "gate", "launched", "recorded",
                               "returned", "refused", "raised"}]
  /\ cpc \in [Execution -> {"idle", "stop", "stopped", "unstopped"}]
  /\ events \in [Execution -> TaskState]
ServerType ==
  /\ mode \in {"down", "starting", "serving", "closing", "reconciling"}
  /\ todo \in SUBSET Execution
  /\ loop \in (Execution \cup {NoExecution}) \X (Actor \cup {"send", "idle"})
  /\ held \in BOOLEAN
  /\ crashes \in 0..MaxCrashes
RuntimeType == rt \in [Execution -> Runtime]
CoroutineType == co \in [Execution -> Coroutine]
FinalizeType == fz \in [Execution -> [Actor -> FinalizeAt]]

TypeOK ==
  /\ StoredType /\ FileType /\ ProcessType /\ ServerType
  /\ RuntimeType /\ CoroutineType /\ FinalizeType

\* A fresh server on an empty database: create_app before the first request.
Init ==
  /\ row = [e \in Execution |-> "none"]
  /\ pid = [e \in Execution |-> FALSE]
  /\ task = [e \in Execution |-> "none"]
  /\ lock = NoExecution
  /\ owner = NoExecution
  /\ worker = [e \in Execution |-> "none"]
  /\ mode = "serving"
  /\ todo = {}
  /\ loop = Idle
  /\ held = FALSE
  /\ rt = [e \in Execution |-> NewRuntime]
  /\ co = [e \in Execution |-> NewCoroutine]
  /\ fz = [e \in Execution |-> [a \in Actor |-> "idle"]]
  /\ cpc = [e \in Execution |-> "idle"]
  /\ thread = [e \in Execution |-> "none"]
  /\ events = [e \in Execution |-> "none"]
  /\ crashes = 0

-----------------------------------------------------------------------------
(* Helpers.                                                                *)

Up == mode \in {"serving", "closing"}

\* A suspended coroutine may be resumed; a running one continues.
LoopFree == Up /\ loop = Idle
Runs(e, a) == Up /\ loop = <<e, a>>

\* execute resumes normally unless task.cancel() is waiting to be delivered.
Resumes(e) == LoopFree /\ ~co[e].interrupted

\* Deviant: an error during the launch leaves _spawn_lock taken.
SpawnLockLeaked(e) == thread[e] \notin {"launched", "recorded", "raised"}

\* _spawn_lock: spawn_worker holds it from the Popen to its return.
SpawnLockFree(e) == thread[e] \notin {"launched", "recorded"}

\* Deviant: launch without looking at _spawn_blocked.
SpawnUngated(e) == TRUE

\* The gate of spawn_worker.
SpawnAllowed(e) == ~rt[e].blocked

\* is_owned_alive: a recycled pid is a live pid with a foreign identity.
is_owned_alive(e) == worker[e] \in {"live", "recycled"}

\* Deviants: the worker's group is not looked at; it is never seen to end.
OwnedUnchecked(e) == FALSE
OwnedForGood(e) == rt[e].owned

OwnedAlive(e) == rt[e].owned /\ is_owned_alive(e)

\* persist_task_outcome: a terminal Task is left alone.
Persisted(e, s) == [task EXCEPT ![e] = IF @ \in TERMINAL_TASK THEN @ ELSE s]

\* TaskUpdater enqueues; the SDK stops listening after a terminal state.
Emitted(e, s) == [events EXCEPT ![e] = IF @ \in TERMINAL_TASK THEN @ ELSE s]

\* release_lock_if_owner: removes the directory only under this owner.json.
release_lock_if_owner(e) ==
  /\ lock' = IF owner = e THEN NoExecution ELSE lock
  /\ owner' = IF owner = e THEN NoExecution ELSE owner

\* ExecuteLock.release: whatever directory is there goes when _held is set;
\* with no directory rmdir raises before _held is cleared.
Unlock ==
  /\ lock' = IF held THEN NoExecution ELSE lock
  /\ owner' = IF held THEN NoExecution ELSE owner
  /\ held' = IF lock = NoExecution THEN held ELSE FALSE
UnlockRaises == held /\ lock = NoExecution

\* What dies with the process.  Workers run in sessions of their own.
Volatile ==
  /\ mode' = "down"
  /\ todo' = {}
  /\ loop' = Idle
  /\ held' = FALSE
  /\ rt' = [e \in Execution |-> NewRuntime]
  /\ co' = [e \in Execution |-> NewCoroutine]
  /\ fz' = [e \in Execution |-> [a \in Actor |-> "idle"]]
  /\ cpc' = [e \in Execution |-> "idle"]
  /\ thread' = [e \in Execution |-> "none"]
  /\ events' = [e \in Execution |-> "none"]

Goto(e, at) == co' = [co EXCEPT ![e].at = at]
Leave(e, at, exit) == co' = [co EXCEPT ![e].at = at, ![e].exit = exit]

-----------------------------------------------------------------------------
(* SendMessage.                                                            *)

\* on_message_send, first half: claim() inserts the row and a Task stub in
\* one commit; a retransmission finds the row it made the first time.
Send(e) ==
  /\ mode = "serving" /\ LoopFree
  /\ row' = [row EXCEPT ![e] = IF @ = "none" THEN "claimed" ELSE @]
  /\ task' = [task EXCEPT ![e] = IF row[e] = "none" THEN "SUBMITTED" ELSE @]
  /\ loop' = <<e, "send">>
  /\ UNCHANGED <<pid, files, worker, mode, todo, held, coroutines, thread,
                 events, crashes>>

\* Deviant: whatever is not terminal is dispatched.
DispatchUnfinished(e) == row[e] \notin TERMINAL_EXECUTION

\* try_dispatch: the UPDATE that only one request wins.
try_dispatch(e) == row[e] = "claimed"

\* Second half: only the request that turns claimed into running reaches the
\* SDK, which schedules execute; every other one returns the stored Task.
Dispatch(e) ==
  /\ Runs(e, "send")
  /\ loop' = Idle
  /\ \/ /\ try_dispatch(e)
        /\ row' = [row EXCEPT ![e] = "running"]
        /\ Goto(e, "queued")
     \/ /\ ~try_dispatch(e)
        /\ UNCHANGED <<row, co>>
  /\ UNCHANGED <<pid, task, files, worker, mode, todo, held, rt, fz, cpc,
                 thread, events, crashes>>

\* The SDK's consumer stores the state it was told (SqliteTaskStore.save).
SaveTask(e) ==
  /\ LoopFree
  /\ events[e] # "none"
  /\ task' = [task EXCEPT ![e] = events[e]]
  /\ events' = [events EXCEPT ![e] = "none"]
  /\ UNCHANGED <<row, pid, files, worker, mode, todo, loop, held, coroutines,
                 thread, crashes>>

-----------------------------------------------------------------------------
(* execute and _run_validated.                                             *)

\* _run_validated answers REJECTED: the lock is taken (WorkspaceBusy), or
\* validation or delivery fails and the lock just taken is released again.
Reject(e) ==
  /\ Resumes(e) /\ co[e].at = "queued"
  /\ held' = IF lock = NoExecution THEN FALSE ELSE held
  /\ row' = [row EXCEPT ![e] = "rejected"]
  /\ events' = Emitted(e, "REJECTED")
  /\ rt' = [rt EXCEPT ![e].registered = TRUE, ![e].final = TRUE]
  /\ Goto(e, "outer")
  /\ loop' = <<e, "execute">>
  /\ UNCHANGED <<pid, task, files, worker, mode, todo, fz, cpc, thread,
                 crashes>>

\* The lock is free: it is taken, the request is valid, start_work is
\* announced and the launch is handed to a thread.
Prepare(e) ==
  /\ Resumes(e) /\ co[e].at = "queued"
  /\ lock = NoExecution
  /\ lock' = e
  /\ held' = TRUE
  /\ rt' = [rt EXCEPT ![e].registered = TRUE, ![e].locked = TRUE]
  /\ Goto(e, "spawning")
  /\ thread' = [thread EXCEPT ![e] = "gate"]
  /\ UNCHANGED <<stored, owner, worker, mode, todo, loop, fz, cpc, events,
                 crashes>>

\* The runtime is registered, then its directory or request.json cannot be
\* written, which no except clause covers: execute ends and leaves both as they
\* are.
EvidenceFails(e) ==
  /\ Resumes(e) /\ co[e].at = "queued"
  /\ rt' = [rt EXCEPT ![e].registered = TRUE]
  /\ Leave(e, "done", "raise")
  /\ UNCHANGED <<stored, files, worker, mode, todo, loop, held, fz, cpc, thread,
                 events, crashes>>

\* An error that is neither WorkspaceBusy nor WorkspaceError after the lock
\* was taken and before the try that releases it.
PrepareRaises(e) ==
  /\ Resumes(e) /\ co[e].at = "queued"
  /\ lock = NoExecution
  /\ lock' = e
  /\ held' = TRUE
  /\ rt' = [rt EXCEPT ![e].registered = TRUE, ![e].locked = TRUE]
  /\ Leave(e, "except", "raise")
  /\ loop' = <<e, "execute">>
  /\ UNCHANGED <<stored, owner, worker, mode, todo, fz, cpc, thread, events,
                 crashes>>

\* The launch thread is done.  None, or a finalization under way: return.
SpawnReturned(e) ==
  /\ Resumes(e) /\ co[e].at = "spawning"
  /\ \/ /\ thread[e] = "returned" /\ ~rt[e].closing
        /\ Goto(e, "waiting")
        /\ UNCHANGED loop
     \/ /\ \/ thread[e] = "refused"
           \/ thread[e] = "returned" /\ rt[e].closing
        /\ Leave(e, "finally", "return")
        /\ loop' = <<e, "execute">>
     \/ /\ thread[e] = "raised"
        /\ Leave(e, "finally", "raise")
        /\ loop' = <<e, "execute">>
  /\ UNCHANGED <<stored, files, worker, mode, todo, held, rt, fz, cpc, thread,
                 events, crashes>>

\* wait_owned in its thread: the group is empty, or the deadline has passed.
WaitOwned(e) ==
  /\ mode # "down" /\ co[e].at = "waiting"
  /\ \/ ~is_owned_alive(e) /\ Goto(e, "exited")
     \/ Goto(e, "expired")
  /\ UNCHANGED <<stored, files, worker, mode, todo, loop, held, rt, fz, cpc,
                 thread, events, crashes>>

\* After the wait: the result row is committed, the SDK told, and the
\* runtime marked final; nothing is done once someone else is finalizing.
Deliver(e, outcome) ==
  /\ Resumes(e) /\ co[e].at = "exited"
  /\ ~rt[e].final /\ ~rt[e].closing
  /\ row' = [row EXCEPT ![e] = outcome]
  /\ events' = Emitted(e, TaskStateOf(outcome))
  /\ rt' = [rt EXCEPT ![e].final = TRUE]
  /\ Leave(e, "finally", "return")
  /\ loop' = <<e, "execute">>
  /\ UNCHANGED <<pid, task, files, worker, mode, todo, held, fz, cpc, thread,
                 crashes>>

\* After the wait: someone else finalizes, or reading the result raises.
DeliverNothing(e) ==
  /\ Resumes(e) /\ co[e].at = "exited"
  /\ IF rt[e].final \/ rt[e].closing
     THEN Leave(e, "finally", "return")
     ELSE Leave(e, "finally", "raise")
  /\ loop' = <<e, "execute">>
  /\ UNCHANGED <<stored, files, worker, mode, todo, held, rt, fz, cpc, thread,
                 events, crashes>>

\* The deadline passed: finalize(kind="failed") from inside the try.
Expire(e) ==
  /\ Resumes(e) /\ co[e].at = "expired"
  /\ Goto(e, "deadline")
  /\ fz' = [fz EXCEPT ![e]["execute"] = "enter"]
  /\ loop' = <<e, "execute">>
  /\ UNCHANGED <<stored, files, worker, mode, todo, held, rt, cpc, thread,
                 events, crashes>>

\* The finally of _run_validated: with the lock and no live worker it calls
\* release_lock_if_safe, which first awaits the spawn gate.
Finally(e) ==
  /\ Runs(e, "execute") /\ co[e].at = "finally"
  /\ IF rt[e].locked /\ ~OwnedAlive(e)
     THEN co' = [co EXCEPT ![e].rel = "gate"] /\ loop' = Idle
     ELSE Goto(e, "except") /\ UNCHANGED loop
  /\ UNCHANGED <<stored, files, worker, mode, todo, held, rt, fz, cpc, thread,
                 events, crashes>>

\* execute's except clauses: CancelledError finalizes as canceled; any other
\* error of an unfinished run is reported, recorded and releases the lock.
Except(e) ==
  /\ Runs(e, "execute") /\ co[e].at = "except" /\ co[e].rel = "idle"
  /\ \/ /\ co[e].exit = "cancel"
        /\ Goto(e, "handler")
        /\ fz' = [fz EXCEPT ![e]["execute"] = "enter"]
        /\ UNCHANGED <<row, events, loop>>
     \/ /\ co[e].exit = "raise" /\ ~rt[e].final
        /\ row' = [row EXCEPT ![e] = "failed"]
        /\ events' = Emitted(e, "FAILED")
        /\ IF rt[e].locked
           THEN co' = [co EXCEPT ![e].rel = "gate"] /\ loop' = Idle
           ELSE Goto(e, "outer") /\ UNCHANGED loop
        /\ UNCHANGED fz
     \/ /\ co[e].exit = "return" \/ (co[e].exit = "raise" /\ rt[e].final)
        /\ Goto(e, "outer")
        /\ UNCHANGED <<row, events, loop, fz>>
  /\ UNCHANGED <<pid, task, files, worker, mode, todo, held, rt, cpc, thread,
                 crashes>>

\* execute's finally: wait for a finalization under way, or stop a worker
\* that is still running, or give the lock back.
Outer(e) ==
  /\ Runs(e, "execute") /\ co[e].at = "outer" /\ co[e].rel = "idle"
  /\ \/ /\ rt[e].closing /\ ~rt[e].final /\ rt[e].cleanup # "none"
        /\ Goto(e, "drain")
        /\ loop' = Idle
        /\ UNCHANGED fz
     \/ /\ ~rt[e].closing /\ ~rt[e].final /\ OwnedAlive(e)
        /\ Goto(e, "outer_stop")
        /\ fz' = [fz EXCEPT ![e]["execute"] = "enter"]
        /\ UNCHANGED loop
     \/ /\ ~rt[e].closing /\ ~rt[e].final /\ ~OwnedAlive(e) /\ rt[e].locked
        /\ co' = [co EXCEPT ![e].rel = "gate"]
        /\ loop' = Idle
        /\ UNCHANGED fz
     \/ /\ \/ rt[e].final
           \/ rt[e].closing /\ rt[e].cleanup = "none"
           \/ ~rt[e].closing /\ ~OwnedAlive(e) /\ ~rt[e].locked
        /\ Goto(e, "pop")
        /\ UNCHANGED <<loop, fz>>
  /\ UNCHANGED <<stored, files, worker, mode, todo, held, rt, cpc, thread,
                 events, crashes>>

\* `async with runtime._cleanup: pass' got through.
Drained(e) ==
  /\ Resumes(e) /\ co[e].at = "drain" /\ rt[e].cleanup = "none"
  /\ Goto(e, "pop")
  /\ loop' = <<e, "execute">>
  /\ UNCHANGED <<stored, files, worker, mode, todo, held, rt, fz, cpc, thread,
                 events, crashes>>

\* The runtime is dropped and execute returns.
Pop(e) ==
  /\ Runs(e, "execute") /\ co[e].at = "pop"
  /\ Goto(e, "done")
  /\ rt' = [rt EXCEPT ![e].registered = FALSE]
  /\ loop' = Idle
  /\ UNCHANGED <<stored, files, worker, mode, todo, held, fz, cpc, thread,
                 events, crashes>>

\* _block_spawn, in a thread, for release_lock_if_safe called by execute.
CloseGateForRelease(e) ==
  /\ mode # "down" /\ co[e].rel = "gate" /\ SpawnLockFree(e)
  /\ rt' = [rt EXCEPT ![e].blocked = TRUE]
  /\ co' = [co EXCEPT ![e].rel = "closed"]
  /\ UNCHANGED <<stored, files, worker, mode, todo, loop, held, fz, cpc,
                 thread, events, crashes>>

\* Where execute continues after its release_lock_if_safe.
AfterRelease(e) ==
  CASE co[e].at = "finally" -> "except"
    [] co[e].at = "except"  -> "outer"
    [] OTHER                -> "pop"
AfterRaise(e) == IF co[e].at = "outer" THEN "done" ELSE AfterRelease(e)

\* release_lock_if_safe goes on after the gate: it looks at the worker again
\* but not at lock_acquired.
ReleaseIfSafe(e) ==
  /\ Resumes(e) /\ co[e].rel = "closed"
  /\ \/ /\ OwnedAlive(e)
        /\ co' = [co EXCEPT ![e].rel = "idle", ![e].at = AfterRelease(e)]
        /\ loop' = <<e, "execute">>
        /\ UNCHANGED <<files, held, rt>>
     \/ /\ ~OwnedAlive(e) /\ ~UnlockRaises
        /\ Unlock
        /\ co' = [co EXCEPT ![e].rel = "idle", ![e].at = AfterRelease(e)]
        /\ rt' = [rt EXCEPT ![e].locked = FALSE]
        /\ loop' = <<e, "execute">>
     \/ /\ ~OwnedAlive(e) /\ UnlockRaises
        /\ co' = [co EXCEPT ![e].rel = "idle", ![e].exit = "raise",
                            ![e].at = AfterRaise(e)]
        /\ loop' = IF co[e].at = "outer" THEN Idle ELSE <<e, "execute">>
        /\ UNCHANGED <<files, held, rt>>
  /\ UNCHANGED <<stored, worker, mode, todo, fz, cpc, thread, events, crashes>>

\* The enclosing block a CancelledError goes to.
AfterInterrupt(e) ==
  CASE co[e].at \in {"spawning", "waiting", "exited", "expired", "deadline"}
         -> "finally"
    [] co[e].at = "finally" -> "except"
    [] co[e].at \in {"except", "handler"} -> "outer"
    [] OTHER -> "done"

\* CancelledError is thrown at the await where execute stands.  What it
\* skips depends on the block the await is in; a lock it held is given back.
\* A thread it has started cannot be stopped: the gate may still be closed.
Interrupted(e) ==
  /\ LoopFree /\ co[e].interrupted
  /\ fz' = [fz EXCEPT ![e]["execute"] = "idle"]
  /\ \/ rt' = [rt EXCEPT ![e].cleanup = IF @ = "execute" THEN "none" ELSE @]
     \/ /\ SpawnLockFree(e)
        /\ co[e].rel = "gate" \/ fz[e]["execute"] \in {"gate", "release"}
        /\ rt' = [rt EXCEPT ![e].cleanup = IF @ = "execute" THEN "none" ELSE @,
                            ![e].blocked = TRUE]
  /\ co' = [co EXCEPT ![e] = [at |-> AfterInterrupt(e), exit |-> "cancel",
                              rel |-> "idle", interrupted |-> FALSE]]
  /\ loop' = IF co[e].at \in {"outer", "outer_stop", "drain"}
             THEN Idle ELSE <<e, "execute">>
  /\ UNCHANGED <<stored, files, worker, mode, todo, held, cpc, thread, events,
                 crashes>>

-----------------------------------------------------------------------------
(* spawn_worker, in its thread, under _spawn_lock.                         *)

\* The gate, and the Popen that makes the worker.
Launch(e) ==
  /\ mode # "down" /\ thread[e] = "gate"
  /\ \/ /\ SpawnAllowed(e)
        /\ thread' = [thread EXCEPT ![e] = "launched"]
        /\ worker' = [worker EXCEPT ![e] = "live"]
        /\ rt' = [rt EXCEPT ![e].owned = TRUE]
     \/ /\ ~SpawnAllowed(e)
        /\ thread' = [thread EXCEPT ![e] = "refused"]
        /\ UNCHANGED <<worker, rt>>
  /\ UNCHANGED <<stored, files, mode, todo, loop, held, co, fz, cpc, events,
                 crashes>>

\* write_owner: owner.json names this execution, in whatever lock directory
\* is there; it refuses when the lock is not held.
WriteOwner(e) ==
  /\ mode # "down" /\ thread[e] = "launched"
  /\ held /\ lock # NoExecution
  /\ owner' = e
  /\ thread' = [thread EXCEPT ![e] = "recorded"]
  /\ UNCHANGED <<stored, lock, worker, mode, todo, loop, held, coroutines,
                 events, crashes>>

\* update_execution(status="running", pid=...).
RecordPid(e) ==
  /\ mode # "down" /\ thread[e] = "recorded"
  /\ row' = [row EXCEPT ![e] = "running"]
  /\ pid' = [pid EXCEPT ![e] = TRUE]
  /\ thread' = [thread EXCEPT ![e] = "returned"]
  /\ UNCHANGED <<task, files, worker, mode, todo, loop, held, coroutines,
                 events, crashes>>

\* The Popen, the write of owner.json or the commit raises.
SpawnRaises(e) ==
  /\ mode # "down"
  /\ \/ thread[e] \in {"launched", "recorded"}
     \/ thread[e] = "gate" /\ SpawnAllowed(e)
  /\ thread' = [thread EXCEPT ![e] = "raised"]
  /\ UNCHANGED <<stored, files, worker, mode, todo, loop, held, coroutines,
                 events, crashes>>

-----------------------------------------------------------------------------
(* ExecutionRuntime.finalize, for each of its callers.                     *)

\* The kind each call site passes.
Kind(e, a) ==
  IF a = "cancel" \/ (a = "execute" /\ co[e].at = "handler")
  THEN "canceled" ELSE "failed"

FinalizeRuns(e, a) ==
  Runs(e, a) \/ (LoopFree /\ ~(a = "execute" /\ co[e].interrupted))

\* `async with self._cleanup': wait while another caller holds it; return if
\* the runtime is final; otherwise announce _closing and await the gate.
FinalizeEnter(e, a) ==
  /\ fz[e][a] = "enter"
  /\ FinalizeRuns(e, a)
  /\ \/ /\ rt[e].cleanup # "none" /\ Runs(e, a)
        /\ loop' = Idle
        /\ UNCHANGED <<rt, fz>>
     \/ /\ rt[e].cleanup = "none" /\ rt[e].final
        /\ fz' = [fz EXCEPT ![e][a] = "idle"]
        /\ loop' = <<e, a>>
        /\ UNCHANGED rt
     \/ /\ rt[e].cleanup = "none" /\ ~rt[e].final
        /\ rt' = [rt EXCEPT ![e].closing = TRUE, ![e].cleanup = a]
        /\ fz' = [fz EXCEPT ![e][a] = "gate"]
        /\ loop' = Idle
  /\ UNCHANGED <<stored, files, worker, mode, todo, held, co, cpc, thread,
                 events, crashes>>

\* stop_worker, and later release_lock_if_safe: _block_spawn in a thread.
FinalizeGate(e, a) ==
  /\ mode # "down" /\ SpawnLockFree(e)
  /\ \/ fz[e][a] = "gate" /\ fz' = [fz EXCEPT ![e][a] = "gated"]
     \/ fz[e][a] = "release" /\ fz' = [fz EXCEPT ![e][a] = "releasing"]
  /\ rt' = [rt EXCEPT ![e].blocked = TRUE]
  /\ UNCHANGED <<stored, files, worker, mode, todo, loop, held, co, cpc,
                 thread, events, crashes>>

\* Behind the gate `owned' is final: without a worker it counts as stopped.
FinalizeGated(e, a) ==
  /\ FinalizeRuns(e, a) /\ fz[e][a] = "gated"
  /\ IF rt[e].owned
     THEN fz' = [fz EXCEPT ![e][a] = "stop"] /\ loop' = Idle
     ELSE fz' = [fz EXCEPT ![e][a] = "stopped"] /\ loop' = <<e, a>>
  /\ UNCHANGED <<stored, files, worker, mode, todo, held, rt, co, cpc, thread,
                 events, crashes>>

\* stop_owned, in a thread: the group is empty, or that is not confirmed.
FinalizeStop(e, a) ==
  /\ mode # "down" /\ fz[e][a] = "stop"
  /\ \/ /\ worker[e] # "recycled"
        /\ worker' = [worker EXCEPT ![e] = "dead"]
        /\ fz' = [fz EXCEPT ![e][a] = "stopped"]
     \/ /\ is_owned_alive(e)
        /\ fz' = [fz EXCEPT ![e][a] = "unstopped"]
        /\ UNCHANGED worker
  /\ UNCHANGED <<stored, files, mode, todo, loop, held, rt, co, cpc, thread,
                 events, crashes>>

\* _mark_recovery: the lock stays, the runtime is final.
FinalizeRecovery(e, a) ==
  /\ FinalizeRuns(e, a) /\ fz[e][a] = "unstopped"
  /\ row' = [row EXCEPT ![e] = "recovery_required"]
  /\ task' = Persisted(e, "INPUT_REQUIRED")
  /\ events' = IF a = "shutdown" THEN events ELSE Emitted(e, "INPUT_REQUIRED")
  /\ rt' = [rt EXCEPT ![e].final = TRUE, ![e].cleanup = "none"]
  /\ fz' = [fz EXCEPT ![e][a] = "idle"]
  /\ loop' = <<e, a>>
  /\ UNCHANGED <<pid, files, worker, mode, todo, held, co, cpc, thread,
                 crashes>>

\* The outcome is committed and stored in the Task.  With lock_acquired the
\* release awaits the gate once more; without it only an owner.json of this
\* execution is cleared.
FinalizeSettle(e, a) ==
  /\ FinalizeRuns(e, a) /\ fz[e][a] = "stopped"
  /\ row' = [row EXCEPT ![e] = Kind(e, a)]
  /\ task' = Persisted(e, TaskStateOf(Kind(e, a)))
  /\ events' = IF a = "shutdown" THEN events
               ELSE Emitted(e, TaskStateOf(Kind(e, a)))
  /\ \/ /\ rt[e].locked
        /\ fz' = [fz EXCEPT ![e][a] = "release"]
        /\ loop' = Idle
        /\ UNCHANGED <<files, rt>>
     \/ /\ ~rt[e].locked
        /\ release_lock_if_owner(e)
        /\ rt' = [rt EXCEPT ![e].final = TRUE, ![e].cleanup = "none"]
        /\ fz' = [fz EXCEPT ![e][a] = "idle"]
        /\ loop' = <<e, a>>
  /\ UNCHANGED <<pid, worker, mode, todo, held, co, cpc, thread, crashes>>

\* release_lock_if_safe after the gate, then release_lock_if_owner.
FinalizeRelease(e, a) ==
  /\ FinalizeRuns(e, a) /\ fz[e][a] = "releasing"
  /\ \/ /\ OwnedAlive(e)
        /\ rt' = [rt EXCEPT ![e].final = TRUE, ![e].cleanup = "none"]
        /\ UNCHANGED <<files, held>>
     \/ /\ ~OwnedAlive(e) /\ ~UnlockRaises
        /\ lock' = IF held \/ owner = e THEN NoExecution ELSE lock
        /\ owner' = IF held \/ owner = e THEN NoExecution ELSE owner
        /\ held' = FALSE
        /\ rt' = [rt EXCEPT ![e].final = TRUE, ![e].cleanup = "none",
                            ![e].locked = FALSE]
  /\ fz' = [fz EXCEPT ![e][a] = "idle"]
  /\ loop' = <<e, a>>
  /\ UNCHANGED <<stored, worker, mode, todo, co, cpc, thread, events, crashes>>

\* _capture_partial or release() raises: _closing stays set, the runtime is
\* not final.  The error goes to execute, ends cancel(), or leaves the
\* lifespan and with it the process, which then has not reconciled.
FinalizeRaises(e, a) ==
  /\ FinalizeRuns(e, a)
  /\ \/ CaptureFails /\ fz[e][a] = "stopped"
     \/ fz[e][a] = "releasing" /\ ~OwnedAlive(e) /\ UnlockRaises
  /\ \/ /\ a = "shutdown"
        /\ Volatile
     \/ /\ a # "shutdown"
        /\ fz' = [fz EXCEPT ![e][a] = "idle"]
        /\ rt' = [rt EXCEPT ![e].cleanup = "none"]
        /\ \/ /\ a = "cancel"
              /\ loop' = <<e, a>>
              /\ UNCHANGED co
           \/ /\ a = "execute" /\ co[e].at = "deadline"
              /\ loop' = <<e, a>>
              /\ Leave(e, "finally", "raise")
           \/ /\ a = "execute" /\ co[e].at = "handler"
              /\ loop' = <<e, a>>
              /\ Goto(e, "outer")
           \/ /\ a = "execute" /\ co[e].at = "outer_stop"
              /\ loop' = Idle
              /\ Goto(e, "done")
        /\ UNCHANGED <<mode, todo, held, cpc, thread, events>>
  /\ UNCHANGED <<stored, files, worker, crashes>>

\* execute goes on after its own finalize, by the place it was called from.
ExecuteResumes(e) ==
  /\ Runs(e, "execute") /\ fz[e]["execute"] = "idle"
  /\ \/ co[e].at = "deadline" /\ Leave(e, "finally", "return")
     \/ co[e].at = "handler" /\ Goto(e, "outer")
     \/ co[e].at = "outer_stop" /\ Goto(e, "pop")
  /\ UNCHANGED <<stored, files, worker, mode, todo, loop, held, rt, fz, cpc,
                 thread, events, crashes>>

-----------------------------------------------------------------------------
(* CancelTask.                                                             *)

\* Deviant: a scheduled execute survives the cancel of its task.
QueuedKept(e) ==
  IF co[e].at \in {"none", "queued", "done"} THEN co
  ELSE [co EXCEPT ![e].interrupted = TRUE]

\* The SDK cancels the producer task and calls cancel(): an execute that has
\* not started never will, one that awaits gets CancelledError next.
Disturbed(e) ==
  CASE co[e].at = "queued" -> [co EXCEPT ![e].at = "done"]
    [] co[e].at \in {"none", "done"} -> co
    [] OTHER -> [co EXCEPT ![e].interrupted = TRUE]

\* CancelTask reaches cancel() while the stored Task is not terminal.
Cancels(e) ==
  /\ mode = "serving" /\ LoopFree
  /\ e \in Cancelable
  /\ task[e] \in {"SUBMITTED", "INPUT_REQUIRED"}
  /\ fz[e]["cancel"] = "idle" /\ cpc[e] = "idle"

\* Deviant: a terminal row is not recognised.
CancelFailsAnyRow(e) ==
  Cancels(e) /\ ~rt[e].registered /\ ~(pid[e] /\ is_owned_alive(e))

\* No runtime, and no recorded worker that may be alive.
CancelFails(e) ==
  /\ Cancels(e)
  /\ row[e] \notin TERMINAL_EXECUTION /\ ~rt[e].registered
  /\ ~(pid[e] /\ is_owned_alive(e))

\* cancel(): a terminal row is not cancelable; a runtime is finalized; with
\* no runtime and no recorded live worker the row fails at once.
Cancel(e) ==
  /\ Cancels(e)
  /\ co' = Disturbed(e)
  /\ \/ /\ row[e] \in TERMINAL_EXECUTION
        /\ UNCHANGED <<stored, files, events, fz, cpc, loop>>
     \/ /\ row[e] \notin TERMINAL_EXECUTION /\ rt[e].registered
        /\ fz' = [fz EXCEPT ![e]["cancel"] = "enter"]
        /\ loop' = <<e, "cancel">>
        /\ UNCHANGED <<stored, files, events, cpc>>
     \/ /\ CancelFails(e)
        /\ task' = Persisted(e, "FAILED")
        /\ row' = [row EXCEPT ![e] = "failed"]
        /\ events' = Emitted(e, "CANCELED")
        /\ release_lock_if_owner(e)
        /\ UNCHANGED <<pid, fz, cpc, loop>>
     \/ /\ row[e] \notin TERMINAL_EXECUTION /\ ~rt[e].registered
        /\ pid[e] /\ is_owned_alive(e)
        /\ cpc' = [cpc EXCEPT ![e] = "stop"]
        /\ UNCHANGED <<stored, files, events, fz, loop>>
  /\ UNCHANGED <<worker, mode, todo, held, rt, thread, crashes>>

\* stop_owned in its thread, for cancel() without a runtime.
CancelStop(e) ==
  /\ mode # "down" /\ cpc[e] = "stop"
  /\ \/ /\ worker[e] # "recycled"
        /\ worker' = [worker EXCEPT ![e] = "dead"]
        /\ cpc' = [cpc EXCEPT ![e] = "stopped"]
     \/ /\ is_owned_alive(e)
        /\ cpc' = [cpc EXCEPT ![e] = "unstopped"]
        /\ UNCHANGED worker
  /\ UNCHANGED <<stored, files, mode, todo, loop, held, rt, co, fz, thread,
                 events, crashes>>

\* cancel() without a runtime, once stop_owned has answered.
CancelAnswer(e) ==
  /\ LoopFree
  /\ \/ /\ cpc[e] = "stopped"
        /\ row' = [row EXCEPT ![e] = "canceled"]
        /\ events' = Emitted(e, "CANCELED")
        /\ release_lock_if_owner(e)
        /\ UNCHANGED task
     \/ /\ cpc[e] = "unstopped"
        /\ row' = [row EXCEPT ![e] = "recovery_required"]
        /\ task' = Persisted(e, "INPUT_REQUIRED")
        /\ events' = Emitted(e, "INPUT_REQUIRED")
        /\ UNCHANGED files
  /\ cpc' = [cpc EXCEPT ![e] = "idle"]
  /\ UNCHANGED <<pid, worker, mode, todo, loop, held, rt, co, fz, thread,
                 crashes>>

\* cancel() returns once its finalize has.
CancelReturns(e) ==
  /\ Runs(e, "cancel") /\ fz[e]["cancel"] = "idle"
  /\ loop' = Idle
  /\ UNCHANGED <<stored, files, worker, mode, todo, held, coroutines, thread,
                 events, crashes>>

-----------------------------------------------------------------------------
(* Shutdown, crash and start of the server process.                        *)

\* The lifespan leaves its yield: the web server has drained its requests.
\* shutdown() walks over the runtimes registered now.
Shutdown ==
  /\ mode = "serving" /\ loop = Idle
  /\ \A e \in Execution : /\ fz[e]["cancel"] = "idle" /\ cpc[e] = "idle"
                          /\ co[e].at # "queued"
  /\ mode' = "closing"
  /\ loop' = <<NoExecution, "shutdown">>
  /\ todo' = {e \in Execution : rt[e].registered}
  /\ UNCHANGED <<stored, files, worker, held, coroutines, thread, events,
                 crashes>>

\* The shutdown coroutine runs and no finalize of its own is under way.
InShutdown ==
  /\ mode = "closing" /\ loop[2] = "shutdown"
  /\ \A e \in Execution : fz[e]["shutdown"] = "idle"

\* One runtime after the other: finalize(kind="failed", updater=None).
ShutdownFinalize(e) ==
  /\ InShutdown /\ e \in todo
  /\ todo' = todo \ {e}
  /\ fz' = [fz EXCEPT ![e]["shutdown"] = "enter"]
  /\ loop' = <<e, "shutdown">>
  /\ UNCHANGED <<stored, files, worker, mode, held, rt, co, cpc, thread,
                 events, crashes>>

\* Deviants: every row is listed (list_all); only undispatched ones are.
EveryRow == {e \in Execution : row[e] # "none"}
UndispatchedRows == {e \in Execution : row[e] = "claimed"}

\* list_nonterminal
Nonterminal == {e \in Execution : row[e] \in NONTERMINAL}

\* All runtimes are finalized: shutdown() reconciles without awaiting.
ShutdownReconcile ==
  /\ InShutdown /\ todo = {}
  /\ mode' = "reconciling"
  /\ todo' = Nonterminal
  /\ UNCHANGED <<stored, files, worker, loop, held, coroutines, thread, events,
                 crashes>>

\* create_app opens the database and runs reconcile_startup before serving.
Restart ==
  /\ mode = "down"
  /\ mode' = "starting"
  /\ todo' = Nonterminal
  /\ UNCHANGED <<stored, files, worker, loop, held, coroutines, thread, events,
                 crashes>>

Reconciles(e) == mode \in {"starting", "reconciling"} /\ e \in todo

\* _reconcile_claim may fail the claim: the recorded group is gone or could
\* be stopped, or nothing was ever started.
Interruptible(e) ==
  \/ pid[e] /\ worker[e] # "recycled"
  \/ ~pid[e] /\ row[e] = "claimed"
StoppedWorker(e) == [worker EXCEPT ![e] = IF pid[e] THEN "dead" ELSE @]

\* The claim fails and a lock that names it is cleared.
ReconcileFailed(e) ==
  /\ Reconciles(e) /\ Interruptible(e)
  /\ worker' = StoppedWorker(e)
  /\ task' = Persisted(e, "FAILED")
  /\ row' = [row EXCEPT ![e] = "failed"]
  /\ release_lock_if_owner(e)
  /\ todo' = todo \ {e}
  /\ UNCHANGED <<pid, mode, loop, held, coroutines, thread, events, crashes>>

\* _reconcile_claim keeps the reservation: the identity is uncertain, the
\* worker does not stop, or no process was recorded for a dispatched claim.
ReconcileRecovery(e) ==
  /\ Reconciles(e)
  /\ \/ pid[e] /\ is_owned_alive(e)
     \/ ~pid[e] /\ row[e] # "claimed"
  /\ task' = Persisted(e, "INPUT_REQUIRED")
  /\ row' = [row EXCEPT ![e] = "recovery_required"]
  /\ todo' = todo \ {e}
  /\ UNCHANGED <<pid, files, worker, mode, loop, held, coroutines, thread,
                 events, crashes>>

\* reconcile_startup's except clause: an error on one row marks that row for
\* recovery, also when _persist_failed had settled its Task before.
ReconcileRaises(e) ==
  /\ Reconciles(e)
  /\ \/ /\ task' = Persisted(e, "INPUT_REQUIRED")
        /\ UNCHANGED worker
     \/ /\ Interruptible(e)
        /\ worker' = StoppedWorker(e)
        /\ task' = Persisted(e, "FAILED")
  /\ row' = [row EXCEPT ![e] = "recovery_required"]
  /\ todo' = todo \ {e}
  /\ UNCHANGED <<pid, files, mode, loop, held, coroutines, thread, events,
                 crashes>>

\* Deviant: nothing is healed.
Unhealed == task

\* _heal_terminal_tasks: a terminal row with an open Task settles the Task.
Healed ==
  [e \in Execution |->
     IF row[e] \in TERMINAL_EXECUTION /\ task[e] \notin TERMINAL_TASK
     THEN TaskStateOf(row[e]) ELSE task[e]]

\* reconcile_startup ends: the server serves, or the process exits.
ReconcileDone ==
  /\ todo = {}
  /\ task' = Healed
  /\ \/ /\ mode = "starting"
        /\ mode' = "serving"
        /\ UNCHANGED <<todo, loop, held, coroutines, thread, events>>
     \/ /\ mode = "reconciling"
        /\ Volatile
  /\ UNCHANGED <<row, pid, files, worker, crashes>>

\* The process is killed between two steps.
Crash ==
  /\ mode # "down" /\ crashes < MaxCrashes
  /\ crashes' = crashes + 1
  /\ Volatile
  /\ UNCHANGED <<stored, files, worker>>

\* The process is killed inside a step that makes several durable writes.
\* finalize commits the row before the Task; _persist_failed and
\* _persist_recovery commit the Task before the row; a release removes
\* owner.json before the directory.
CrashBetween(e) ==
  /\ mode # "down" /\ crashes < MaxCrashes
  /\ crashes' = crashes + 1
  /\ Volatile
  /\ \/ /\ \E a \in Actor :
             /\ FinalizeRuns(e, a)
             /\ \/ /\ fz[e][a] = "stopped"
                   /\ row' = [row EXCEPT ![e] = Kind(e, a)]
                   /\ task' \in {task, Persisted(e, TaskStateOf(Kind(e, a)))}
                \/ /\ fz[e][a] = "unstopped"
                   /\ row' = [row EXCEPT ![e] = "recovery_required"]
                   /\ UNCHANGED task
        /\ UNCHANGED <<pid, files, worker>>
     \/ /\ (Reconciles(e) /\ Interruptible(e)) \/ CancelFails(e)
        /\ worker' = IF Reconciles(e) THEN StoppedWorker(e) ELSE worker
        /\ task' = Persisted(e, "FAILED")
        /\ \/ row' = row /\ owner' = owner
           \/ /\ row' = [row EXCEPT ![e] = "failed"]
              /\ owner' \in {owner, IF owner = e THEN NoExecution ELSE owner}
        /\ UNCHANGED <<pid, lock>>
     \/ /\ Reconciles(e) \/ (LoopFree /\ cpc[e] = "unstopped")
        /\ task' = Persisted(e, "INPUT_REQUIRED")
        /\ UNCHANGED <<row, pid, files, worker>>
     \/ /\ LoopFree /\ cpc[e] = "stopped"
        /\ row' = [row EXCEPT ![e] = "canceled"]
        /\ owner' \in {owner, IF owner = e THEN NoExecution ELSE owner}
        /\ UNCHANGED <<pid, task, lock, worker>>
     \/ /\ \/ co[e].rel = "closed" /\ Resumes(e) /\ ~OwnedAlive(e)
           \/ \E a \in Actor : /\ FinalizeRuns(e, a)
                               /\ fz[e][a] = "releasing" /\ ~OwnedAlive(e)
        /\ owner' = IF held \/ owner = e THEN NoExecution ELSE owner
        /\ UNCHANGED <<stored, lock, worker>>

-----------------------------------------------------------------------------
(* The worker's process group, and the pid table around it.                *)

WorkerExits(e) ==
  /\ worker[e] = "live"
  /\ worker' = [worker EXCEPT ![e] = "dead"]
  /\ UNCHANGED <<stored, files, mode, todo, loop, held, coroutines, thread,
                 events, crashes>>

\* Once nobody waits for the group its pid may be given to a stranger.  Only
\* the pid of a row that is still open is ever probed again.
PidRecycled(e) ==
  /\ worker[e] = "dead" /\ ~rt[e].owned /\ row[e] \in NONTERMINAL
  /\ worker' = [worker EXCEPT ![e] = "recycled"]
  /\ UNCHANGED <<stored, files, mode, todo, loop, held, coroutines, thread,
                 events, crashes>>

StrangerExits(e) ==
  /\ worker[e] = "recycled"
  /\ worker' = [worker EXCEPT ![e] = "dead"]
  /\ UNCHANGED <<stored, files, mode, todo, loop, held, coroutines, thread,
                 events, crashes>>

-----------------------------------------------------------------------------

SpawnThread(e) == Launch(e) \/ WriteOwner(e) \/ RecordPid(e) \/ SpawnRaises(e)

ExecuteStep(e) ==
  \/ EvidenceFails(e) \/ Reject(e) \/ Prepare(e) \/ PrepareRaises(e)
  \/ SpawnReturned(e)
  \/ \E outcome \in {"completed", "failed"} : Deliver(e, outcome)
  \/ DeliverNothing(e) \/ Expire(e) \/ Finally(e) \/ Except(e) \/ Outer(e)
  \/ Drained(e) \/ Pop(e) \/ ReleaseIfSafe(e)
  \/ Interrupted(e) \/ ExecuteResumes(e)

FinalizeStep(e, a) ==
  \/ FinalizeEnter(e, a) \/ FinalizeGated(e, a) \/ FinalizeRecovery(e, a)
  \/ FinalizeSettle(e, a) \/ FinalizeRelease(e, a) \/ FinalizeRaises(e, a)

FinalizeThread(e, a) == FinalizeGate(e, a) \/ FinalizeStop(e, a)

Reconcile ==
  \/ ReconcileDone
  \/ \E e \in Execution :
       ReconcileFailed(e) \/ ReconcileRecovery(e) \/ ReconcileRaises(e)

Next ==
  \/ \E e \in Execution :
       \/ Send(e) \/ Dispatch(e) \/ SaveTask(e)
       \/ ExecuteStep(e) \/ WaitOwned(e) \/ CloseGateForRelease(e)
       \/ SpawnThread(e)
       \/ \E a \in Actor : FinalizeStep(e, a) \/ FinalizeThread(e, a)
       \/ Cancel(e) \/ CancelStop(e) \/ CancelAnswer(e) \/ CancelReturns(e)
       \/ ShutdownFinalize(e) \/ CrashBetween(e)
       \/ WorkerExits(e) \/ PidRecycled(e) \/ StrangerExits(e)
  \/ Shutdown \/ ShutdownReconcile \/ Crash \/ Restart \/ Reconcile

Spec == Init /\ [][Next]_vars

\* What the platform promises: the event loop's ready queue and asyncio.Lock
\* are first-in first-out, so a coroutine that can be resumed again and again
\* is; threads are run; wait_owned and stop_owned carry deadlines; somebody
\* restarts a server that is down.  Clients, workers and kills promise nothing.
Fairness ==
  /\ \A e \in Execution :
       /\ WF_vars(Dispatch(e)) /\ SF_vars(SaveTask(e))
       /\ SF_vars(ExecuteStep(e)) /\ WF_vars(WaitOwned(e))
       /\ WF_vars(SpawnThread(e)) /\ WF_vars(CloseGateForRelease(e))
       /\ \A a \in Actor : /\ SF_vars(FinalizeStep(e, a))
                          /\ WF_vars(FinalizeThread(e, a))
       /\ WF_vars(CancelStop(e)) /\ SF_vars(CancelAnswer(e))
       /\ WF_vars(CancelReturns(e)) /\ WF_vars(ShutdownFinalize(e))
  /\ WF_vars(ShutdownReconcile) /\ WF_vars(Restart) /\ WF_vars(Reconcile)

FairSpec == Spec /\ Fairness

-----------------------------------------------------------------------------
(* Properties.                                                             *)

\* An execution the registry calls completed, canceled or rejected has no
\* running worker: the result is committed, finalize settles and a request
\* is refused only when the group is gone or can no longer be launched.
SettledIsStopped ==
  \A e \in Execution :
    row[e] \in {"completed", "canceled", "rejected"} => worker[e] # "live"

\* What makes SettledIsStopped inductive, part by part.  A claim that was not
\* dispatched has no coroutine and no worker ...
Fresh(e) ==
  row[e] \in {"none", "claimed"} =>
    co[e].at = "none" /\ worker[e] = "none" /\ ~pid[e]

\* ... an execute that has not run yet has touched nothing, and nobody else
\* acts for it ...
Scheduled(e) ==
  /\ co[e].at = "queued" => /\ mode = "serving" /\ row[e] = "running"
                            /\ worker[e] = "none" /\ ~pid[e]
  /\ co[e].at \in {"none", "queued"} =>
       /\ thread[e] = "none" /\ ~rt[e].registered /\ ~rt[e].owned
       /\ co[e].rel = "idle" /\ ~co[e].interrupted
       /\ \A a \in Actor : fz[e][a] = "idle"
       /\ mode = "closing" => e \notin todo

\* ... a launch that may still happen is the first, and is refused once the
\* execution is settled ...
Gated(e) ==
  thread[e] = "gate" =>
    /\ worker[e] = "none" /\ ~pid[e] /\ ~rt[e].owned
    /\ row[e] \in {"completed", "canceled", "rejected"} => rt[e].blocked

\* ... the coroutine knows the worker it launched and reads a result only
\* after its end ...
Launched(e) ==
  /\ worker[e] = "live" /\ co[e].at # "none" => rt[e].owned
  /\ co[e].at \in {"waiting", "exited"} => thread[e] = "returned"
  /\ co[e].at = "exited" => worker[e] # "live"

\* ... and whoever stops a worker has closed the gate before and settles
\* only when the group is gone.
Stopping(e) ==
  /\ \A a \in Actor :
       /\ fz[e][a] \in {"gated", "stop", "stopped"} => rt[e].blocked
       /\ fz[e][a] = "stop" => rt[e].owned
       /\ fz[e][a] = "stopped" => worker[e] # "live"
  /\ cpc[e] # "idle" => pid[e]
  /\ cpc[e] = "stopped" => worker[e] # "live"

\* The protocol between launch, cancel, deadline, shutdown and restart: a
\* launch is the first one, and it cannot follow a settlement.
LaunchProtocol ==
  /\ loop[2] = "send" => mode = "serving"
  /\ \A e \in Execution :
       Fresh(e) /\ Scheduled(e) /\ Gated(e) /\ Launched(e) /\ Stopping(e)
  /\ SettledIsStopped

\* A live worker works under the workspace's execute.lock, and that lock was
\* taken for its execution.
WorkerReserved ==
  \A e \in Execution : worker[e] = "live" => lock = e

\* A worker is launched at most once for an execution id, whatever is
\* retransmitted, canceled or restarted.
LaunchedOnce ==
  [][\A e \in Execution :
       worker'[e] = "live" => worker[e] \in {"none", "live"}]_vars

\* A terminal row keeps its outcome; only a failed one whose worker could not
\* be stopped is opened again for recovery.
OutcomeFinal ==
  [][\A e \in Execution :
       row[e] \in TERMINAL_EXECUTION =>
         \/ row'[e] = row[e]
         \/ row[e] = "failed" /\ row'[e] = "recovery_required"]_vars

\* Registry and Task store tell a client the same outcome, except that a
\* cancel that found no live worker may leave a failed row with either Task.
OutcomesAgree ==
  \A e \in Execution :
    row[e] \in TERMINAL_EXECUTION /\ task[e] \in TERMINAL_TASK =>
      \/ task[e] = TaskStateOf(row[e])
      \/ row[e] = "failed" /\ task[e] = "CANCELED"

\* A finalize has raised after it had set _closing: nobody will finalize the
\* execution again before the next start.
Abandoned(e) ==
  /\ rt[e].closing /\ ~rt[e].final
  /\ \A a \in Actor : fz[e][a] = "idle"

\* An execute whose evidence could not be written has ended before its run:
\* until a cancel, a shutdown or the next start nobody settles it.
Unprepared(e) ==
  /\ rt[e].registered /\ co[e].at = "done"
  /\ ~rt[e].locked /\ ~rt[e].owned /\ ~rt[e].closing /\ ~rt[e].final

\* Every dispatched execution comes to an outcome or to recovery, unless its
\* evidence could not be written or its finalization has raised: no await of
\* execute, cancel, deadline, shutdown or restart waits for ever.
DispatchedSettles ==
  \A e \in Execution :
    row[e] \in {"claimed", "running"} ~>
      (row[e] \notin {"claimed", "running"} \/ Abandoned(e) \/ Unprepared(e))

\* A cancel request is answered: it never waits for ever behind the launch,
\* the finalization of another caller or a worker that does not die.
CancelAnswered ==
  \A e \in Execution :
    (fz[e]["cancel"] # "idle" \/ cpc[e] # "idle")
      ~> (fz[e]["cancel"] = "idle" /\ cpc[e] = "idle")

\* Polling ends: once the registry has an outcome the stored Task becomes
\* terminal too, through the SDK's consumer or healed by the next start.
TaskSettles ==
  \A e \in Execution :
    row[e] \in TERMINAL_EXECUTION
      ~> (task[e] \in TERMINAL_TASK \/ row[e] = "recovery_required")

\* The server implements the reservation protocol: in every behaviour the
\* lock directory and the running workers obey WorkspaceReservation.
Reservation ==
  INSTANCE WorkspaceReservation WITH
    holder <- lock,
    working <- {e \in Execution : worker[e] = "live"},
    ran <- {e \in Execution : worker[e] # "none"}
ReservationKept == Reservation!Spec

\* The result and lifecycle artifacts of a completed execution say lock_held:
\* False.  Once its execute has ended that is so, whoever released it, unless a
\* CancelledError reached execute in its last await (server.py:1080): then the
\* lock stays, and the runtime still says it has it.
ReportedUnlocked ==
  \A e \in Execution :
    co[e].at = "done" /\ row[e] = "completed" /\ lock = e =>
      co[e].exit = "cancel" /\ rt[e].locked
=============================================================================
