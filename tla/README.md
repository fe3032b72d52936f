# A TLA+ model of handoff-automation

`handoff` lets a Planner agent hand a task to an Executor agent: the task and
its `Status` are in `HANDOFF.md`, a local A2A service runs the worker that
implements it, and the Planner's commands approve, dispatch, reconcile, judge
and archive. This project models that system, checks the models with TLC on
small instances and proves what matters most with TLAPS for every instance.

Source paths are relative to the repository; `*.py` without a directory is in
`src/handoff_a2a/`.

## 1. The system

| Component | State | Operations | Modelled by |
|---|---|---|---|
| execution server (`server.py`) | runtimes by task id, spawn gate, producer coroutines, Task store of the SDK | dispatch, execute, cancel, deadline, shutdown, startup reconcile and heal | `ExecutionServer` |
| execution registry (`store.py`) | one SQLite row per execution id: claim, state, pid | claim, bind, update | `ExecutionServer` |
| workspace (`workspace.py`) | `execute.lock` and `submit.lock` directories, Git snapshot | acquire, release, release-if-owner, snapshot | `WorkspaceReservation`, `ExecutionServer`; `submit.lock` in `HandoffWorkflow`; snapshots are not modelled |
| document (`workspace.py`, parts of `integration.py` and `workflow.py`) | the text of `HANDOFF.md`, the fingerprints kept of it | read Status and sections, judge a delivery, write a verdict, restore Status, archive | `HandoffDocument` |
| owned processes (`processes.py`) | process group, pid with start identity | start, liveness, stop of the group, wait | `OwnedProcess`; one step each in `ExecutionServer` |
| workflow state (`workflow.py`) | `workflow.json`, `outstanding.json`, `HANDOFF-archive.md` | approve, reserve, consume, release, hold, archive | `HandoffWorkflow` |
| planner commands (`integration.py`) | run records; copies of the files while a command runs | execute, resume, status, cancel, watch, qa, `_reconcile` | `HandoffWorkflow` |
| A2A client (`client.py`) | none of its own | submit, get, wait, cancel, retransmit | `HandoffWorkflow` |
| legacy CLI (`bin/handoff`) | the same locks and files from bash | execute, watch, qa | execute in `HandoffWorkflow` |
| service manager (`service.py`) | `process.json`, watcher record | start, stop, inspect, quiescence test, claim watcher | `ServiceSelection`; the watcher's claim is not modelled |
| selection (`selection.py`) | `server.json` with its generation, `pending-selection.json`, run mode | switch, restore, queue, apply, cancel, mode | `ServiceSelection`; mode in `Installation` |
| setup (`setup.py`), configuration (`config.py`) | `.handoff-config.json`, `server.json`, token, excludes, history; the journal of an attempt | init, re-init, roll back | `Installation`, `ManagedRepository` |
| planner skill (`skills.py`) | the skill folder with its marker | install, upgrade, refuse | `Installation` |
| providers, adapters, contracts, reporting, planner pins, entry point | none worth a model | parse, format, validate | not modelled |

How they interact: a command reads and writes the files of the repository
without a lock, except that a submission runs under `submit.lock`. It talks to
the server with A2A messages; the server claims the execution id in the
registry, takes `execute.lock`, launches the worker, and stores the end of the
execution in three places: registry row, Task, lock directory. After a loss on
either side the Task, the lifecycle artifacts and `execute.lock` are what the
planner reconciles with. `watch` runs these commands in a loop. The service
process of the server is started and stopped by commands too, and its Executor
may be switched between runs: those commands take `service.lock`, then
`submit.lock`, so that a submission and a switch exclude each other. A
repository whose transport is not A2A runs its executor from bash, under the
same two locks. `handoff init` writes the files all of these start from, and
the Planner's skill.

What is hard: asyncio coroutines, threads and the SDK's cancellation interleave
at every await of the server; the server may be killed between any two writes;
commands work on loaded copies; requests, answers and acknowledgements get
lost; a wait times out while the answer arrives; budgets run out; a worker
forks while it is being stopped and its pid is used again; installation fails
or is killed half-way beside another command; the document that carries
everything is free text which three parties edit and the code reads by regular
expressions.
`PROJECT.json` lists these hazards at their lines, with the properties that
look for them.

What makes the parts correct: *server*: a worker is launched once per execution
id, works under its own reservation, and nothing is called settled while it
runs; outcomes are final, agree between registry and Task store, and arrive.
*planner*: no run is lost or dispatched beside another, no budget is
overspent, only completed work reaches QA, a hold stays until a human lifts it,
and an acknowledged run is reconciled in the end. *service and selection*: a
run is done by the Executor it was submitted to, the service that runs is the
selected one, neither `server stop` nor a switch stops a service under a run,
and a queued selection is applied once nothing is unresolved. *owned processes*: a stop that says so has
emptied the group, and hits nobody else. *document*: what the Planner wrote
survives every accepted delivery, a failed one routes nobody onwards, a verdict
leaves a document the next command takes. *installation*: all or nothing, to
every observer and through every failure whose undo succeeds, and nothing of the
user's is lost.

## 2. Modules

### WorkspaceReservation

The abstract promise: executions take turns on a workspace; an execution
reserves it, has at most one worker under that reservation, and the reservation
ends with or after the worker. Theorem `Exclusive`: so at most one works.

### ExecutionServer (`server.py`, `store.py`, parts of `workspace.py` and `processes.py`)

State and the code it stands for:

| Variables | Code |
|---|---|
| `row`, `pid`, `task` | registry row, its pid column, stored Task |
| `lock`, owner files, `held` | the `execute.lock` directory and the `_held` flag of the shared `ExecuteLock` |
| `worker` | the worker's process group: none, live, dead, or its pid given to a stranger |
| `co`, `thread` | each `execute` coroutine with its place between awaits, and its spawn thread |
| `fz`, `cpc` | each caller inside `finalize`, and a cancel without runtime |
| `rt` | the runtime's flags: registered, gate blocked, owned, `lock_acquired`, closing, finalized |
| `mode`, `todo`, `loop` | server life cycle, executions left to shut down or reconcile, what the loop is doing |

A step is a stretch of code between two awaits (coroutines) or between two
effects that another thread or a kill can separate (spawn thread, writes). The
server may be shut down, or killed anywhere (`Crash`, `CrashBetween` inside a
sequence of writes), and restarts with startup reconciliation and healing.
`EvidenceFails` is the error that no except clause of `execute` covers: the
runtime is registered, its evidence cannot be written, and row, Task and
runtime stay as they are (`server.py:834`).

External behaviour, taken from how the code uses it: enqueueing an event does
not suspend; an error that leaves `execute` tells the SDK's consumer nothing; the SDK cancels the producer task and then calls
`executor.cancel`, refuses a cancel whose stored Task is terminal, and its
consumer stores the last emitted state; uvicorn drains requests before lifespan
shutdown, and the process ends after it. `WORKING` is folded into `SUBMITTED`.
A request is its execution id; a delivery is one of two outcomes.
`PidRecycled` is restricted to open rows, the only ones whose pid is probed.

### HandoffWorkflow (`integration.py`, `workflow.py`, `client.py`)

Each process runs one command at a time (`cli[p]`, with the copies it has
loaded: `wf`, `out`, `doc`, `ans`). A step is one read or one write of a shared
file, one message, or taking or giving back `submit.lock`. A command may be
killed between any two steps; when it is interrupted it gives `submit.lock`
back, when it is killed the directory stays until a human removes it.

| Variables | Files |
|---|---|
| `handoff` | `HANDOFF.md`: Status and the contents of Current Task |
| `workflow` | `workflow.json`: id, approved plan, reserved and consumed executions, hold, disposition, last outcome |
| `outstanding` | `outstanding.json`; `Blank` is a record without ids, which `load_outstanding(repo) or {}` can produce |
| `record`, `request` | run records and the request kept in them |
| `submitLock`, `archive` | `submit.lock`, last entry of `HANDOFF-archive.md` |
| `task`, `report`, `launched`, `executeLock` | what the endpoint tells a client |

The endpoint is the server as a client can tell: begin, reject, launch, the
start and stop reports, the end, and then the removal of `execute.lock`
(`release_lock_if_safe` runs in a thread after the terminal Task is stored). A
restart fails the run, keeps it for recovery, or heals its Task without the
artifacts of the end.

Abstractions: branch, fingerprint and service checks are a refusal that may
happen at any time; preflight reads its files in one step (the code reads them
one after another under `submit.lock`); a command's own `{}` for a missing
workflow is `NoWorkflow`; what watch remembers of earlier polls is left out, so
the model announces more often; parent links, rebaseline and QA text are left
out. `Unlock` is the server that gives `execute.lock` back, or a human who
removes it after a restart; it is not assumed to happen.
The Planner rewrites the task only while nothing is outstanding; what happens
to the text of the document is `HandoffDocument`'s subject.

The legacy `execute` of `bin/handoff` is one more command (`Legacy...`): it
tests `outstanding.json`, again under `submit.lock`, takes `execute.lock`,
gives `submit.lock` back, lifts a hold by rewriting `workflow.json`, and runs
the executor itself. `executeLock` therefore holds a run or a process. Its log
and result files, the legacy `watch` and `qa` are left out.

### HandoffDocument and MCHandoffDocument (document functions of `workspace.py`, `integration.py`, `workflow.py`)

`HandoffWorkflow` takes the document for a Status and a plan. Here it is a
sequence of lines - `##` headings, `**Status:**` lines, other text - and what
the code finds by regular expressions is an operator of the same name:
`read_status` (the first Status line of the whole document; the value of an
empty one is the next line that is not blank), `handoff_structure`, `Section`,
`current_task_without_status`, `approved_plan_hash`, `planner_fingerprint`,
`normalize_owned`, `replace_status`, `render_qa`. Actions are the operations
that read or rewrite it: `Approve`, `Submit`, `evaluate_transition`,
`SetReadyForQA`, `RestoreSubmittedStatus`, `QA` (with and without `--append`),
`Archive`; beside them anybody may insert, remove or overwrite a line
(`Edit`), and the Executor sets its Status. A fingerprint is the text it is
computed from. `MCHandoffDocument` gives a small template, the lines that are
typed and the QA files; they were chosen for what the regular expressions can
confuse: a second Status, an empty one above a line that reads like a value, a
second heading, a heading or a Status in a QA file.

The properties are stated over the lines themselves (`PlannerLines`,
`WellFormed`), with definitions of their own for what belongs to the Planner,
not with the code's operators. The variables are plain sequences and sets, so
there is no type invariant beside them.

### OwnedProcess (`processes.py`)

| Variables | Code |
|---|---|
| `leader`, `members`, `doomed` | the started process, its descendants, who has got a SIGKILL |
| `stranger` | who has the leader's pid after it was reaped, as a session leader (then `killpg` reaches it) or not |
| `origin` | known by a `Popen` or from a record, probes permitted or not, identity readable at the start or the placeholder |
| `call` | `stop_owned` and `wait_owned`, each at one of its probes, signals or waits |
| `met`, `harmed` | history: had the stranger the pid before the stop began, has it got a signal |

`is_owned_alive` is three to four probes, each a step of its own, so that forks,
exits, reaping and reuse of the pid come between them. `pid_exists`,
`process_liveness`, `identity_matches` and `group_pids` are the sets of answers
a probe may give. `EmptiedHolds` (section 5) is what lets `ExecutionServer`
take a confirmed stop as one step that ends the worker.

### Installation and ManagedRepository (`setup.py`, `skills.py`, `config.py`, `handoff mode`)

Commands are processes; a step is one read or one write of a file. `file` maps
each file to what matters of it (`Content`); `cli[p].journal` is the code's
`Journal` (former contents, files created, in order). `init` runs as `_fresh`
for a new or a manually configured repository and as `_reinit` for a managed
one, under `service.lock`; `skill` is `handoff skill install` and runs under no
lock; `mode` is `handoff mode`. Each step may raise, before or after it has
entered its file into the journal (`Raises`, `WriteFails`), whereupon `init`
goes through its journal file by file; each command may be killed anywhere. A
user may also have a skill folder of their own.

`Journal.rollback` suppresses every `OSError` and goes on with the next file,
and so does the model. `Restore` opens a modified file, which empties it,
`Rewrite` writes it; `RestoreFails` is an error before, or after, the file was
emptied; `RemoveFails` that of an unlink or a rmtree. `cli[p].failed` remembers
the files whose undo has failed, and `spoilt` that one of them was the
configuration or the token, or that a kill has left the token empty: a token
belongs to the attempt that wrote it, and an empty one (`{}`) is no credential.
A rmtree takes the skill folder apart file by file (`Raid`) before it removes it
or gives up on it (`Raze`, for the nested journal of `install_planner_skill`).

`ManagedRepository` is the abstract promise: a repository becomes managed in one
step with everything a service needs, its credential stays, and it stops being
managed only while an attempt is open that has written the configuration; the
promise ends when a setup is spoilt. `MCInstallation` adds the symmetry of the
processes and of the run modes, which the code compares and stores but treats
alike here.

Abstractions: `write_json` and `write_text` replace a file in one step; a part
of a copied backup counts as none and a part of `HANDOFF.md` as the template,
for no command of the module reads what is in them; a second backup is not made while there is one
(its name has the time in it, and it never replaces another). An exclude file
that is cut off by an error or a kill while it is written for the first time is
not modelled. Left out: provider checks (a refusal that may always happen),
user-level skill locations, reports.

### ServiceSelection (`service.py`, `selection.py`, dispatch boundary of `integration.py`)

Each process runs one command at a time (`cli[p]`): start, stop, switch, queue,
cancel, a pass of watch over the queued selection, or a dispatch. A step takes
or gives back one lock, or writes one file, or starts, awaits or stops the
service process. A busy lock ends the command. A command may be interrupted
(it gives its locks back) or killed (they stay until a human removes them).

| Variables | Code |
|---|---|
| `server`, `pending` | `server.json` (selection, `config_generation`), `pending-selection.json` |
| `record` | the process `process.json` names |
| `services` | service processes, with what they have read in `server.json` |
| `serviceLock`, `submitLock` | the lock directories, by the command that made them |
| `outstanding`, `work` | the run as planner and server know it, with its Executor |

`start` compares with the configuration it loaded before it took the lock, as
the code does; a switch loads it again. The identity of a run is added to
`outstanding.json` after `submit.lock` is given back; the model sets it with
the file, whose existence is what the other commands look at.

Abstractions: a refusal of the provider, the plan or the workflow may always
happen; effort is part of a selection, so the model's card says a little more
than the code's; a service whose stop is not confirmed answers no more; when
all process ids of the instance are in use, a start fails. `--port`, the
watcher's record and run mode are left out.

### Proof and MC modules

Each proof module extends the module it is about: `ExecutionServerProofs`
for `ExecutionServer`, `HandoffWorkflowProofs` and then `OneCommandProofs` for
`HandoffWorkflow`, `HandoffDocumentProofs`, `InstallationProofs`,
`ServiceSelectionProofs`, `OwnedProcessProofs`. `MCExecutionServer`,
`MCHandoffWorkflow` and `MCInstallation` only add symmetry sets and the like for
TLC.

## 3. Runs

| Run | Bounds | Distinct states | Question |
|---|---|---|---|
| `server_cancel` | 1 execution, cancels, 2 kills, evidence and capture may fail, fairness | 34,026 | what may registry, Task and worker disagree on; does everything come to an end |
| `server_turns` | 2 executions, no cancel, 2 kills | 608,354 | do executions take turns; implements `WorkspaceReservation` |
| `workflow_crash` | 1 process, 2 runs, 2 plans, 1 round, 2 workflows, 1 edit, 1 kill, 1 outage | 2,025,952 | is anything lost, overspent or sent to QA wrongly |
| `workflow_submit` | 2 processes, approve and execute, 2 runs, 2 plans, 2 rounds, 2 edits, 1 kill, 1 outage | 2,679,397 | does `submit.lock` keep two sessions apart, and what may a re-approval do to a submission |
| `workflow_legacy` | 2 processes, approve, execute and legacy execute, 2 runs, 2 kills, 1 outage | 409,745 | do the A2A and the legacy executor exclude each other |
| `workflow_progress` | 1 process, all commands, 2 rounds, 1 kill, 1 outage, fairness | 373,217 | are holds kept, is a run reconciled |
| `documents` | template of 7 lines, 6 typed lines, 3 QA files, 1 run, 2 edits, at most 9 lines | 341,242 | what editing and judging may do to the text |
| `service_selection` | 2 processes, all commands, 2 commands of a human beside dispatch and watch, 2 service processes, 1 run, 1 kill, fairness | 382,520 | do switch, dispatch and service agree, is a queued selection applied |
| `installation` | 2 processes, 2 commands (init, skill install, mode), 2 modes, 1 kill or failed undo | 938,854 | is an installation all or nothing; implements `ManagedRepository` |
| `owned_process` | 2 descendants, fairness | 18,045 | does a stop end the group and spare others |

One execution suffices where the question is about an execution and its
callers, for executions share only the lock; two where it is about turns: with
two, each can be the earlier and the later one. Two kills let a kill hit the
recovery from another. One round makes the budget bite at once, two let a
failed run be followed by a second. Two runs let one be settled while the next
is announced. Two plans and two edits let the plan change, be approved again
beside a submission, and change back.

Two commands beside dispatch and watch allow a started service to be switched,
stopped or started again, and a queued selection to be replaced or canceled
while it is applied; two service processes allow the old and the new one, or
one that was left behind. Two installing commands meet at every file, and the
second may follow a killed or rolled back first; `MaxFaults` bounds kills and failed
undos together, so that each of the two happens at every step. Two descendants let one exit
while the other forks; the theorems need no bound.

In `documents` two edits are enough to move a line (remove, insert), to give a
document two Status lines or two headings and to lose a separator, before or
during the run; QA is not bounded, so its rounds follow each other; one run
lets a delivery be judged, archived, and its plan be approved again.

Each property has a mutant of the code in `PROJECT.json` that breaks it.

### Disagreements between documents and code

Two runs show the code doing what a document excludes:

- `finding_stale_reconcile`: a late reconciliation clears the pointer to a
  later run.
- `finding_unjudgeable_delivery`: a delivery is accepted although its Current
  Task lost a `---` or a blank line (`_boundary_note` forgives them, and a test
  asserts it), but the approved plan hash is over the exact text, so `handoff
  qa` refuses it. The message advises to restore the delivered copy, which has
  the same other plan, or a pre-QA backup, which does not exist yet; approve
  and archive refuse as well. Editing the lost line back, or the Status, by
  hand helps.

More of this kind is in the models without a run of its own; where a property
of a passing run is affected, the run's bounds say so:

- `server.py:782`: a kill between the launch and the recording of the pid, then
  a restart and a cancel: the row is failed and `execute.lock` released while
  the worker runs, although `docs/reference/a2a-coding-task-v1.md:61` keeps the
  reservation. `WorkerReserved` holds without cancels.
- `server.py:461`: two callers of `release_lock_if_safe` for one execution both
  pass its test; the second removes the lock of the next execution. With
  cancels no property excludes it; without them there is one caller, and
  `ReservationKept` and `WorkerReserved` are claimed.
- `server.py:1080`: a cancel that reaches `execute` in its last await leaves the
  lock of a completed execution for ever, reported as released.
  `ReportedUnlocked`, which is checked with cancels and proved for any number of
  them, says that this is the only way, and that the runtime then still says it
  has the lock. `OutstandingResolves` assumes nothing of the endpoint and says
  that a lock that stays for ever is an excuse.
- `server.py:834-843`: the evidence of a request is written after the runtime is
  registered and before the `try` that finalizes. An `OSError` there leaves the
  row running until a cancel, a shutdown or the next start
  (`DispatchedSettles` excepts it as `Unprepared`).
- Where the second releasing caller finds no lock directory any more, `release`
  raises after the outcome is stored, and the runtime is not final: `shutdown`
  finalizes the canceled execution once more and makes its row failed.
  `OutcomeFinal` fails so with two executions that may be canceled. It is
  checked with one execution, and proved for any number of which one may be
  canceled. `OutcomesAgree` is proved under the same hypothesis. With two
  executions, both canceled, and one kill TLC has found no violation of it
  (26.8 million states, beyond what a run of this project may take); with three
  it fails, without any kill or error: the first removes the directory of the
  second by its second release; the third takes the lock, its worker survives
  the cancel, and a second cancel clears the directory by `owner.json` and
  leaves `_held` set (`server.py:461`, `server.py:782`); the release of the
  second then raises, the SDK stores FAILED, and the cancel that has waited
  makes its row canceled. TLC follows that behaviour step by step to the
  violation; to search for it is beyond a run.
- `selection.py:164`: `switch_locked` takes a service it may not probe for
  stopped and publishes another selection under it. `RunningIsSelected` is
  checked with `Denials = FALSE`.
- `docs/status/implementation-plan.md:120` says failures before a worker starts
  consume no round; `integration.py:846` charges every failed or canceled run.
- `integration.py:693-694`: a kill between `reserve_round` and
  `save_outstanding` keeps a round reserved for ever. `workflow.py:151`: one
  between the two writes of approve leaves an approved workflow with the old
  Status, and a second approve does not write it.
- `workflow.py:128-151`: approve loads, changes and saves `workflow.json` without
  a lock. Beside a submission its save may erase the round just reserved, and
  the run is then outstanding without one: `PointerReserved` and
  `NothingForgotten` fail for two sessions, with two plans and an edit.
  `workflow_submit` checks what is left: the run is named (`OpenIsOutstanding`),
  and only such a save takes its round (`RoundKept`).
- `service.py:499`: a start that gives up on its own child stops it without
  `submit.lock`, also when it has just taken a run. `StopIdle` is about
  `server stop` and switches.
- `integration.py:446`: the client reads the first of two `worker-lifecycle`
  artifacts, so the report of the stop never counts and a run is unresolved
  until `execute.lock` is gone.
- `selection.py:407`: `apply_pending` marks a request as failed without a lock,
  so one that was canceled meanwhile comes back. `service.py:474`: with 3
  commands and a kill between `start_owned` and the record, a service nobody
  knows can take a run of the next selection.
- `bin/handoff:168`: the legacy execute lifts a hold by rewriting
  `workflow.json` without `submit.lock`; a reservation an A2A submission makes
  in between is lost (`PointerReserved` fails with both commands).
- `setup.py:350`, `skills.py:419`: two commands that extend
  `.git/info/exclude` at once may lose a line, although
  `docs/guides/cli-setup-and-models.md:113` calls all that init creates
  git-excluded; the rollback of one init restores the file over what another
  command added, and may take away a skill folder another command completed.
- `skills.py:399`: where such a rollback removes the folder a skill install is
  about to mark, and a third command has begun a new copy of it, the marker of
  the first goes onto a copy that is not complete: `MarkedComplete` fails with
  three commands of which two run at once. And as rmtree (`setup.py:333`)
  removes file by file, it may take a file out of a copy that another command is
  filling, fail at the `rmdir`, unheard, and leave a folder the other one then
  marks. `MarkedComplete` therefore says that a marked folder has been copied to
  the end, not that nothing was taken out of it.
- `setup.py:327-338`: the rollback suppresses the `OSError` of every undo and goes
  on, although `setup.py:16-17` and `docs/guides/cli-setup-and-models.md:129-130`
  say that the files a failed attempt has created are removed. A configuration
  that cannot be written back (the disk is full) is left empty or managed while
  backup, `server.json` and token are removed: a manual configuration is then
  lost. `SettingsRecoverable`, `RolledBack` and `SetupIsAtomic` except such
  undos, each as narrowly as it can.
- `setup.py:345-347`, `setup.py:577`: a kill between the creation of the token and
  its contents leaves an empty token, which the next init keeps and
  `server.py:237` refuses.
- `setup.py:382`: an interrupt (Ctrl-C) during the nested copy of the skill is
  neither a `SkillError` nor an `OSError`, so the nested journal is not rolled
  back and a part of a skill stays, without marker.
- `processes.py:225`: where `ps` is refused the group looks empty, and a stop
  may return True beside living descendants. `processes.py:299`: the poll of
  `wait_owned` reaps the leader while `stop_owned` waits; a stranger that then
  gets the pid and leads a session may get the SIGKILL. `StrangerSpared` is
  about those that had the pid before the stop began.
- `HANDOFF.md`: QA text below a further `##` heading is outside the Planner's
  fingerprint; no command checks the structure before a run; a document whose
  only Status line is in the QA body loses it at the next verdict.

### What does not hold with two commands at a time

`workflow.json` is changed by load, modify, save without a lock. With two
processes of which one reconciles (status, resume, cancel, watch, also its
notification) or approves, the later writer wins: a reserved or charged round or
a hold may be lost, and `NothingForgotten`, `PointerReserved`, `BudgetKept` and
`HoldKept` fail. They are therefore claimed for one command at a time with
kills. For two sessions that approve and execute `OpenIsOutstanding` and
`RoundKept` hold.

## 4. Fairness

Server: the event loop's ready queue and `asyncio.Lock` are first-in first-out,
so a coroutine that can be resumed again and again is resumed (SF); threads
run, `wait_owned` and `stop_owned` carry deadlines, and somebody restarts a
server that is down (WF). Clients, workers and kills promise nothing.
`DispatchedSettles` excepts executions whose capture raises inside `finalize`
(`Abandoned`), whose row stays running until the next start, and those whose
evidence could not be written (`Unprepared`).

Planner: a command that was started goes on (WF). `watch` polls for ever, so it
resumes an acknowledged run again and again, and a `get` of an ended Task
returns at once (SF). Nothing is assumed of the endpoint: neither that it ends
an execution, nor that it gives `execute.lock` back, which after a cancel it may
not (`server.py:1080`). `OutstandingResolves` speaks of runs whose Task has
ended, and of behaviours in which `execute.lock` does not stay for ever; a
healed COMPLETED Task has no result artifact and may stay outstanding.

Service and selection: a command that was started goes on (WF), and `watch`
polls for ever, so a pass that is possible again and again is made (SF). Nothing
is assumed of the human, of services or of runs: `IdleApplies` excuses the time
in which something is unresolved or a killed command has left its lock.

Owned processes: the thread of a stop goes on (WF); its deadlines pass, though
at each poll it may first look again (SF); a process that got a SIGKILL ends
(WF). The worker may ignore SIGTERM and fork as long as it lives.

## 5. Proofs

A theorem holds for every value of the constants: any number of executions,
processes, services and descendants, any command set, however often anything is
killed. Assumed are only the named assumptions on constants in the modules
(`NoExecution` is no execution, bounds are natural numbers, a process is not a
run id, so that `execute.lock` tells them apart, `Absent` is no content) and,
where a theorem needs it, the hypothesis it states.

| Module | Theorems | Hypothesis |
|---|---|---|
| `ExecutionServerProofs` | `TypeCorrect`, `ProtocolHolds`, `SettledStopped`, `LaunchOnce`, `ReportedUnlockedHolds` | |
| | `WorkerReservedHolds`, `ReservationKeptHolds` (refinement) | `Cancelable = {}` |
| | `OutcomesAgreeHolds`, `OutcomeFinalHolds` | at most one execution in `Cancelable` |
| | `OutcomesWhileLocksThere` | `[]LocksThere`: no release finds its directory gone |
| `WorkspaceReservation` | `Exclusive` | |
| `OwnedProcessProofs` | `TypeCorrect`, `EmptiedHolds`, `StrangerSparedHolds` | |
| `HandoffWorkflowProofs` | `TypeCorrect`, `OneSubmissionHolds`, `OneExecutorHolds` | |
| `OneCommandProofs` | `NothingForgottenHolds`, `PointerReservedHolds`, `ClearedWhenOverHolds`, `BudgetKeptHolds` | `OneCommand` |
| | `QAOnlyCompletedHolds`, `HoldKeptHolds` | `OneCommand`, no legacy execute |
| `HandoffDocumentProofs` | `NotRoutedHolds`, `VerdictStandsHolds` | |
| `InstallationProofs` | `TypeCorrect`, `SettingsRecoverableHolds`, `RolledBackHolds`, `SetupIsAtomicHolds` (refinement) | |
| | `MarkedCompleteHolds` | one process, or `MaxCommands <= 2` |
| `ServiceSelectionProofs` | `TypeCorrect`, `StopIdleHolds`, `RunPinnedHolds` | |
| | `RunningIsSelectedHolds` | `~Denials` |

A hypothesis is there because the code does not keep the property otherwise, as
section 3 shows.
`Cancelable = {}`: two callers of `release_lock_if_safe` for one execution
(`server.py:461`) exist only after a cancel, and so does a cancel beside a
launched worker whose pid is not recorded (`server.py:782`). `OneCommand` (`\A p, q \in Process : p = q`):
`workflow.json` is changed by load, modify, save without a lock; kills at every
step and any number of commands one after another are in. The legacy execute
lifts a hold by rewriting `workflow.json`, and its executor sets READY FOR QA
itself, so `HoldKept` and `QAOnlyCompleted` are about the A2A commands.
`~Denials`: a switch takes a service it may not probe for stopped
(`selection.py:164`).

### Server

`SettledIsStopped` is not inductive: whether a settled execution can still get
a worker depends on the gate, on who is about to launch, and on which caller
has stopped what. `LaunchProtocol` says this in parts: `Fresh` (a claim not
dispatched has nothing), `Scheduled` (an `execute` that has not run touched
nothing), `Gated` (a pending launch is the first, and is refused once the
execution is settled), `Launched` (the coroutine knows its worker and reads a
result only after its end) and `Stopping` (who stops a worker has closed the
gate before and settles after). The step lemma goes through the actions; lemmas
`Frame`, `Moved`, `Local` and `Died` take care of executions an action leaves
alone and of a kill. `LaunchOnce` follows because a launch needs `Gated`, which
says there has been no worker before.

For the turns `LaunchProtocol` is not enough: it says nothing of the lock.
`Turns` is inductive relative to it. Its parts: `Locked` (`lock_acquired`,
`_held` and the lock directory agree for a coroutine that runs; who is about to
release holds the lock for that execution, or shutdown has released it and
nobody takes it any more), `Spawned` (a launch happens under the lock, or its
gate is closed), `Finalizing` (one caller finalizes at a time, behind the gate
it has closed), `Ending` (shutdown leaves no runtime unfinished before it
reconciles, and a server that starts has none), `Delivered` (a delivered
execution gives the lock back on its way out) and `Uncanceled`. Beside it
`Orderly` says of every step what it may do to the lock and to a worker: leave
both, take a free lock, or give up the lock of an execution whose worker is not
alive. The refinement of `WorkspaceReservation` follows from `Orderly`: every
`Move` is a `Reserve`, `Start`, `Stop`, `Release` or a stutter of the abstract
specification.

`ReportedUnlocked` needs neither, and so holds with any cancels. `Reports` says
of an execution whose lock directory is there that its server, if it is up, has
it and says so (`Holding`), and of a completed one that it is on its way through
the release at the end of `_run_validated`, or was interrupted (`Reporting`). It
is enough to follow the execution that moves: another one can only take the
directory away (`ReportTaken`).

`OutcomesAgree` and `OutcomeFinal` need to know of everybody who may still write
a row or a Task. `Outcomes` says so per execution: `Told` (what the Task store
has, or the SDK has been told and will store, agrees with the row; only a kill
between the two writes of `_persist_failed` leaves a FAILED Task with an open
row), `Awaited` (a launch that is not refused yet has its `execute` or the
cancel that interrupted it still before it, so its commit of `running` cannot
come after an outcome), `Interrupting` and `Cleaning` (where an interrupted
`execute` and each caller of `finalize` may stand), `Settling` (a runtime that
is not final has no outcome yet, or is about to release what it has settled, or
has failed with an error after its worker's end), `Probing` (a cancel without a
runtime is alone with the execution) and `Closing` (shutdown and start leave no
open execution out). `Outcomes` is inductive as long as no release finds its
lock directory gone (`LocksThere`), for after that exception a settled runtime
is not final and may be settled again (`OutcomesWhileLocksThere`, whoever is
canceled). While at most one execution may be canceled, `LocksThere` follows
from `Lawful`, and `Outcomes` and `Lawful` are inductive together. `Lawful` says
whom a release can meet: `owner.json` names an execution that has launched and,
as long as its server is up, has the lock (`Owning`); an execution nobody
cancels releases once, on its way out, with the loop in its hands, or in the
shutdown (`Plain`, `Leaving`); the directory is there under `owner.json`, and
under `_held` while anybody may still release (`LockPresent`); and
`lock_acquired`, `_held` and the directory agree until the execution that is
canceled is past its release (`LockAgrees`, `Past`). After that the second
release of that one may well remove the directory of another one, but clears
`_held` with it, so nobody's release raises. It takes a second canceled
execution, whose cancel clears the directory by `owner.json`, to leave `_held`
without a directory.

### Planner

`TypeOK` is not inductive, for a command writes what it has copied: `Typed` adds
at which places which copies are there (`Aimed`). `OneSubmission` is `SubmitHeld`
(who is between taking and giving back `submit.lock` has made it), which kills
do not disturb because the directory stays. `OneExecutor` needs `OneHolder`:
who runs an executor has made `execute.lock`, in the endpoint as in the legacy
command, so at most one of both kinds is at work.

With one command at a time the files agree with each other, with the Tasks and
with what the command has copied. `Consistent` says so: `FilesAgree` for the
files at every moment (a killed command may leave them anywhere), `CopiesTrue`
for the copies at every place of the code. On it rest all theorems of
`OneCommandProofs`. `BudgetKept` additionally counts: charged executions stay
within the rounds (`WithinBudget`, for the current workflow and for what a
command is about to save), and every launched run of a workflow that is not
outstanding is charged. `QAOnlyCompleted` needs `QAFounded`: a document that is
ready for QA was made so by a completed run that is kept, at each of the places
where its reason is moved from one file to another.

### Document

The theorems are for documents of any length, any lines typed by hand and any
files given to `handoff qa`. `NotRouted` rests on `SubmittedEligible` (while a
run is outstanding, the submitted document reads a Status that lets a run
begin) and on `StatusReplaced`: what `replace_status` wrote is what
`read_status` finds, or there is no Status line. `VerdictStands` rests on
`Structured` (what `handoff_structure` accepts is well formed and unambiguous,
so the plan that was compared is the approved one) and on `VerdictRead`: with
`--append` the verdict of the old document is read in the longer one.

### Installation

`Consistent` has types, the exclusion by `service.lock`, the route of each
command (`Routes`), and for every init under the lock `AttemptTrue` - its journal
tells what each file was, so undoing it entry by entry is right at every moment
but for the files whose undo has failed, and the configuration is recorded after
`server.json` and the token, so undone before them - and `StageTrue`, what holds
at which write. While no setup is spoilt (`Sound`), a managed configuration is
there with `server.json` and a token that is not empty (`Usable`), and a token
is empty only in the hands of the attempt that has created it (`Filled`). The
settings of a manual configuration are in place or in the backup
(`HasSettings`), or nowhere and never come back (`NoSettings`); from the first to
the second leads only a rollback that could not write the configuration
(`Lost`). `UndoStep` is the lemma of the five steps of a rollback: it says what
an undo of a file, done or failed, has to leave.

`RolledBack` follows from `AttemptTrue` at the end of a rollback. `SetupIsAtomic`
maps the file system to `ManagedRepository` and shows every step to be a
promised one or a stutter; whoever changes the configuration while it is not
managed, or ends its being so, is a command whose journal knows it
(`ConfigMoves`), which is what `Open` says.

`MarkedComplete` needs to know who may still find the place of the skill folder
free. `Marks` says: commands that run have numbers of their own (`Numbered`, so
of two commands no third one begins), no journal holds a folder of the skill to
put back, and who is about to write the marker has a whole copy before it, or
the folder is gone and nobody else is where it could begin another (`Marking`).
A step is then judged by what it does to the folder (`Handles`): leaves it,
removes it on a way on which its command begins no copy any more, makes it
whole or takes a whole or a half one apart, or begins one where there was none.

### Service and selection

`Sound` says per command who is inside which lock (`Excluded`), that nothing
becomes unresolved while a command changes the service (`Quiet`), that the
service a command launched is the one on record (`Launched`), and, while nothing
was killed, that every service that may answer is on record and of the selection
once a run is announced (`Known`, `Pins`). `StopIdle` is `Quiet` at the stop of
`server stop` and of a switch;
`RunPinned` is `Pins` at the moment a service takes the run.

### Owned processes

`Emptied` speaks of answers; inductive is `EmptySeen`, which also covers a
caller that has seen the group empty and is about to reap. Two lemmas carry it:
an empty group stays empty, for only a running member forks (`EmptyStays`), and
whoever comes to have seen it empty is right at that moment (`SeenIsTrue`).
`StrangerSpared` needs `Unsignaled`: a stranger has the pid only after the
leader is gone, and a stop that began after that is still before its test of
the identity, which nothing matches any more, or over.

### Only model-checked

- Liveness and ENABLED, in every module: out of the prover's reach.
- `PlannerTextKept` of `HandoffDocument`: what the fingerprint leaves of a
  section is a fold over its lines, and that it tells the Planner's lines apart
  would have to be proved by induction over the text.

## 6. Plan

1. `ExecutionServer`, `WorkspaceReservation`, `OwnedProcess` and their proofs
   (done).
2. `HandoffWorkflow` with the legacy execute, `HandoffDocument`,
   `ServiceSelection`, `Installation`, `ManagedRepository` (done).
3. Theorems: types of every module, the safety of the planner, of installation
   and selection, turns on the workspace, outcomes with cancels, the document,
   and both refinements (done). Left is whether `OutcomesAgree` holds for two
   executions that may be canceled, among any number: it needs an invariant of
   the runtimes whose release has raised.
4. Then the move to another port and the watcher's claim (`service.py:237`),
   and the two-step removal of a lock directory (`workspace.py:374`).

## 7. Not modelled

Provider parsing, adapters, contracts, reports, planner pins and the entry
point keep no state; templates, skill text and live checks are no behaviour of
the program. Of modelled components the following is left out: Git snapshots
and evidence, HTTP and tokens on the wire, the registry's schema and claim
conflicts, rebaseline and parent links of workflows, `--port` and the watcher's
record, user-level skill locations, the legacy `watch` and `qa`, and the Branch
field and line endings of the document. In `HandoffWorkflow` and
`ServiceSelection` provider, branch and fingerprint checks are a refusal that
may happen at any time, which includes what they would say.
