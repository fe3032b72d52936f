-------------------------- MODULE HandoffWorkflow --------------------------
(***************************************************************************)
(* The planner side of an integrated repository: the `handoff' commands    *)
(* approve, execute, resume, status, cancel, qa and archive (integration.py *)
(* and workflow.py) with the files they share: HANDOFF.md, workflow.json,  *)
(* outstanding.json, the run records and submit.lock.                      *)
(*                                                                         *)
(* A command is a process of its own and may be killed.  Every file is     *)
(* written atomically, but a command works on the copies it loaded: a step *)
(* here is one read or one write of a shared file.  Only submission takes  *)
(* submit.lock; nothing else is locked.  The endpoint that executes a run  *)
(* (server.py) is reduced to what its Task tells a client.  The `legacy'   *)
(* execute of bin/handoff shares submit.lock and execute.lock with all of  *)
(* this when the transport of the repository was changed between commands. *)
(***************************************************************************)
EXTENDS Naturals, FiniteSets

CONSTANTS
  Process,       \* commands that may run at the same time
  Run,           \* execution ids
  Plan,          \* contents of Current Task
  NoProcess, NoRun, NoPlan,
  Blank,         \* an outstanding.json that names no execution
  Commands,      \* bound: the commands that are used
  MaxRounds,     \* workflow.max_rounds
  MaxWorkflows,  \* bound: workflows that can be approved
  MaxEdits,      \* bound: times the Planner rewrites HANDOFF.md
  MaxCrashes,    \* bound: commands that are killed
  MaxOutages     \* bound: times the endpoint is restarted

ASSUME WorkflowAssumption ==
  /\ NoProcess \notin Process /\ NoRun \notin Run /\ NoPlan \notin Plan
  /\ Blank \notin Run \cup {NoRun}
  /\ Process \cap (Run \cup {NoRun}) = {}  \* execute.lock tells them apart
  /\ Commands \subseteq {"approve", "execute", "watch", "resume", "status",
                         "cancel", "qa", "archive", "legacy"}
  /\ MaxRounds \in Nat \ {0}
  /\ MaxWorkflows \in Nat /\ MaxEdits \in Nat
  /\ MaxCrashes \in Nat /\ MaxOutages \in Nat

VARIABLES
  handoff,      \* HANDOFF.md: Status and plan
  workflow,     \* workflow.json, NoWorkflow when the file is missing
  outstanding,  \* the execution outstanding.json names, NoRun without file
  record,       \* run record of an execution: none, saved, acked (task_id)
  request,      \* the request the record keeps
  submitLock,   \* who made the submit.lock directory
  archive,      \* the plan of the last entry in HANDOFF-archive.md
  cli,          \* what each command is doing, with the copies it works on
  task,         \* Task state of an execution at the endpoint
  report,       \* the artifacts of that Task
  launched,     \* did the execution launch a worker?
  executeLock,  \* execute.lock: of an execution, or of a legacy command
  approvals, edits, crashes, outages   \* counters for the bounds

files == <<handoff, workflow, outstanding, record, request, archive>>
endpoint == <<task, report, launched, executeLock, outages>>
planner == <<workflow, outstanding, record, request, archive, submitLock, cli,
             approvals, edits, crashes>>
vars == <<files, submitLock, cli, endpoint, approvals, edits, crashes>>

-----------------------------------------------------------------------------

ELIGIBLE == {"READY FOR EXECUTION", "CHANGES REQUESTED"}
Statuses == ELIGIBLE \cup {"NO TASK", "DRAFT", "READY FOR QA", "APPROVED"}

Terminal == {"completed", "failed", "canceled", "rejected"}
Open == {"submitted", "working", "recovery"}
TaskStates == {"none"} \cup Open \cup Terminal
Outcomes == Terminal \cup {"recovery", "unresolved"}

Handoff == [status : Statuses, plan : Plan \cup {NoPlan}]

Workflow ==
  [id       : 0..MaxWorkflows,
   plan     : Plan \cup {NoPlan},           \* approved_plan_hash
   reserved : Run \cup {NoRun},             \* reserved_execution_id
   consumed : SUBSET (Run \cup {Blank}),    \* consumed_execution_ids
   hold     : BOOLEAN,                      \* dispatch_hold
   closed   : BOOLEAN,                      \* disposition
   last     : Outcomes \cup {"none"}]       \* last_outcome

NoWorkflow == [id |-> 0, plan |-> NoPlan, reserved |-> NoRun, consumed |-> {},
               hold |-> FALSE, closed |-> FALSE, last |-> "none"]

Request == [workflow : 0..MaxWorkflows, plan : Plan \cup {NoPlan},
            status : Statuses]
NoRequest == [workflow |-> 0, plan |-> NoPlan, status |-> "NO TASK"]

\* A Task carries the worker-lifecycle artifact of the start, the one of the
\* stop (both have the same name and the client reads the first it finds), and
\* the coding-result artifact.
Report == [started : BOOLEAN, stopped : BOOLEAN, result : BOOLEAN]
NoReport == [started |-> FALSE, stopped |-> FALSE, result |-> FALSE]

Answer == [state : TaskStates, report : Report, launched : BOOLEAN]
NoAnswer == [state |-> "none", report |-> NoReport, launched |-> FALSE]

\* Places of a submission that hold submit.lock, and all other places.
Submitting == {"check", "prepare", "unhold", "reserve", "announce", "unlock"}
\* Places of a legacy execute that hold submit.lock or execute.lock.
LegacySubmitting == {"recheck", "enter", "handback"}
LegacyExecuting == {"handback", "held", "read", "lift", "run"}
Places ==
  Submitting \cup LegacySubmitting \cup LegacyExecuting \cup {"legacy"} \cup
  {"idle", "gate", "adopt", "identify", "submit", "ack", "point", "wait",
   "load", "release", "consume", "reload", "hold", "reheld", "settle",
   "finish", "clear", "notice", "notify", "approve", "activate", "verdict",
   "close", "append", "remove"}

Command ==
  [pc      : Places,
   execute : BOOLEAN,                     \* an execute, not a later command
   watch   : BOOLEAN,                     \* started by handoff watch
   run     : Run \cup {NoRun},            \* the execution it talks about
   out     : Run \cup {NoRun, Blank},     \* its copy of outstanding.json
   wf      : Workflow,                    \* its copy of workflow.json
   doc     : Handoff,                     \* its copy of HANDOFF.md
   ans     : Answer,                      \* the Task it was given
   outcome : Outcomes]

NoDoc == [status |-> "NO TASK", plan |-> NoPlan]
Done == [pc |-> "idle", execute |-> FALSE, watch |-> FALSE, run |-> NoRun,
         out |-> NoRun, wf |-> NoWorkflow, doc |-> NoDoc, ans |-> NoAnswer,
         outcome |-> "unresolved"]

TypeOK ==
  /\ handoff \in Handoff /\ workflow \in Workflow
  /\ outstanding \in Run \cup {NoRun, Blank}
  /\ record \in [Run -> {"none", "saved", "acked"}]
  /\ request \in [Run -> Request]
  /\ submitLock \in Process \cup {NoProcess}
  /\ archive \in Plan \cup {NoPlan}
  /\ cli \in [Process -> Command]
  /\ task \in [Run -> TaskStates]
  /\ report \in [Run -> Report] /\ launched \in [Run -> BOOLEAN]
  /\ executeLock \in Run \cup {NoRun} \cup Process
  /\ approvals \in 0..MaxWorkflows /\ edits \in 0..MaxEdits
  /\ crashes \in 0..MaxCrashes /\ outages \in 0..MaxOutages

\* A repository after `handoff init': the Planner has drafted a first task.
Init ==
  /\ handoff \in [status : {"DRAFT"}, plan : Plan]
  /\ workflow = NoWorkflow
  /\ outstanding = NoRun
  /\ record = [r \in Run |-> "none"]
  /\ request = [r \in Run |-> NoRequest]
  /\ submitLock = NoProcess
  /\ archive = NoPlan
  /\ cli = [p \in Process |-> Done]
  /\ task = [r \in Run |-> "none"]
  /\ report = [r \in Run |-> NoReport]
  /\ launched = [r \in Run |-> FALSE]
  /\ executeLock = NoRun
  /\ approvals = 0 /\ edits = 0 /\ crashes = 0 /\ outages = 0

-----------------------------------------------------------------------------
(* Helpers.                                                                *)

At(p, place) == cli[p].pc = place
Goto(p, place) == cli' = [cli EXCEPT ![p].pc = place]
Ends(p) == cli' = [cli EXCEPT ![p] = Done]

\* rounds_available
rounds_available(w) ==
  MaxRounds - Cardinality(w.consumed) - (IF w.reserved # NoRun THEN 1 ELSE 0)
Available(w) == rounds_available(w) >= 1

\* exhausted
exhausted(w) == ~Available(w) /\ w.reserved = NoRun

\* require_workflow
Active(w) == w # NoWorkflow /\ ~w.closed

\* collect_preflight finds no blocker: eligible Status, approved plan, nothing
\* outstanding, a round left.  Branch, fingerprint and service are conditions
\* of the outside world; they may refuse at any time.
Ready ==
  /\ Active(workflow)
  /\ handoff.status \in ELIGIBLE
  /\ handoff.plan = workflow.plan
  /\ outstanding = NoRun
  /\ Available(workflow)

\* release_reservation and consume_round on a loaded workflow.
Unreserved(w, r) == [w EXCEPT !.reserved = IF @ = r THEN NoRun ELSE @]
\* Deviant: the reserved run is charged after its reservation was dropped.
ConsumedReserved(w, r) ==
  [Unreserved(w, r) EXCEPT !.consumed = @ \cup {Unreserved(w, r).reserved}]
Consumed(w, r) == [Unreserved(w, r) EXCEPT !.consumed = @ \cup {r}]

\* What a client that asks for the Task of r now is told.
TaskOf(r) == [state |-> task[r], report |-> report[r],
              launched |-> launched[r]]

\* What the first worker-lifecycle artifact says; a result says it too.
SaysStarted(ans) == ans.report.started \/ (ans.report.stopped /\ ans.launched)
SaysStopped(ans) == ans.report.stopped /\ ~ans.report.started

\* Deviant: the workspace is not looked at.
StopReported(ans) ==
  ans.state \in Terminal /\ (SaysStopped(ans) \/ ans.state = "rejected")

\* worker_stop_confirmed: a terminal Task whose lifecycle artifact says the
\* worker is stopped, a rejection, or no execute.lock in the workspace.
worker_stop_confirmed(ans) ==
  /\ ans.state \in Terminal
  /\ SaysStopped(ans) \/ ans.state = "rejected" \/ executeLock = NoRun

\* Deviant: a run that waits for recovery counts as failed.
RecoveryFails(ans) ==
  IF ans.state = "recovery" THEN "failed"
  ELSE IF worker_stop_confirmed(ans) THEN ans.state
  ELSE "unresolved"

\* The outcome _reconcile gives a Task.
OutcomeOf(ans) ==
  IF ans.state = "recovery" THEN "recovery"
  ELSE IF worker_stop_confirmed(ans) THEN ans.state
  ELSE "unresolved"

-----------------------------------------------------------------------------
(* approve                                                                 *)

\* The Planner rewrites Current Task, or drafts the next task.
PlannerWrites(plan) ==
  /\ edits < MaxEdits
  /\ outstanding = NoRun
  /\ handoff' = [status |-> "DRAFT", plan |-> plan]
  /\ edits' = edits + 1
  /\ UNCHANGED <<workflow, outstanding, record, request, archive, submitLock,
                 cli, endpoint, approvals, crashes>>

\* A closed workflow counts as none.
Existing == IF workflow.closed THEN NoWorkflow ELSE workflow

\* A changed plan keeps the workflow and its rounds.  Deviant: it does not.
Afresh(w) == [NoWorkflow EXCEPT !.id = w.id, !.plan = handoff.plan]
Reapproved(w) == [w EXCEPT !.plan = handoff.plan]

\* approve: the same plan changes nothing; a changed plan keeps the workflow
\* with its rounds and is refused while work is outstanding; else a new one.
Approve(p) ==
  /\ At(p, "idle")
  /\ handoff.status \in {"DRAFT", "READY FOR EXECUTION", "CHANGES REQUESTED"}
  /\ Existing.plan # handoff.plan
  /\ \/ /\ Existing # NoWorkflow /\ outstanding = NoRun
        /\ cli' = [cli EXCEPT ![p].pc = "approve",
                              ![p].wf = Reapproved(Existing)]
        /\ UNCHANGED approvals
     \/ /\ Existing = NoWorkflow
        /\ approvals < MaxWorkflows
        /\ approvals' = approvals + 1
        /\ cli' = [cli EXCEPT
             ![p].pc = "approve",
             ![p].wf = [NoWorkflow EXCEPT !.id = approvals + 1,
                                          !.plan = handoff.plan]]
  /\ UNCHANGED <<files, submitLock, endpoint, edits, crashes>>

ApproveSave(p) ==
  /\ At(p, "approve")
  /\ workflow' = cli[p].wf
  /\ Goto(p, "activate")
  /\ UNCHANGED <<handoff, outstanding, record, request, archive, submitLock,
                 endpoint, approvals, edits, crashes>>

\* _set_status
Activate(p) ==
  /\ At(p, "activate")
  /\ handoff' = [handoff EXCEPT !.status = "READY FOR EXECUTION"]
  /\ Ends(p)
  /\ UNCHANGED <<workflow, outstanding, record, request, archive, submitLock,
                 endpoint, approvals, edits, crashes>>

-----------------------------------------------------------------------------
(* execute: submission under submit.lock.                                  *)

\* Deviant: watch does not look at dispatch_hold.
WatchUnheld == outstanding = NoRun /\ handoff.status \in ELIGIBLE

\* What _watch_loop and cmd_execute_async(from_watch) ask before a dispatch.
WatchDispatches ==
  /\ outstanding = NoRun /\ handoff.status \in ELIGIBLE
  /\ ~workflow.hold /\ ~exhausted(workflow)

\* The command starts; dispatch_gate may take its time.
Execute(p, watch) ==
  /\ At(p, "idle")
  /\ watch => WatchDispatches
  /\ cli' = [cli EXCEPT ![p].pc = "gate", ![p].execute = TRUE,
                        ![p].watch = watch]
  /\ UNCHANGED <<files, submitLock, endpoint, approvals, edits, crashes>>

\* Deviant: a submit.lock somebody else holds does not matter.
TakeSubmitLockBlind(p) ==
  /\ At(p, "gate")
  /\ submitLock' = p /\ Goto(p, "check")
  /\ UNCHANGED <<files, endpoint, approvals, edits, crashes>>

\* submit.lock is taken, or the dispatch is deferred.
TakeSubmitLock(p) ==
  /\ At(p, "gate")
  /\ IF submitLock = NoProcess
     THEN submitLock' = p /\ Goto(p, "check")
     ELSE Ends(p) /\ UNCHANGED submitLock
  /\ UNCHANGED <<files, endpoint, approvals, edits, crashes>>

\* An error on the way: the except clause gives submit.lock back.
SubmissionRefused(p) ==
  /\ cli[p].pc \in {"check", "prepare"}
  /\ submitLock' = NoProcess
  /\ Ends(p)
  /\ UNCHANGED <<files, endpoint, approvals, edits, crashes>>

\* _prepare_request(check_only=True); then the endpoint and its card are
\* verified.  (Bound: an execution id must be left.)
CheckOnly(p) ==
  /\ At(p, "check") /\ Ready
  /\ \E r \in Run : record[r] = "none"
  /\ Goto(p, "prepare")
  /\ UNCHANGED <<files, submitLock, endpoint, approvals, edits, crashes>>

\* persist_run_record: the record of a new execution with its request.
PersistRecord(p, r, doc, wf, place) ==
  /\ record[r] = "none"
  /\ record' = [record EXCEPT ![r] = "saved"]
  /\ request' = [request EXCEPT ![r] = [workflow |-> wf.id, plan |-> doc.plan,
                                        status |-> doc.status]]
  /\ cli' = [cli EXCEPT ![p].pc = place, ![p].run = r, ![p].wf = wf,
                        ![p].doc = NoDoc]

\* _prepare_request reads everything again.  A dispatch hold is cleared first.
Prepare(p) ==
  /\ At(p, "prepare") /\ Ready
  /\ \/ /\ workflow.hold
        /\ cli' = [cli EXCEPT ![p].pc = "unhold", ![p].wf = workflow,
                              ![p].doc = handoff]
        /\ UNCHANGED <<record, request>>
     \/ /\ ~workflow.hold
        /\ \E r \in Run : PersistRecord(p, r, handoff, workflow, "reserve")
  /\ UNCHANGED <<handoff, workflow, outstanding, archive, submitLock, endpoint,
                 approvals, edits, crashes>>

\* set_dispatch_hold(False), and the record.
ClearHold(p) ==
  /\ At(p, "unhold")
  /\ workflow' = [cli[p].wf EXCEPT !.hold = FALSE]
  /\ \E r \in Run : PersistRecord(p, r, cli[p].doc, workflow', "reserve")
  /\ UNCHANGED <<handoff, outstanding, archive, submitLock, endpoint,
                 approvals, edits, crashes>>

\* Deviant: the reservation is not saved.
ReserveRoundUnsaved(p) ==
  /\ At(p, "reserve")
  /\ IF cli[p].wf.reserved = NoRun /\ Available(cli[p].wf)
     THEN Goto(p, "announce") /\ UNCHANGED submitLock
     ELSE submitLock' = NoProcess /\ Ends(p)
  /\ UNCHANGED <<files, endpoint, approvals, edits, crashes>>

\* reserve_round, on the workflow loaded by Prepare.
ReserveRound(p) ==
  /\ At(p, "reserve")
  /\ IF cli[p].wf.reserved = NoRun /\ Available(cli[p].wf)
     THEN /\ workflow' = [cli[p].wf EXCEPT !.reserved = cli[p].run]
          /\ cli' = [cli EXCEPT ![p].pc = "announce", ![p].wf = NoWorkflow]
          /\ UNCHANGED submitLock
     ELSE submitLock' = NoProcess /\ Ends(p) /\ UNCHANGED workflow
  /\ UNCHANGED <<handoff, outstanding, record, request, archive, endpoint,
                 approvals, edits, crashes>>

\* save_outstanding
Announce(p) ==
  /\ At(p, "announce")
  /\ outstanding' = cli[p].run
  /\ Goto(p, "unlock")
  /\ UNCHANGED <<handoff, workflow, record, request, archive, submitLock,
                 endpoint, approvals, edits, crashes>>

ReleaseSubmitLock(p) ==
  /\ At(p, "unlock")
  /\ submitLock' = NoProcess
  /\ Goto(p, "adopt")
  /\ UNCHANGED <<files, endpoint, approvals, edits, crashes>>

-----------------------------------------------------------------------------
(* execute: outside the lock.                                              *)

\* load_outstanding(repo) or {}
Adopt(p) ==
  /\ At(p, "adopt")
  /\ cli' = [cli EXCEPT ![p].pc = "identify",
                        ![p].out = IF outstanding = NoRun THEN Blank
                                   ELSE outstanding]
  /\ UNCHANGED <<files, submitLock, endpoint, approvals, edits, crashes>>

\* The executor's identity, and after the answer its task id, are added to
\* the copy, and the copy is saved.
SaveOutstanding(p) ==
  /\ cli[p].pc \in {"identify", "point"}
  /\ outstanding' = cli[p].out
  /\ Goto(p, IF At(p, "identify") THEN "submit" ELSE "wait")
  /\ UNCHANGED <<handoff, workflow, record, request, archive, submitLock,
                 endpoint, approvals, edits, crashes>>

\* SendMessage: the endpoint claims an execution id once.  The request or its
\* answer may be lost; then the command fails and leaves everything as it is.
Submit(p) ==
  /\ At(p, "submit")
  /\ \/ /\ task' = [task EXCEPT ![cli[p].run] =
                      IF @ = "none" THEN "submitted" ELSE @]
        /\ Goto(p, "ack") \/ Ends(p)
     \/ UNCHANGED task /\ Ends(p)
  /\ UNCHANGED <<files, submitLock, report, launched, executeLock, outages,
                 approvals, edits, crashes>>

\* The task id goes into the run record.
Ack(p) ==
  /\ At(p, "ack")
  /\ record' = [record EXCEPT ![cli[p].run] = "acked"]
  /\ Goto(p, IF cli[p].execute THEN "point" ELSE "wait")
  /\ UNCHANGED <<handoff, workflow, outstanding, request, archive, submitLock,
                 endpoint, approvals, edits, crashes>>

\* CodingClient.wait: a terminal or interrupted Task ends it; so does its
\* timeout, which reports the run unresolved and changes nothing.
Wait(p) ==
  /\ At(p, "wait")
  /\ \/ /\ task[cli[p].run] \in Terminal \cup {"recovery"}
        /\ cli' = [cli EXCEPT ![p].pc = "load", ![p].ans = TaskOf(cli[p].run)]
     \/ Ends(p)
  /\ UNCHANGED <<files, submitLock, endpoint, approvals, edits, crashes>>

-----------------------------------------------------------------------------
(* resume, status and cancel start from the outstanding run they load.     *)

Loaded(p) == [cli[p] EXCEPT !.run = outstanding, !.out = outstanding]

\* resume_from_record: get and wait; without a task id the saved request is
\* retransmitted, which watch leaves to the user.
Resume(p, watch) ==
  /\ At(p, "idle") /\ outstanding \in Run
  /\ watch => record[outstanding] = "acked"
  /\ cli' = [cli EXCEPT ![p] =
       [Loaded(p) EXCEPT !.watch = watch,
          !.pc = IF record[outstanding] = "acked" THEN "wait" ELSE "submit"]]
  /\ UNCHANGED <<files, submitLock, endpoint, approvals, edits, crashes>>

\* status_from_record: only a terminal Task is reconciled.
CheckStatus(p, watch) ==
  /\ At(p, "idle") /\ outstanding \in Run
  /\ record[outstanding] = "acked" /\ task[outstanding] \in Terminal
  /\ cli' = [cli EXCEPT ![p] =
       [Loaded(p) EXCEPT !.pc = "load", !.watch = watch,
                         !.ans = TaskOf(outstanding)]]
  /\ UNCHANGED <<files, submitLock, endpoint, approvals, edits, crashes>>

\* cancel_from_record: the endpoint stops the run or cannot confirm it.  After a
\* restart it has no runtime for the run and reports no stop.  A terminal Task
\* is refused and a lost answer leaves the run unresolved.
CancelRun(p) ==
  /\ At(p, "idle") /\ outstanding \in Run
  /\ record[outstanding] = "acked" /\ task[outstanding] \in Open
  /\ \/ /\ task[outstanding] \in {"submitted", "working"}
        /\ task' = [task EXCEPT ![outstanding] = "canceled"]
        /\ report' = [report EXCEPT ![outstanding].stopped = TRUE]
     \/ /\ task[outstanding] = "recovery"
        /\ \E state \in {"canceled", "failed"} :
              task' = [task EXCEPT ![outstanding] = state]
        /\ UNCHANGED report
     \/ /\ launched[outstanding]
        /\ task' = [task EXCEPT ![outstanding] = "recovery"]
        /\ UNCHANGED report
  /\ cli' \in {cli,
       [cli EXCEPT ![p] =
          [Loaded(p) EXCEPT
             !.pc = "load",
             !.ans = [state |-> task'[outstanding],
                      report |-> report'[outstanding],
                      launched |-> launched[outstanding]]]]}
  /\ UNCHANGED <<files, submitLock, launched, executeLock, outages, approvals,
                 edits, crashes>>

-----------------------------------------------------------------------------
(* _reconcile                                                              *)

\* load_workflow, and the outcome.  execute looks at outstanding.json again.
Load(p) ==
  /\ At(p, "load")
  /\ LET ans == cli[p].ans
         outcome == OutcomeOf(ans)
         out == IF cli[p].execute /\ outstanding # NoRun THEN outstanding
                ELSE cli[p].out
         next == IF outcome = "rejected" THEN "release"
                 ELSE IF SaysStarted(ans) \/ outcome \in Terminal THEN "consume"
                 ELSE IF outcome = "recovery" THEN "hold"
                 ELSE "idle"
     IN cli' = [cli EXCEPT ![p] =
                  IF next = "idle" THEN Done
                  ELSE [@ EXCEPT !.pc = next, !.wf = workflow, !.out = out,
                                 !.outcome = outcome]]
  /\ UNCHANGED <<files, submitLock, endpoint, approvals, edits, crashes>>

\* release_reservation, for a rejected run.
ReleaseReservation(p) ==
  /\ At(p, "release")
  /\ workflow' = IF cli[p].wf.reserved = cli[p].out
                 THEN Unreserved(cli[p].wf, cli[p].out) ELSE workflow
  /\ Goto(p, "clear")
  /\ UNCHANGED <<handoff, outstanding, record, request, archive, submitLock,
                 endpoint, approvals, edits, crashes>>

\* consume_round
ConsumeRound(p) ==
  /\ At(p, "consume")
  /\ workflow' = Consumed(cli[p].wf, cli[p].out)
  /\ cli' = [cli EXCEPT ![p].pc = "reload", ![p].wf = workflow']
  /\ UNCHANGED <<handoff, outstanding, record, request, archive, submitLock,
                 endpoint, approvals, edits, crashes>>

\* `load_workflow(repo) or workflow', after each save.
Reload(p) ==
  /\ cli[p].pc \in {"reload", "reheld"}
  /\ cli' = [cli EXCEPT
       ![p].wf = IF workflow = NoWorkflow THEN @ ELSE workflow,
       ![p].pc = IF At(p, "reload")
                    /\ cli[p].outcome \in {"failed", "canceled", "recovery"}
                 THEN "hold" ELSE "settle"]
  /\ UNCHANGED <<files, submitLock, endpoint, approvals, edits, crashes>>

\* set_dispatch_hold(True)
SetHold(p) ==
  /\ At(p, "hold")
  /\ workflow' = [cli[p].wf EXCEPT !.hold = TRUE]
  /\ IF cli[p].outcome = "recovery" THEN Ends(p) ELSE Goto(p, "reheld")
  /\ UNCHANGED <<handoff, outstanding, record, request, archive, submitLock,
                 endpoint, approvals, edits, crashes>>

\* Deviant: the Status a failed worker wrote stays.
StatusLeft(r) == handoff.status

\* _restore_submitted_status; a run without a record restores nothing.
SubmittedStatus(r) == IF r \in Run THEN request[r].status ELSE handoff.status

\* A completed result of this very run moves HANDOFF.md to READY FOR QA; a
\* failed or canceled one restores the Status of the request.
Settle(p) ==
  /\ At(p, "settle")
  /\ \/ /\ cli[p].outcome = "completed"
        /\ cli[p].ans.report.result /\ cli[p].out = cli[p].run
        /\ handoff' = [handoff EXCEPT !.status = "READY FOR QA"]
        /\ Goto(p, "finish")
     \/ /\ cli[p].outcome = "completed"
        /\ ~(cli[p].ans.report.result /\ cli[p].out = cli[p].run)
        /\ UNCHANGED handoff
        /\ Ends(p)
     \/ /\ cli[p].outcome \in {"failed", "canceled"}
        /\ handoff' = [handoff EXCEPT !.status = SubmittedStatus(cli[p].out)]
        /\ Goto(p, "finish")
     \/ /\ cli[p].outcome = "unresolved"
        /\ UNCHANGED handoff
        /\ Ends(p)
  /\ UNCHANGED <<workflow, outstanding, record, request, archive, submitLock,
                 endpoint, approvals, edits, crashes>>

\* last_outcome and the new baseline are saved.
Finish(p) ==
  /\ At(p, "finish")
  /\ workflow' = [cli[p].wf EXCEPT !.last = cli[p].outcome]
  /\ Goto(p, "clear")
  /\ UNCHANGED <<handoff, outstanding, record, request, archive, submitLock,
                 endpoint, approvals, edits, crashes>>

\* clear_outstanding, whatever run the file names now.
ClearOutstanding(p) ==
  /\ At(p, "clear")
  /\ outstanding' = NoRun
  /\ IF cli[p].watch /\ ~cli[p].execute
     THEN cli' = [cli EXCEPT ![p] = [Done EXCEPT !.pc = "notice"]]
     ELSE Ends(p)
  /\ UNCHANGED <<handoff, workflow, record, request, archive, submitLock,
                 endpoint, approvals, edits, crashes>>

\* _watch_loop, after its status and resume, announces the delivery and saves
\* the workflow it has loaded with last_notified_execution_id.
Notice(p) ==
  /\ At(p, "notice")
  /\ IF outstanding = NoRun /\ handoff.status = "READY FOR QA"
     THEN cli' = [cli EXCEPT ![p].pc = "notify", ![p].wf = workflow]
     ELSE Ends(p)
  /\ UNCHANGED <<files, submitLock, endpoint, approvals, edits, crashes>>

Notify(p) ==
  /\ At(p, "notify")
  /\ workflow' = cli[p].wf
  /\ Ends(p)
  /\ UNCHANGED <<handoff, outstanding, record, request, archive, submitLock,
                 endpoint, approvals, edits, crashes>>

-----------------------------------------------------------------------------
(* qa and archive.                                                         *)

\* cmd_qa: only without outstanding work, on the approved plan; the verdict is
\* written into the copy it has read.  --append on a verdict keeps Status.
QA(p, verdict) ==
  /\ At(p, "idle") /\ outstanding = NoRun
  /\ workflow # NoWorkflow => workflow.plan = handoff.plan
  /\ \/ handoff.status = "READY FOR QA"
     \/ handoff.status \in {"APPROVED", "CHANGES REQUESTED"}
        /\ verdict = handoff.status
  /\ cli' = [cli EXCEPT ![p].pc = "verdict",
                        ![p].doc = [handoff EXCEPT !.status = verdict]]
  /\ UNCHANGED <<files, submitLock, endpoint, approvals, edits, crashes>>

WriteVerdict(p) ==
  /\ At(p, "verdict")
  /\ handoff' = cli[p].doc
  /\ Ends(p)
  /\ UNCHANGED <<workflow, outstanding, record, request, archive, submitLock,
                 endpoint, approvals, edits, crashes>>

\* archive_current: approved work, or with --superseded an exhausted budget;
\* never an entry twice in a row.
Archive(p, superseded) ==
  /\ At(p, "idle") /\ outstanding = NoRun
  /\ workflow # NoWorkflow => workflow.plan = handoff.plan
  /\ archive # handoff.plan
  /\ IF superseded
     THEN /\ workflow # NoWorkflow
          /\ Cardinality(workflow.consumed) >= MaxRounds
          /\ workflow.reserved = NoRun
     ELSE handoff.status = "APPROVED"
  /\ cli' = [cli EXCEPT
       ![p].pc = IF workflow = NoWorkflow THEN "append" ELSE "close",
       ![p].wf = [workflow EXCEPT !.closed = workflow # NoWorkflow],
       ![p].doc = handoff]
  /\ UNCHANGED <<files, submitLock, endpoint, approvals, edits, crashes>>

\* The disposition is saved first,
CloseWorkflow(p) ==
  /\ At(p, "close")
  /\ workflow' = cli[p].wf
  /\ Goto(p, "append")
  /\ UNCHANGED <<handoff, outstanding, record, request, archive, submitLock,
                 endpoint, approvals, edits, crashes>>

\* then the task is appended to HANDOFF-archive.md,
AppendArchive(p) ==
  /\ At(p, "append")
  /\ archive' = cli[p].doc.plan
  /\ Goto(p, "remove")
  /\ UNCHANGED <<handoff, workflow, outstanding, record, request, submitLock,
                 endpoint, approvals, edits, crashes>>

\* and workflow.json is removed.
RemoveWorkflow(p) ==
  /\ At(p, "remove")
  /\ workflow' = NoWorkflow
  /\ Ends(p)
  /\ UNCHANGED <<handoff, outstanding, record, request, archive, submitLock,
                 endpoint, approvals, edits, crashes>>

-----------------------------------------------------------------------------
(* execute of a repository whose transport is not A2A (bin/handoff).       *)

\* refuse_if_outstanding and the test of Status, before any lock.
LegacyExecute(p) ==
  /\ At(p, "idle")
  /\ outstanding = NoRun /\ handoff.status \in ELIGIBLE
  /\ Goto(p, "legacy")
  /\ UNCHANGED <<files, submitLock, endpoint, approvals, edits, crashes>>

LegacyTakeSubmit(p) ==
  /\ At(p, "legacy")
  /\ IF submitLock = NoProcess
     THEN submitLock' = p /\ Goto(p, "recheck")
     ELSE Ends(p) /\ UNCHANGED submitLock
  /\ UNCHANGED <<files, endpoint, approvals, edits, crashes>>

\* outstanding.json again, now under submit.lock.
LegacyRecheck(p) ==
  /\ At(p, "recheck")
  /\ IF outstanding = NoRun
     THEN Goto(p, "enter") /\ UNCHANGED submitLock
     ELSE submitLock' = NoProcess /\ Ends(p)
  /\ UNCHANGED <<files, endpoint, approvals, edits, crashes>>

\* Deviant: an execute.lock that exists will do.
LegacyTakeExecuteBlind(p) ==
  /\ At(p, "enter")
  /\ executeLock' = p /\ Goto(p, "handback")
  /\ UNCHANGED <<files, submitLock, task, report, launched, outages,
                 approvals, edits, crashes>>

LegacyTakeExecute(p) ==
  /\ At(p, "enter")
  /\ IF executeLock = NoRun
     THEN executeLock' = p /\ Goto(p, "handback") /\ UNCHANGED submitLock
     ELSE submitLock' = NoProcess /\ Ends(p) /\ UNCHANGED executeLock
  /\ UNCHANGED <<files, task, report, launched, outages, approvals, edits,
                 crashes>>

LegacyGiveSubmit(p) ==
  /\ At(p, "handback")
  /\ submitLock' = NoProcess
  /\ Goto(p, "held")
  /\ UNCHANGED <<files, endpoint, approvals, edits, crashes>>

\* a2a_dispatch_held; clear_a2a_dispatch_hold reads workflow.json once more and
\* renames its changed copy over it, without submit.lock.
LegacyHeld(p) ==
  /\ At(p, "held")
  /\ Goto(p, IF workflow.hold /\ ~workflow.closed THEN "read" ELSE "run")
  /\ UNCHANGED <<files, submitLock, endpoint, approvals, edits, crashes>>

LegacyReadWorkflow(p) ==
  /\ At(p, "read")
  /\ cli' = [cli EXCEPT ![p].pc = IF workflow = NoWorkflow THEN "run" ELSE "lift",
                        ![p].wf = [workflow EXCEPT !.hold = FALSE]]
  /\ UNCHANGED <<files, submitLock, endpoint, approvals, edits, crashes>>

LegacyLiftHold(p) ==
  /\ At(p, "lift")
  /\ workflow' = cli[p].wf
  /\ cli' = [cli EXCEPT ![p].pc = "run", ![p].wf = NoWorkflow]
  /\ UNCHANGED <<handoff, outstanding, record, request, archive, submitLock,
                 endpoint, approvals, edits, crashes>>

\* The executor edits HANDOFF.md; nothing evaluates what it delivers.
LegacyWrites(p) ==
  /\ At(p, "run")
  /\ handoff' = [handoff EXCEPT !.status = "READY FOR QA"]
  /\ UNCHANGED <<planner, task, report, launched, executeLock, outages>>

\* _handoff_release_execute: rmdir spares the directory of an execution, which
\* has an owner.json in it.
LegacyExit(p) ==
  /\ At(p, "run")
  /\ executeLock' = IF executeLock = p THEN NoRun ELSE executeLock
  /\ Ends(p)
  /\ UNCHANGED <<files, submitLock, task, report, launched, outages, approvals,
                 edits, crashes>>

-----------------------------------------------------------------------------
(* Crashes.                                                                *)

\* A command is interrupted (it gives submit.lock back; a legacy execute gives
\* back execute.lock, and only when it has set its traps) or killed.
Kill(p) ==
  /\ crashes < MaxCrashes /\ ~At(p, "idle")
  /\ crashes' = crashes + 1
  /\ Ends(p)
  /\ submitLock' \in {submitLock, IF cli[p].pc \in Submitting THEN NoProcess
                                  ELSE submitLock}
  /\ executeLock' \in {executeLock,
                       IF cli[p].pc \in LegacyExecuting \ LegacySubmitting
                       THEN NoRun ELSE executeLock}
  /\ UNCHANGED <<files, task, report, launched, outages, approvals, edits>>

\* No code removes a lock directory it did not make: a human does, who has seen
\* that the command that made it, and its executor, are gone.
RemoveStaleLock ==
  /\ \/ /\ submitLock # NoProcess
        /\ cli[submitLock].pc \notin Submitting \cup LegacySubmitting
        /\ submitLock' = NoProcess /\ UNCHANGED executeLock
     \/ /\ executeLock \in Process
        /\ cli[executeLock].pc \notin LegacyExecuting
        /\ executeLock' = NoRun /\ UNCHANGED submitLock
  /\ UNCHANGED <<files, cli, task, report, launched, outages, approvals, edits,
                 crashes>>

-----------------------------------------------------------------------------
(* The endpoint, as far as a client can tell: what server.py does in the   *)
(* order in which it does it.                                              *)

\* The execution takes execute.lock and validates its request: HANDOFF.md must
\* still be the snapshot that was sent.
Begin(r) ==
  /\ task[r] = "submitted" /\ executeLock = NoRun
  /\ handoff = [status |-> request[r].status, plan |-> request[r].plan]
  /\ task' = [task EXCEPT ![r] = "working"]
  /\ executeLock' = r
  /\ UNCHANGED <<planner, handoff, report, launched, outages>>

\* A busy workspace or a request that does not fit is rejected.
Reject(r) ==
  /\ task[r] = "submitted"
  /\ task' = [task EXCEPT ![r] = "rejected"]
  /\ UNCHANGED <<planner, handoff, report, launched, executeLock, outages>>

\* The worker process starts, or cannot be started.
Launch(r) ==
  /\ task[r] = "working" /\ ~launched[r]
  /\ \/ launched' = [launched EXCEPT ![r] = TRUE] /\ UNCHANGED task
     \/ task' = [task EXCEPT ![r] = "failed"] /\ UNCHANGED launched
  /\ UNCHANGED <<planner, handoff, report, executeLock, outages>>

\* The first worker-lifecycle artifact: worker_started.
ReportStart(r) ==
  /\ task[r] = "working" /\ launched[r]
  /\ report' = [report EXCEPT ![r].started = TRUE]
  /\ ~report[r].started
  /\ UNCHANGED <<planner, handoff, task, launched, executeLock, outages>>

\* The worker delivers: it sets Status, and must not set APPROVED.
WorkerWrites(r) ==
  /\ task[r] = "working" /\ launched[r]
  /\ \E status \in {"READY FOR QA", "APPROVED"} :
       handoff' = [handoff EXCEPT !.status = status]
  /\ UNCHANGED <<planner, task, report, launched, executeLock, outages>>

Delivered(r) ==
  handoff.status = "READY FOR QA" /\ handoff.plan = request[r].plan

\* The worker is gone and its delivery is judged, or the deadline stops it: that
\* failure carries no result.
FinishRun(r) ==
  /\ task[r] = "working" /\ report[r].started
  /\ \E state \in {"completed", "failed"}, result \in BOOLEAN :
       /\ state = "completed" => Delivered(r) /\ result
       /\ task' = [task EXCEPT ![r] = state]
       /\ report' = [report EXCEPT ![r].stopped = TRUE, ![r].result = result]
  /\ UNCHANGED <<planner, handoff, launched, executeLock, outages>>

\* execute.lock goes only after the terminal Task can be seen.
Unlock(r) ==
  /\ executeLock = r /\ task[r] \in Terminal
  /\ executeLock' = NoRun
  /\ UNCHANGED <<planner, handoff, task, report, launched, outages>>

\* A restart fails an unfinished execution and gives its lock back, keeps it for
\* recovery, or heals a Task whose end had not been stored: without the
\* artifacts the end would have carried, and without touching execute.lock.
Restart(r) ==
  /\ outages < MaxOutages /\ task[r] \in Open
  /\ outages' = outages + 1
  /\ \/ /\ task' = [task EXCEPT ![r] = "failed"]
        /\ executeLock' = IF executeLock = r THEN NoRun ELSE executeLock
     \/ /\ task[r] # "submitted"
        /\ task' = [task EXCEPT ![r] = "recovery"]
        /\ UNCHANGED executeLock
     \/ /\ task[r] = "working" /\ report[r].started
        /\ \E state \in {"completed", "failed", "canceled"} :
             /\ state = "completed" => Delivered(r)
             /\ task' = [task EXCEPT ![r] = state]
        /\ UNCHANGED executeLock
  /\ UNCHANGED <<planner, handoff, report, launched>>

-----------------------------------------------------------------------------

\* What a command does once it has started.
Step(p) ==
  \/ ApproveSave(p) \/ Activate(p)
  \/ TakeSubmitLock(p) \/ CheckOnly(p) \/ Prepare(p) \/ ClearHold(p)
  \/ ReserveRound(p) \/ Announce(p) \/ ReleaseSubmitLock(p)
  \/ Adopt(p) \/ SaveOutstanding(p) \/ Submit(p) \/ Ack(p) \/ Wait(p)
  \/ Load(p) \/ ReleaseReservation(p) \/ ConsumeRound(p) \/ Reload(p)
  \/ SetHold(p) \/ Settle(p) \/ Finish(p) \/ ClearOutstanding(p)
  \/ Notice(p) \/ Notify(p)
  \/ WriteVerdict(p) \/ CloseWorkflow(p) \/ AppendArchive(p)
  \/ RemoveWorkflow(p)
  \/ LegacyTakeSubmit(p) \/ LegacyRecheck(p) \/ LegacyTakeExecute(p)
  \/ LegacyGiveSubmit(p) \/ LegacyHeld(p) \/ LegacyReadWorkflow(p)
  \/ LegacyLiftHold(p) \/ LegacyExit(p)

\* What may start on an idle process.
Start(p) ==
  \/ "approve" \in Commands /\ Approve(p)
  \/ "execute" \in Commands /\ Execute(p, FALSE)
  \/ "watch" \in Commands
     /\ (Execute(p, TRUE) \/ CheckStatus(p, TRUE) \/ Resume(p, TRUE))
  \/ "resume" \in Commands /\ Resume(p, FALSE)
  \/ "status" \in Commands /\ CheckStatus(p, FALSE)
  \/ "cancel" \in Commands /\ CancelRun(p)
  \/ "qa" \in Commands
     /\ \E verdict \in {"APPROVED", "CHANGES REQUESTED"} : QA(p, verdict)
  \/ "archive" \in Commands
     /\ \E superseded \in BOOLEAN : Archive(p, superseded)
  \/ "legacy" \in Commands /\ LegacyExecute(p)

Progress(r) == Begin(r) \/ Reject(r) \/ Launch(r) \/ ReportStart(r)
               \/ FinishRun(r) \/ Unlock(r)

Next ==
  \/ \E p \in Process : \/ Start(p) \/ Step(p) \/ SubmissionRefused(p)
                        \/ LegacyWrites(p) \/ Kill(p)
  \/ \E r \in Run : Progress(r) \/ WorkerWrites(r) \/ Restart(r)
  \/ \E plan \in Plan : PlannerWrites(plan)
  \/ RemoveStaleLock

Spec == Init /\ [][Next]_vars

\* A started command goes on; handoff watch polls for ever, so it resumes an
\* acknowledged run again and again, and a resume that finds an ended Task does
\* not time out every time.  Nothing is assumed of the endpoint.
Answered(p) == At(p, "wait") /\ cli[p].watch /\ ~cli[p].execute
               /\ Wait(p) /\ cli'[p].pc = "load"
Fairness ==
  \A p \in Process :
    /\ WF_vars(Step(p) \/ SubmissionRefused(p))
    /\ SF_vars(Resume(p, TRUE)) /\ SF_vars(Answered(p))
FairSpec == Spec /\ Fairness

-----------------------------------------------------------------------------
(* Properties.                                                             *)

\* An execution the endpoint knows and outstanding.json does not name is over:
\* terminal and, unless it was rejected, charged to its workflow.  So no crash
\* makes the planner lose a run, and no two runs of a repository are open at
\* once.  (outstanding.json is written before the request is sent and removed
\* last by _reconcile.)
NothingForgotten ==
  \A r \in Run :
    task[r] # "none" /\ outstanding # r =>
      /\ task[r] \in Terminal
      /\ \/ task[r] = "rejected"
         \/ request[r].workflow # workflow.id
         \/ r \in workflow.consumed

\* A Task that is open is the one outstanding.json names: of two sessions that
\* submit at once, through kills and lost answers, only one gets a run to the
\* endpoint before the other sees it (submit.lock, and the pointer saved under
\* it before the request is sent).
OpenIsOutstanding ==
  \A r \in Run :
    task[r] # "none" /\ outstanding # r => task[r] \in Terminal

\* A workflow never has more workers started than its budget of rounds, through
\* crashes, retransmissions and renewed approvals.
BudgetKept ==
  \A id \in 1..MaxWorkflows :
    Cardinality({r \in Run : launched[r] /\ request[r].workflow = id})
      <= MaxRounds

\* The run outstanding.json names is the one its workflow keeps a round for, or
\* has charged, or gave back because it was rejected: the two files agree at
\* every point where a crash or the next command may look.  (One command at a
\* time: beside an approve, see RoundKept.)
PointerReserved ==
  \A r \in Run :
    outstanding = r /\ request[r].workflow = workflow.id =>
      workflow.reserved = r \/ r \in workflow.consumed \/ task[r] = "rejected"

\* The round reserved for a run that outstanding.json names, or is about to, is
\* charged, or given back because the run was rejected; no other submission,
\* however it interleaves, takes it away.  Only an approve may: it saves the
\* copy it has loaded, without submit.lock, over a round reserved since
\* (workflow.py:128-151).
RoundKept ==
  [][\A r \in Run :
       /\ workflow.reserved = r
       /\ \/ outstanding = r
          \/ \E p \in Process : At(p, "announce") /\ cli[p].run = r
       =>
         \/ workflow'.reserved = r \/ r \in workflow'.consumed
         \/ task[r] = "rejected"
         \/ \E p \in Process : At(p, "approve") /\ workflow' = cli[p].wf]_vars

\* With nothing outstanding, Status READY FOR QA on an active workflow means
\* that its last reconciled run completed: what a failed, canceled or lost
\* worker wrote never reaches QA.  (Of the A2A commands: the executor of a legacy
\* execute sets READY FOR QA itself.)
QAOnlyCompleted ==
  outstanding = NoRun /\ handoff.status = "READY FOR QA" /\ Active(workflow) =>
    workflow.last = "completed"

\* A dispatch hold is lifted only by an explicit execute that has passed the
\* preflight, never by watch or by another command's save.  (Of the A2A
\* commands: a legacy execute lifts it too.)
HoldKept ==
  [][workflow.hold /\ workflow'.id = workflow.id /\ ~workflow'.hold =>
       \E p \in Process : At(p, "unhold") /\ ~cli[p].watch]_vars

\* An acknowledged run whose Task has ended leaves outstanding.json under watch,
\* through kills of commands and a restart of the endpoint: unless execute.lock
\* stays for ever, as it may after a cancel (server.py:1080), or the Task was
\* healed to COMPLETED, which leaves it without a result (server.py:652).
OutstandingResolves ==
  \/ <>[](executeLock # NoRun)
  \/ \A r \in Run :
       outstanding = r /\ record[r] = "acked" /\ task[r] \in Terminal ~>
         outstanding # r \/ (task[r] = "completed" /\ ~report[r].result)

\* At most one executor works in the repository: the worker of an execution or
\* the executor of a legacy command, whatever the two submissions, kills and
\* restarts in between.  The two programs share nothing but the directories
\* submit.lock and execute.lock and the file outstanding.json.
OneExecutor ==
  Cardinality({r \in Run : launched[r] /\ task[r] \in Open}
              \cup {p \in Process : At(p, "run")}) <= 1

-----------------------------------------------------------------------------
(* What the documents say, and the code does not do.                       *)

\* "Reconciliation clears the outstanding record only after terminal worker
\* state" (docs/status/implementation-plan.md).
ClearedWhenOver ==
  [][\A r \in Run : outstanding = r /\ outstanding' = NoRun =>
       task[r] \in Terminal]_vars

=============================================================================
