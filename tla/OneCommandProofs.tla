-------------------------- MODULE OneCommandProofs --------------------------
(***************************************************************************)
(* Theorems about HandoffWorkflow when one planner command runs at a time, *)
(* for every number of executions, plans, rounds and approvals, whatever   *)
(* command is killed where, and however often the endpoint is restarted:   *)
(* the files agree with each other and with the Tasks.  With two commands  *)
(* at once they need not: commands other than a submission take no lock.   *)
(***************************************************************************)
EXTENDS HandoffWorkflowProofs

\* The hypothesis of every theorem of this module.
OneCommand == \A p, q \in Process : p = q

-----------------------------------------------------------------------------
(* The inductive invariant: what the files say, and what the copies a       *)
(* command works on are worth at each place of its code.                   *)

\* An execution that is recorded and has not been sent.
Unsent(r) ==
  /\ r \in Run /\ record[r] = "saved" /\ task[r] = "none"
  /\ request[r].workflow = workflow.id

\* What a Task that has been read still says: an end is final, and a run that
\* waited for recovery was started.
StillTrue(ans, r) ==
  /\ ans.state \in Terminal \cup {"recovery"}
  /\ ans.state \in Terminal => task[r] = ans.state
  /\ ans.state = "recovery" => task[r] \notin {"none", "submitted", "rejected"}

\* The files agree with each other and with the Tasks.
FilesAgree ==
  /\ outstanding # Blank
  /\ workflow = NoWorkflow \/ workflow.id \in 1..approvals
  /\ \A r \in Run :
       /\ request[r].workflow \in 0..approvals
       /\ record[r] # "none" => /\ request[r].workflow # 0
                                /\ request[r].status \in ELIGIBLE
       /\ task[r] # "none" => record[r] # "none"
       /\ launched[r] => task[r] \notin {"none", "submitted", "rejected"}
       /\ outstanding = r =>
            /\ record[r] # "none" /\ Active(workflow)
            /\ request[r].workflow = workflow.id
            /\ \/ workflow.reserved = r \/ r \in workflow.consumed
               \/ task[r] = "rejected"

\* What the copies of a command are worth at each place.
DispatchTrue(c) ==
  /\ c.pc \in {"gate", "check", "prepare"} => (c.watch => ~workflow.hold)
  /\ c.pc \in {"unhold", "reserve", "announce"} =>
       outstanding = NoRun /\ Active(workflow)
  /\ c.pc \in {"unhold", "reserve"} => c.wf = workflow
  /\ c.pc = "unhold" => ~c.watch /\ c.doc.status \in ELIGIBLE
  /\ c.pc \in {"reserve", "announce"} => Unsent(c.run)
  /\ c.pc = "announce" => workflow.reserved = c.run
  /\ c.pc \in Aiming \ {"reserve", "announce"} =>
       outstanding = c.run /\ c.run \in Run
  /\ c.pc \in Aiming \cap Pointing => c.out = c.run
  /\ c.pc = "load" => StillTrue(c.ans, c.run)

Reconciling == {"release", "consume", "reload", "hold", "reheld", "settle",
                "finish", "clear"}
ReconcileTrue(c) ==
  /\ c.pc \in Reconciling => outstanding = c.out /\ c.out \in Run
  /\ c.pc \in Reconciling \ {"reheld", "clear"} => c.wf = workflow
  /\ c.pc = "release" => task[c.out] = "rejected"
  /\ c.pc = "consume" => task[c.out] \notin {"none", "submitted", "rejected"}
  /\ c.pc \in Reconciling \ {"release", "clear"} =>
       /\ c.outcome # "rejected"
       /\ c.outcome \in Terminal => task[c.out] = c.outcome
  /\ c.pc \in {"reload", "reheld", "settle", "finish"}
       \/ (c.pc = "hold" /\ c.outcome # "recovery") => c.out \in workflow.consumed
  /\ c.pc = "finish" => c.outcome \in Terminal
  /\ c.pc = "clear" =>
       /\ task[c.out] \in Terminal
       /\ task[c.out] = "rejected" \/ c.out \in workflow.consumed

\* An approval changes the plan of the workflow, or starts one whose id no
\* request has.
ApprovalTrue(c) ==
  c.pc = "approve" =>
    /\ outstanding = NoRun
    /\ \/ Active(workflow) /\ c.wf = [workflow EXCEPT !.plan = c.wf.plan]
       \/ /\ c.wf = [NoWorkflow EXCEPT !.id = approvals, !.plan = c.wf.plan]
          /\ approvals # 0 /\ workflow.id # approvals
          /\ \A r \in Run : request[r].workflow # approvals

ClosingTrue(c) ==
  /\ c.pc = "verdict" => c.doc.status # "READY FOR QA"
  /\ c.pc = "notify" => c.wf = workflow
  /\ c.pc = "lift" => /\ workflow # NoWorkflow
                      /\ c.wf = [workflow EXCEPT !.hold = FALSE]
  /\ c.pc \in {"close", "append", "remove"} => outstanding = NoRun
  /\ c.pc = "close" => /\ workflow # NoWorkflow
                       /\ c.wf = [workflow EXCEPT !.closed = TRUE]

CopiesTrue ==
  \A p \in Process : /\ DispatchTrue(cli[p]) /\ ReconcileTrue(cli[p])
                     /\ ApprovalTrue(cli[p]) /\ ClosingTrue(cli[p])

Consistent == FilesAgree /\ NothingForgotten /\ CopiesTrue

-----------------------------------------------------------------------------
(* What changes of the shared files and of the Tasks keep them in step.    *)

\* Tasks only go forward, and a worker is launched only for a working one.
TasksMove ==
  /\ \A r \in Run :
       \/ task'[r] = task[r]
       \/ /\ task[r] \in Open /\ task'[r] \notin {"none", "submitted"}
          /\ task'[r] = "rejected" => task[r] = "submitted"
  /\ \A r \in Run : launched'[r] => \/ launched[r]
                                    \/ task[r] = "working" /\ task'[r] = task[r]

LEMMA TasksMoveKeeps ==
  ASSUME Typed, FilesAgree, NothingForgotten, TasksMove,
         UNCHANGED <<workflow, outstanding, record, request, approvals>>
  PROVE  FilesAgree' /\ NothingForgotten'
<1>. USE DEF TasksMove
<1>1. Terminal \cap Open = {} /\ "none" \notin Open /\ "working" # "rejected"
  BY DEF Terminal, Open
<1>2. FilesAgree'
  BY <1>1 DEF FilesAgree, Active, Terminal, Open
<1>3. NothingForgotten'
  BY <1>1 DEF NothingForgotten, FilesAgree, Terminal, Open
<1>. QED
  BY <1>2, <1>3

LEMMA TasksMoveCopies ==
  ASSUME Typed, CopiesTrue, TasksMove,
         UNCHANGED <<workflow, outstanding, record, request, approvals, cli>>
  PROVE  CopiesTrue'
<1>. SUFFICES ASSUME NEW p \in Process
              PROVE  /\ DispatchTrue(cli[p])' /\ ReconcileTrue(cli[p])'
                     /\ ApprovalTrue(cli[p])' /\ ClosingTrue(cli[p])'
  BY DEF CopiesTrue
<1>0. /\ DispatchTrue(cli[p]) /\ ReconcileTrue(cli[p]) /\ ApprovalTrue(cli[p])
      /\ ClosingTrue(cli[p]) /\ UNCHANGED cli
  BY DEF CopiesTrue
<1>1. Terminal \cap Open = {} /\ "none" \notin Open /\ "none" \notin Terminal
      /\ "rejected" \in Terminal
  BY DEF Terminal, Open
<1>2. DispatchTrue(cli[p])'
  BY <1>0, <1>1 DEF DispatchTrue, Unsent, StillTrue, Active, TasksMove, Aiming
<1>3. ReconcileTrue(cli[p])'
  BY <1>0, <1>1 DEF ReconcileTrue, TasksMove, Reconciling
<1>4. ApprovalTrue(cli[p])' /\ ClosingTrue(cli[p])'
  BY <1>0 DEF ApprovalTrue, ClosingTrue, Active
<1>. QED
  BY <1>2, <1>3, <1>4

\* A saved workflow.json keeps the files in step when it keeps its id, loses no
\* charge, and goes on with the outstanding execution.
LEMMA WorkflowKeeps ==
  ASSUME Typed, FilesAgree, NothingForgotten, workflow' \in Workflow,
         UNCHANGED <<outstanding, record, request, task, launched, approvals>>,
         workflow'.id = workflow.id,
         workflow.consumed \subseteq workflow'.consumed,
         workflow # NoWorkflow, workflow' # NoWorkflow,
         outstanding # NoRun =>
           /\ workflow'.closed = workflow.closed
           /\ \/ workflow'.reserved = workflow.reserved
              \/ workflow'.reserved = outstanding
              \/ outstanding \in workflow'.consumed
              \/ task[outstanding] = "rejected"
  PROVE  FilesAgree' /\ NothingForgotten'
<1>1. workflow'.id \in 1..approvals'
  BY DEF FilesAgree
<1>2. ASSUME NEW r \in Run, outstanding = r
      PROVE  /\ Active(workflow)' /\ request[r].workflow = workflow'.id
             /\ \/ workflow'.reserved = r \/ r \in workflow'.consumed
                \/ task[r] = "rejected"
  <2>1. /\ workflow # NoWorkflow /\ ~workflow.closed
        /\ request[r].workflow = workflow.id
        /\ \/ workflow.reserved = r \/ r \in workflow.consumed
           \/ task[r] = "rejected"
    BY <1>2 DEF FilesAgree, Active
  <2>2. outstanding # NoRun
    BY <1>2, WorkflowAssumption
  <2>. QED
    BY <1>2, <2>1, <2>2 DEF Active
<1>3. FilesAgree'
  BY <1>1, <1>2 DEF FilesAgree
<1>4. NothingForgotten'
  BY DEF NothingForgotten
<1>. QED
  BY <1>3, <1>4

\* A new workflow.json, or none, does so when nothing is outstanding and no
\* request has its id.
LEMMA WorkflowStarts ==
  ASSUME Typed, FilesAgree, NothingForgotten, outstanding = NoRun,
         UNCHANGED <<outstanding, record, request, task, launched, approvals>>,
         workflow' = NoWorkflow \/ workflow'.id \in 1..approvals,
         \A r \in Run : record[r] # "none" => request[r].workflow # workflow'.id
  PROVE  FilesAgree' /\ NothingForgotten'
<1>1. FilesAgree'
  BY WorkflowAssumption DEF FilesAgree
<1>2. NothingForgotten'
  BY DEF NothingForgotten, FilesAgree
<1>. QED
  BY <1>1, <1>2

\* What an update of workflow.json leaves alone.
LEMMA WorkflowFields ==
  ASSUME NEW w \in Workflow
  PROVE  /\ \A b \in BOOLEAN :
              LET v == [w EXCEPT !.hold = b]
              IN  /\ v.id = w.id /\ v.reserved = w.reserved
                  /\ v.consumed = w.consumed /\ v.closed = w.closed
                  /\ v.last = w.last /\ v.hold = b
         /\ LET v == [w EXCEPT !.closed = TRUE]
            IN  /\ v.id = w.id /\ v.reserved = w.reserved
                /\ v.consumed = w.consumed /\ v.closed /\ v.hold = w.hold
         /\ \A r \in Run :
              LET v == [w EXCEPT !.reserved = r]
              IN  /\ v.id = w.id /\ v.reserved = r /\ v.last = w.last
                  /\ v.consumed = w.consumed /\ v.closed = w.closed
                  /\ v.hold = w.hold
         /\ \A o \in Outcomes :
              LET v == [w EXCEPT !.last = o]
              IN  /\ v.id = w.id /\ v.reserved = w.reserved
                  /\ v.consumed = w.consumed /\ v.closed = w.closed
                  /\ v.last = o /\ v.hold = w.hold
         /\ \A plan \in Plan \cup {NoPlan} :
              LET v == [w EXCEPT !.plan = plan]
              IN  /\ v.id = w.id /\ v.reserved = w.reserved
                  /\ v.consumed = w.consumed /\ v.closed = w.closed
                  /\ v.last = w.last /\ v.plan = plan /\ v.hold = w.hold
<1>. QED
  BY DEF Workflow

LEMMA ConsumedFields ==
  ASSUME NEW w \in Workflow, NEW r \in Run
  PROVE  LET u == Unreserved(w, r)  v == Consumed(w, r)
         IN  /\ u.id = w.id /\ u.consumed = w.consumed /\ u.closed = w.closed
             /\ u.last = w.last /\ u.hold = w.hold
             /\ u.reserved = IF w.reserved = r THEN NoRun ELSE w.reserved
             /\ v.id = w.id /\ v.consumed = w.consumed \cup {r}
             /\ v.closed = w.closed /\ v.reserved = u.reserved
             /\ v.last = w.last /\ v.hold = w.hold
<1>1. Unreserved(w, r) \in Workflow
  BY UnreservedTyped
<1>2. LET u == Unreserved(w, r)
      IN  /\ u.id = w.id /\ u.consumed = w.consumed /\ u.closed = w.closed
          /\ u.last = w.last /\ u.hold = w.hold
          /\ u.reserved = IF w.reserved = r THEN NoRun ELSE w.reserved
  BY DEF Unreserved, Workflow
<1>3. LET u == Unreserved(w, r)  v == Consumed(w, r)
      IN  /\ v.id = u.id /\ v.consumed = u.consumed \cup {r}
          /\ v.closed = u.closed /\ v.reserved = u.reserved
          /\ v.last = u.last /\ v.hold = u.hold
  BY <1>1 DEF Consumed, Workflow
<1>. QED
  BY <1>2, <1>3

-----------------------------------------------------------------------------
(* What a step leaves of the copies.                                       *)

LEMMA CopiesAt ==
  ASSUME OneCommand, NEW p \in Process,
         DispatchTrue(cli[p])', ReconcileTrue(cli[p])', ApprovalTrue(cli[p])',
         ClosingTrue(cli[p])'
  PROVE  CopiesTrue'
BY DEF OneCommand, CopiesTrue

\* Places where nothing is claimed.
Quiet == {"idle", "activate", "notice", "legacy", "recheck", "enter", "handback",
          "held", "read", "run"}

LEMMA QuietTrue ==
  ASSUME OneCommand, NEW p \in Process, cli'[p].pc \in Quiet
  PROVE  CopiesTrue'
<1>. USE DEF Quiet
<1>1. DispatchTrue(cli[p])'
  BY DEF DispatchTrue, Aiming, Pointing
<1>2. ReconcileTrue(cli[p])'
  BY DEF ReconcileTrue, Reconciling
<1>3. ApprovalTrue(cli[p])' /\ ClosingTrue(cli[p])'
  BY DEF ApprovalTrue, ClosingTrue
<1>. QED
  BY <1>1, <1>2, <1>3, CopiesAt

\* A command that goes on keeps its copies.
LEMMA GotoCell ==
  ASSUME Typed, NEW p \in Process, NEW place, Goto(p, place)
  PROVE  LET c == cli[p]  d == cli'[p]
         IN  /\ d.pc = place /\ d.execute = c.execute /\ d.watch = c.watch
             /\ d.run = c.run /\ d.out = c.out /\ d.wf = c.wf /\ d.doc = c.doc
             /\ d.ans = c.ans /\ d.outcome = c.outcome
BY DEF Typed, CliType, Command, Goto

LEMMA EndsCell ==
  ASSUME Typed, NEW p \in Process, Ends(p)
  PROVE  cli'[p] = Done /\ cli'[p].pc = "idle"
BY DEF Typed, CliType, Ends, Done

LEMMA CopiesHere ==
  ASSUME CopiesTrue, NEW p \in Process
  PROVE  /\ DispatchTrue(cli[p]) /\ ReconcileTrue(cli[p])
         /\ ApprovalTrue(cli[p]) /\ ClosingTrue(cli[p])
BY DEF CopiesTrue

\* A place has claims of one kind.
LEMMA AtDispatch ==
  ASSUME OneCommand, NEW p \in Process,
         cli'[p].pc \in {"gate", "check", "prepare", "unhold"} \cup Aiming,
         DispatchTrue(cli[p])'
  PROVE  CopiesTrue'
<1>1. ReconcileTrue(cli[p])'
  BY DEF ReconcileTrue, Reconciling, Aiming
<1>2. ApprovalTrue(cli[p])' /\ ClosingTrue(cli[p])'
  BY DEF ApprovalTrue, ClosingTrue, Aiming
<1>. QED
  BY <1>1, <1>2, CopiesAt

LEMMA AtReconcile ==
  ASSUME OneCommand, NEW p \in Process, cli'[p].pc \in Reconciling,
         ReconcileTrue(cli[p])'
  PROVE  CopiesTrue'
<1>1. DispatchTrue(cli[p])'
  BY DEF DispatchTrue, Reconciling, Aiming
<1>2. ApprovalTrue(cli[p])' /\ ClosingTrue(cli[p])'
  BY DEF ApprovalTrue, ClosingTrue, Reconciling
<1>. QED
  BY <1>1, <1>2, CopiesAt

LEMMA AtApproval ==
  ASSUME OneCommand, NEW p \in Process, cli'[p].pc = "approve",
         ApprovalTrue(cli[p])'
  PROVE  CopiesTrue'
<1>1. DispatchTrue(cli[p])' /\ ReconcileTrue(cli[p])' /\ ClosingTrue(cli[p])'
  BY DEF DispatchTrue, Aiming, ReconcileTrue, Reconciling, ClosingTrue
<1>. QED
  BY <1>1, CopiesAt

LEMMA AtClosing ==
  ASSUME OneCommand, NEW p \in Process,
         cli'[p].pc \in {"notify", "lift", "verdict", "close", "append", "remove"},
         ClosingTrue(cli[p])'
  PROVE  CopiesTrue'
<1>1. DispatchTrue(cli[p])' /\ ReconcileTrue(cli[p])' /\ ApprovalTrue(cli[p])'
  BY DEF DispatchTrue, Aiming, ReconcileTrue, Reconciling, ApprovalTrue
<1>. QED
  BY <1>1, CopiesAt

LEMMA EndsTrue ==
  ASSUME OneCommand, Typed, NEW p \in Process, Ends(p)
  PROVE  CopiesTrue'
<1>1. cli'[p].pc \in Quiet
  BY EndsCell DEF Quiet
<1>. QED
  BY <1>1, QuietTrue

LEMMA GotoQuiet ==
  ASSUME OneCommand, Typed, NEW p \in Process, NEW place \in Quiet,
         Goto(p, place)
  PROVE  CopiesTrue'
<1>1. cli'[p].pc = place
  BY GotoCell
<1>. QED
  BY <1>1, QuietTrue

LEMMA TypedFacts ==
  ASSUME Typed
  PROVE  /\ workflow \in Workflow /\ handoff \in Handoff /\ approvals \in Nat
         /\ outstanding \in Run \cup {NoRun, Blank}
         /\ record \in [Run -> {"none", "saved", "acked"}]
         /\ request \in [Run -> Request]
         /\ task \in [Run -> TaskStates] /\ launched \in [Run -> BOOLEAN]
BY WorkflowAssumption DEF Typed, FilesType, EndpointType, CountType

\* A step that leaves the files and the Tasks alone.
LEMMA FilesSame ==
  ASSUME Typed, FilesAgree, NothingForgotten,
         UNCHANGED <<workflow, outstanding, record, request, task, launched>>,
         approvals' = approvals \/ approvals' = approvals + 1
  PROVE  FilesAgree' /\ NothingForgotten'
<1>1. approvals \in Nat
  BY TypedFacts
<1>2. FilesAgree'
  BY <1>1 DEF FilesAgree, Active
<1>3. NothingForgotten'
  BY DEF NothingForgotten
<1>. QED
  BY <1>2, <1>3

-----------------------------------------------------------------------------
(* approve                                                                 *)

LEMMA ApproveTrue ==
  ASSUME OneCommand, Typed, Consistent, NEW p \in Process, Approve(p)
  PROVE  Consistent'
<1>0. /\ UNCHANGED <<workflow, outstanding, record, request, task, launched>>
      /\ FilesAgree /\ NothingForgotten
  BY DEF Approve, files, endpoint, Consistent
<1>. SUFFICES CopiesTrue' /\ (approvals' = approvals \/ approvals' = approvals + 1)
  BY <1>0, FilesSame DEF Consistent
<1>1. CASE /\ Existing # NoWorkflow /\ outstanding = NoRun
           /\ cli' = [cli EXCEPT ![p].pc = "approve",
                                 ![p].wf = Reapproved(Existing)]
           /\ UNCHANGED approvals
  <2>1. Existing = workflow /\ Active(workflow)
    BY <1>1 DEF Existing, Active
  <2>2. cli'[p].pc = "approve" /\ cli'[p].wf = Reapproved(Existing)
    <3>. DEFINE w == Reapproved(Existing)
    <3>1. cli' = [cli EXCEPT ![p].pc = "approve", ![p].wf = w]
      BY <1>1
    <3>. HIDE DEF w
    <3>2. cli'[p].pc = "approve" /\ cli'[p].wf = w
      BY <3>1 DEF Typed, CliType, Command
    <3>. QED
      BY <3>2 DEF w
  <2>3. /\ cli'[p].wf = [workflow EXCEPT !.plan = handoff.plan]
        /\ handoff.plan \in Plan \cup {NoPlan} /\ workflow \in Workflow
    BY <2>1, <2>2, TypedFacts DEF Reapproved, Handoff
  <2>4. cli'[p].wf.plan = handoff.plan
    BY <2>3 DEF Workflow
  <2>5. /\ Active(workflow)' /\ outstanding' = NoRun
        /\ cli'[p].wf = [workflow' EXCEPT !.plan = cli'[p].wf.plan]
    <3>1. cli'[p].wf = [workflow EXCEPT !.plan = cli'[p].wf.plan]
      BY <2>3, <2>4
    <3>. QED
      BY <1>0, <1>1, <2>1, <3>1 DEF Active
  <2>6. ApprovalTrue(cli[p])'
    BY <2>5 DEF ApprovalTrue
  <2>. QED
    BY <1>1, <2>2, <2>6, AtApproval
<1>2. CASE /\ Existing = NoWorkflow /\ approvals' = approvals + 1
           /\ cli' = [cli EXCEPT
                ![p].pc = "approve",
                ![p].wf = [NoWorkflow EXCEPT !.id = approvals + 1,
                                             !.plan = handoff.plan]]
  <2>1. /\ cli'[p].pc = "approve"
        /\ cli'[p].wf = [NoWorkflow EXCEPT !.id = approvals + 1,
                                           !.plan = handoff.plan]
    <3>. DEFINE w == [NoWorkflow EXCEPT !.id = approvals + 1,
                                        !.plan = handoff.plan]
    <3>1. cli' = [cli EXCEPT ![p].pc = "approve", ![p].wf = w]
      BY <1>2
    <3>. HIDE DEF w
    <3>2. cli'[p].pc = "approve" /\ cli'[p].wf = w
      BY <3>1 DEF Typed, CliType, Command
    <3>. QED
      BY <3>2 DEF w
  <2>2. cli'[p].wf.plan = handoff.plan
    BY <2>1 DEF NoWorkflow
  <2>3. outstanding \notin Run
    BY <1>0, <1>2 DEF FilesAgree, Active, Existing
  <2>4. outstanding' = NoRun
    BY <1>0, <2>3, TypedFacts DEF FilesAgree
  <2>5. approvals \in Nat /\ \A r \in Run : request'[r].workflow # approvals'
    BY <1>0, <1>2, TypedFacts DEF FilesAgree
  <2>6. approvals' # 0 /\ workflow'.id # approvals'
    BY <1>0, <1>2, <2>5 DEF FilesAgree, NoWorkflow
  <2>7. cli'[p].wf = [NoWorkflow EXCEPT !.id = approvals',
                                        !.plan = cli'[p].wf.plan]
    <3>1. cli'[p].wf = [NoWorkflow EXCEPT !.id = approvals',
                                          !.plan = handoff.plan]
      BY <1>2, <2>1
    <3>. QED
      BY <2>2, <3>1
  <2>8. ApprovalTrue(cli[p])'
    BY <2>4, <2>5, <2>6, <2>7 DEF ApprovalTrue
  <2>. QED
    BY <1>2, <2>1, <2>8, AtApproval
<1>. QED
  BY <1>1, <1>2, Zenon DEF Approve

LEMMA ApproveSaveTrue ==
  ASSUME OneCommand, Typed, Consistent, NEW p \in Process, ApproveSave(p)
  PROVE  Consistent'
<1>0. /\ cli[p].pc = "approve" /\ workflow' = cli[p].wf
      /\ UNCHANGED <<outstanding, record, request, task, launched, approvals>>
      /\ FilesAgree /\ NothingForgotten /\ Goto(p, "activate")
  BY DEF ApproveSave, At, endpoint, Consistent
<1>1. /\ workflow \in Workflow /\ approvals \in Nat /\ cli[p].wf \in Workflow
  BY TypedFacts, CopiesTyped DEF Typed
<1>2. ApprovalTrue(cli[p])
  BY CopiesHere DEF Consistent
<1>3. CopiesTrue'
  BY <1>0, GotoQuiet DEF Quiet
<1>4. CASE Active(workflow) /\ cli[p].wf = [workflow EXCEPT !.plan = cli[p].wf.plan]
  <2>1. cli[p].wf.plan \in Plan \cup {NoPlan}
    BY <1>1 DEF Workflow
  <2>2. /\ workflow'.id = workflow.id /\ workflow'.consumed = workflow.consumed
        /\ workflow # NoWorkflow
    <3>. DEFINE plan == cli[p].wf.plan
    <3>1. plan \in Plan \cup {NoPlan} /\ workflow' = [workflow EXCEPT !.plan = plan]
      BY <1>0, <1>4, <2>1
    <3>. HIDE DEF plan
    <3>2. /\ workflow'.id = workflow.id
          /\ workflow'.consumed = workflow.consumed
      BY <1>1, <3>1, WorkflowFields
    <3>. QED
      BY <1>4, <3>2 DEF Active
  <2>3. workflow' # NoWorkflow
    BY <1>0, <2>2 DEF FilesAgree, NoWorkflow
  <2>4. outstanding = NoRun
    BY <1>0, <1>2 DEF ApprovalTrue
  <2>. QED
    BY <1>0, <1>1, <1>3, <2>2, <2>3, <2>4, WorkflowKeeps DEF Consistent
<1>5. CASE /\ cli[p].wf = [NoWorkflow EXCEPT !.id = approvals,
                                             !.plan = cli[p].wf.plan]
           /\ approvals # 0 /\ workflow.id # approvals
          /\ \A r \in Run : request[r].workflow # approvals
  <2>1. workflow'.id = approvals
    BY <1>0, <1>5 DEF NoWorkflow
  <2>2. outstanding = NoRun
    BY <1>0, <1>2 DEF ApprovalTrue
  <2>3. workflow'.id \in 1..approvals
    BY <1>1, <1>5, <2>1
  <2>. QED
    BY <1>0, <1>3, <1>5, <2>1, <2>2, <2>3, WorkflowStarts DEF Consistent
<1>. QED
  BY <1>0, <1>2, <1>4, <1>5 DEF ApprovalTrue

LEMMA ActivateTrue ==
  ASSUME OneCommand, Typed, Consistent, NEW p \in Process, Activate(p)
  PROVE  Consistent'
<1>1. /\ UNCHANGED <<workflow, outstanding, record, request, task, launched,
                     approvals>>
      /\ FilesAgree /\ NothingForgotten /\ Ends(p)
  BY DEF Activate, endpoint, Consistent
<1>. QED
  BY <1>1, FilesSame, EndsTrue DEF Consistent

-----------------------------------------------------------------------------
(* execute under submit.lock                                               *)

\* A step of a submission that moves the command and changes no file.
LEMMA EarlyTrue ==
  ASSUME OneCommand, Typed, Consistent, NEW p \in Process,
         NEW place \in {"check", "prepare"}, Goto(p, place),
         cli[p].pc \in {"gate", "check"}, UNCHANGED workflow
  PROVE  CopiesTrue'
<1>1. cli'[p].pc = place /\ cli'[p].watch = cli[p].watch
  BY GotoCell
<1>2. cli[p].watch => ~workflow.hold
  BY CopiesHere DEF Consistent, DispatchTrue
<1>3. DispatchTrue(cli[p])'
  BY <1>1, <1>2 DEF DispatchTrue, Aiming
<1>. QED
  BY <1>1, <1>3, AtDispatch

LEMMA TakeSubmitLockTrue ==
  ASSUME OneCommand, Typed, Consistent, NEW p \in Process,
         TakeSubmitLock(p) \/ CheckOnly(p) \/ SubmissionRefused(p)
  PROVE  Consistent'
<1>1. /\ UNCHANGED <<workflow, outstanding, record, request, task, launched,
                     approvals>>
      /\ FilesAgree /\ NothingForgotten
  BY DEF TakeSubmitLock, CheckOnly, SubmissionRefused, files, endpoint, Consistent
<1>2. \/ Ends(p)
      \/ cli[p].pc = "gate" /\ Goto(p, "check")
      \/ cli[p].pc = "check" /\ Goto(p, "prepare")
  BY DEF TakeSubmitLock, CheckOnly, SubmissionRefused, At
<1>3. CopiesTrue'
  BY <1>1, <1>2, EarlyTrue, EndsTrue
<1>. QED
  BY <1>1, <1>3, FilesSame DEF Consistent

\* The cell of a command that has saved the record of a new execution.
LEMMA PersistCell ==
  ASSUME Typed, NEW p \in Process, NEW r \in Run, NEW doc, NEW w,
         PersistRecord(p, r, doc, w, "reserve")
  PROVE  /\ cli'[p].pc = "reserve" /\ cli'[p].run = r /\ cli'[p].wf = w
         /\ cli'[p].watch = cli[p].watch
         /\ record[r] = "none" /\ record'[r] = "saved"
         /\ request'[r].workflow = w.id /\ request'[r].status = doc.status
         /\ \A s \in Run \ {r} : record'[s] = record[s] /\ request'[s] = request[s]
<1>1. /\ cli'[p].pc = "reserve" /\ cli'[p].run = r /\ cli'[p].wf = w
      /\ cli'[p].watch = cli[p].watch
  BY DEF Typed, CliType, Command, PersistRecord
<1>2. /\ record[r] = "none" /\ record'[r] = "saved"
      /\ \A s \in Run \ {r} : record'[s] = record[s]
  BY DEF Typed, FilesType, PersistRecord
<1>3. /\ request'[r].workflow = w.id /\ request'[r].status = doc.status
      /\ \A s \in Run \ {r} : request'[s] = request[s]
  BY DEF Typed, FilesType, PersistRecord
<1>. QED
  BY <1>1, <1>2, <1>3

\* persist_run_record, with or without a hold that was lifted before.
LEMMA PersistTrue ==
  ASSUME OneCommand, Typed, FilesAgree, NothingForgotten, NEW p \in Process,
         NEW r \in Run, NEW doc, doc.status \in ELIGIBLE,
         PersistRecord(p, r, doc, workflow', "reserve"),
         Active(workflow), outstanding = NoRun,
         workflow'.id = workflow.id, workflow'.consumed = workflow.consumed,
         workflow'.closed = workflow.closed,
         UNCHANGED <<outstanding, task, launched, approvals>>
  PROVE  Consistent'
<1>1. /\ cli'[p].pc = "reserve" /\ cli'[p].run = r /\ cli'[p].wf = workflow'
      /\ record[r] = "none" /\ record'[r] = "saved"
      /\ request'[r].workflow = workflow'.id /\ request'[r].status = doc.status
      /\ \A s \in Run \ {r} : record'[s] = record[s] /\ request'[s] = request[s]
  BY PersistCell
<1>2. workflow.id \in 1..approvals /\ approvals \in Nat
  BY TypedFacts DEF FilesAgree, Active
<1>3. workflow' # NoWorkflow
  BY <1>2 DEF NoWorkflow
<1>4. Active(workflow)'
  BY <1>3 DEF Active
<1>5. task[r] = "none" /\ ~launched[r] /\ NoRun \notin Run
  BY <1>1, TypedFacts, WorkflowAssumption DEF FilesAgree
<1>6. FilesAgree'
  <2>1. outstanding' # Blank /\ workflow'.id \in 1..approvals'
    BY <1>2, WorkflowAssumption
  <2>2. ASSUME NEW s \in Run
        PROVE  /\ request'[s].workflow \in 0..approvals'
               /\ record'[s] # "none" => /\ request'[s].workflow # 0
                                         /\ request'[s].status \in ELIGIBLE
               /\ task'[s] # "none" => record'[s] # "none"
               /\ launched'[s] => task'[s] \notin {"none", "submitted", "rejected"}
               /\ outstanding' # s
    <3>1. CASE s = r
      BY <1>1, <1>2, <1>5, <3>1
    <3>2. CASE s # r
      BY <1>1, <1>5, <3>2 DEF FilesAgree
    <3>. QED
      BY <3>1, <3>2
  <2>. QED
    BY <2>1, <2>2 DEF FilesAgree
<1>7. NothingForgotten'
  <2>1. ASSUME NEW s \in Run, task'[s] # "none", outstanding' # s
        PROVE  /\ task'[s] \in Terminal
               /\ \/ task'[s] = "rejected"
                  \/ request'[s].workflow # workflow'.id
                  \/ s \in workflow'.consumed
    BY <1>1, <1>5, <2>1 DEF NothingForgotten
  <2>. QED
    BY <2>1 DEF NothingForgotten
<1>8. DispatchTrue(cli[p])'
  BY <1>1, <1>4, <1>5 DEF DispatchTrue, Unsent, Aiming, Pointing
<1>9. CopiesTrue'
  BY <1>1, <1>8, AtDispatch DEF Aiming
<1>. QED
  BY <1>6, <1>7, <1>9 DEF Consistent

LEMMA PrepareTrue ==
  ASSUME OneCommand, Typed, Consistent, NEW p \in Process, Prepare(p)
  PROVE  Consistent'
<1>0. /\ UNCHANGED <<workflow, outstanding, task, launched, approvals>>
      /\ FilesAgree /\ NothingForgotten /\ cli[p].pc = "prepare"
      /\ Active(workflow) /\ handoff.status \in ELIGIBLE /\ outstanding = NoRun
  BY DEF Prepare, Ready, At, endpoint, Consistent
<1>1. CASE /\ workflow.hold
           /\ cli' = [cli EXCEPT ![p].pc = "unhold", ![p].wf = workflow,
                                 ![p].doc = handoff]
           /\ UNCHANGED <<record, request>>
  <2>1. /\ cli'[p].pc = "unhold" /\ cli'[p].wf = workflow
        /\ cli'[p].doc = handoff /\ cli'[p].watch = cli[p].watch
    BY <1>1 DEF Typed, CliType, Command
  <2>2. cli[p].watch => ~workflow.hold
    BY <1>0, CopiesHere DEF Consistent, DispatchTrue
  <2>3. DispatchTrue(cli[p])'
    BY <1>0, <1>1, <2>1, <2>2 DEF DispatchTrue, Aiming, Active
  <2>4. CopiesTrue'
    BY <2>1, <2>3, AtDispatch
  <2>. QED
    BY <1>0, <1>1, <2>4, FilesSame DEF Consistent
<1>2. CASE \E r \in Run : PersistRecord(p, r, handoff, workflow, "reserve")
  <2>1. PICK r \in Run : PersistRecord(p, r, handoff, workflow, "reserve")
    BY <1>2
  <2>2. PersistRecord(p, r, handoff, workflow', "reserve")
    BY <1>0, <2>1
  <2>. QED
    BY <1>0, <2>2, PersistTrue
<1>. QED
  BY <1>1, <1>2, Zenon DEF Prepare

LEMMA ClearHoldTrue ==
  ASSUME OneCommand, Typed, Consistent, NEW p \in Process, ClearHold(p)
  PROVE  Consistent'
<1>0. /\ UNCHANGED <<outstanding, task, launched, approvals>>
      /\ FilesAgree /\ NothingForgotten /\ cli[p].pc = "unhold"
      /\ workflow' = [cli[p].wf EXCEPT !.hold = FALSE]
      /\ \E r \in Run : PersistRecord(p, r, cli[p].doc, workflow', "reserve")
  BY DEF ClearHold, At, endpoint, Consistent
<1>1. /\ outstanding = NoRun /\ Active(workflow) /\ cli[p].wf = workflow
      /\ cli[p].doc.status \in ELIGIBLE
  BY <1>0, CopiesHere DEF Consistent, DispatchTrue
<1>2. /\ workflow'.id = workflow.id /\ workflow'.consumed = workflow.consumed
      /\ workflow'.closed = workflow.closed
  BY <1>0, <1>1, TypedFacts, WorkflowFields
<1>3. PICK r \in Run : PersistRecord(p, r, cli[p].doc, workflow', "reserve")
  BY <1>0
<1>. QED
  BY <1>0, <1>1, <1>2, <1>3, PersistTrue

LEMMA ReserveRoundTrue ==
  ASSUME OneCommand, Typed, Consistent, NEW p \in Process, ReserveRound(p)
  PROVE  Consistent'
<1>0. /\ UNCHANGED <<outstanding, record, request, task, launched, approvals>>
      /\ FilesAgree /\ NothingForgotten /\ cli[p].pc = "reserve"
  BY DEF ReserveRound, At, endpoint, Consistent
<1>1. /\ outstanding = NoRun /\ Active(workflow) /\ cli[p].wf = workflow
      /\ Unsent(cli[p].run)
  BY <1>0, CopiesHere DEF Consistent, DispatchTrue
<1>2. CASE /\ workflow' = [cli[p].wf EXCEPT !.reserved = cli[p].run]
           /\ cli' = [cli EXCEPT ![p].pc = "announce", ![p].wf = NoWorkflow]
  <2>1. cli'[p].pc = "announce" /\ cli'[p].run = cli[p].run
    BY <1>2 DEF Typed, CliType, Command
  <2>2. /\ workflow'.id = workflow.id /\ workflow'.consumed = workflow.consumed
        /\ workflow'.closed = workflow.closed /\ workflow'.reserved = cli[p].run
    BY <1>1, <1>2, TypedFacts, WorkflowFields DEF Unsent
  <2>3. workflow.id # 0
    BY <1>0, <1>1, TypedFacts DEF FilesAgree, Active
  <2>4. workflow' # NoWorkflow
    BY <2>2, <2>3 DEF NoWorkflow
  <2>5. workflow' \in Workflow
    BY <1>1, <1>2, TypedFacts, WorkflowValues DEF Unsent
  <2>6. FilesAgree' /\ NothingForgotten'
    BY <1>0, <1>1, <2>2, <2>4, <2>5, WorkflowKeeps DEF Active
  <2>7. DispatchTrue(cli[p])'
    BY <1>0, <1>1, <2>1, <2>2, <2>4 DEF DispatchTrue, Unsent, Aiming, Pointing, Active
  <2>8. CopiesTrue'
    BY <2>1, <2>7, AtDispatch DEF Aiming
  <2>. QED
    BY <2>6, <2>8 DEF Consistent
<1>3. CASE Ends(p) /\ UNCHANGED workflow
  BY <1>0, <1>3, FilesSame, EndsTrue DEF Consistent
<1>. QED
  BY <1>2, <1>3, Zenon DEF ReserveRound

LEMMA AnnounceTrue ==
  ASSUME OneCommand, Typed, Consistent, NEW p \in Process, Announce(p)
  PROVE  Consistent'
<1>0. /\ UNCHANGED <<workflow, record, request, task, launched, approvals>>
      /\ FilesAgree /\ NothingForgotten /\ cli[p].pc = "announce"
      /\ Goto(p, "unlock") /\ outstanding' = cli[p].run
  BY DEF Announce, At, endpoint, Consistent
<1>1. /\ outstanding = NoRun /\ Active(workflow) /\ Unsent(cli[p].run)
      /\ workflow.reserved = cli[p].run
  BY <1>0, CopiesHere DEF Consistent, DispatchTrue
<1>2. cli'[p].pc = "unlock" /\ cli'[p].run = cli[p].run
  BY <1>0, GotoCell
<1>3. FilesAgree'
  BY <1>0, <1>1, WorkflowAssumption DEF FilesAgree, Unsent, Active
<1>4. NothingForgotten'
  BY <1>0, <1>1, WorkflowAssumption DEF NothingForgotten, Unsent
<1>5. DispatchTrue(cli[p])'
  BY <1>0, <1>1, <1>2 DEF DispatchTrue, Aiming, Pointing, Unsent
<1>6. CopiesTrue'
  BY <1>2, <1>5, AtDispatch DEF Aiming
<1>. QED
  BY <1>3, <1>4, <1>6 DEF Consistent

\* A step after the reservation that changes nothing but the place.
LEMMA OnwardTrue ==
  ASSUME OneCommand, Typed, Consistent, NEW p \in Process,
         cli[p].pc \in Aiming \ {"reserve", "announce"},
         cli'[p].pc \in Aiming \ {"reserve", "announce", "load"},
         cli'[p].run = cli[p].run,
         cli'[p].pc \in Pointing => cli'[p].out = cli'[p].run,
         UNCHANGED outstanding
  PROVE  CopiesTrue'
<1>1. outstanding = cli[p].run /\ cli[p].run \in Run
  BY CopiesHere DEF Consistent, DispatchTrue
<1>2. DispatchTrue(cli[p])'
  BY <1>1 DEF DispatchTrue, Aiming, Pointing
<1>. QED
  BY <1>2, AtDispatch

LEMMA ReleaseSubmitLockTrue ==
  ASSUME OneCommand, Typed, Consistent, NEW p \in Process, ReleaseSubmitLock(p)
  PROVE  Consistent'
<1>0. /\ UNCHANGED <<workflow, outstanding, record, request, task, launched,
                     approvals>>
      /\ FilesAgree /\ NothingForgotten /\ cli[p].pc = "unlock" /\ Goto(p, "adopt")
  BY DEF ReleaseSubmitLock, At, files, endpoint, Consistent
<1>1. cli'[p].pc = "adopt" /\ cli'[p].run = cli[p].run
  BY <1>0, GotoCell
<1>2. CopiesTrue'
  BY <1>0, <1>1, OnwardTrue DEF Aiming, Pointing
<1>. QED
  BY <1>0, <1>2, FilesSame DEF Consistent

LEMMA SubmissionTrue ==
  ASSUME OneCommand, Typed, Consistent, NEW p \in Process, Submission(p)
  PROVE  Consistent'
BY TakeSubmitLockTrue, PrepareTrue, ClearHoldTrue, ReserveRoundTrue,
   AnnounceTrue, ReleaseSubmitLockTrue DEF Submission

-----------------------------------------------------------------------------
(* execute outside the lock, and resume, status and cancel                 *)

LEMMA ExecuteTrue ==
  ASSUME OneCommand, Typed, Consistent, NEW p \in Process, NEW watch \in BOOLEAN,
         Execute(p, watch)
  PROVE  Consistent'
<1>0. /\ UNCHANGED <<workflow, outstanding, record, request, task, launched,
                     approvals>>
      /\ FilesAgree /\ NothingForgotten /\ (watch => ~workflow.hold)
  BY DEF Execute, WatchDispatches, files, endpoint, Consistent
<1>1. cli'[p].pc = "gate" /\ cli'[p].watch = watch
  BY DEF Execute, Typed, CliType, Command
<1>2. DispatchTrue(cli[p])'
  BY <1>0, <1>1 DEF DispatchTrue, Aiming
<1>3. CopiesTrue'
  BY <1>1, <1>2, AtDispatch
<1>. QED
  BY <1>0, <1>3, FilesSame DEF Consistent

LEMMA AdoptTrue ==
  ASSUME OneCommand, Typed, Consistent, NEW p \in Process, Adopt(p)
  PROVE  Consistent'
<1>0. /\ UNCHANGED <<workflow, outstanding, record, request, task, launched,
                     approvals>>
      /\ FilesAgree /\ NothingForgotten /\ cli[p].pc = "adopt"
  BY DEF Adopt, At, files, endpoint, Consistent
<1>1. outstanding = cli[p].run /\ cli[p].run \in Run
  BY <1>0, CopiesHere DEF Consistent, DispatchTrue, Aiming
<1>2. /\ cli'[p].pc = "identify" /\ cli'[p].run = cli[p].run
      /\ cli'[p].out = IF outstanding = NoRun THEN Blank ELSE outstanding
  BY DEF Adopt, Typed, CliType, Command
<1>3. cli'[p].out = cli'[p].run
  BY <1>1, <1>2, WorkflowAssumption
<1>4. CopiesTrue'
  BY <1>0, <1>2, <1>3, OnwardTrue DEF Aiming
<1>. QED
  BY <1>0, <1>4, FilesSame DEF Consistent

LEMMA SaveOutstandingTrue ==
  ASSUME OneCommand, Typed, Consistent, NEW p \in Process, SaveOutstanding(p)
  PROVE  Consistent'
<1>0. /\ UNCHANGED <<workflow, record, request, task, launched, approvals>>
      /\ FilesAgree /\ NothingForgotten /\ cli[p].pc \in {"identify", "point"}
      /\ outstanding' = cli[p].out
  BY DEF SaveOutstanding, endpoint, Consistent
<1>1. UNCHANGED outstanding /\ cli[p].out = cli[p].run
  BY <1>0, CopiesHere DEF Consistent, DispatchTrue, Aiming, Pointing
<1>2. PICK place \in {"submit", "wait"} : Goto(p, place)
  BY DEF SaveOutstanding
<1>3. cli'[p].pc = place /\ cli'[p].run = cli[p].run /\ cli'[p].out = cli[p].out
  BY <1>2, GotoCell
<1>4. CopiesTrue'
  BY <1>0, <1>1, <1>3, OnwardTrue DEF Aiming
<1>. QED
  BY <1>0, <1>1, <1>4, FilesSame DEF Consistent

\* A request reaches the endpoint.
LEMMA SubmitTrue ==
  ASSUME OneCommand, Typed, Consistent, NEW p \in Process, Submit(p)
  PROVE  Consistent'
<1>0. /\ UNCHANGED <<workflow, outstanding, record, request, launched, approvals>>
      /\ FilesAgree /\ NothingForgotten /\ cli[p].pc = "submit"
  BY DEF Submit, At, files, Consistent
<1>1. /\ outstanding = cli[p].run /\ cli[p].run \in Run
      /\ cli[p].out = cli[p].run
  BY <1>0, CopiesHere DEF Consistent, DispatchTrue, Aiming, Pointing
<1>2. CASE /\ task' = [task EXCEPT ![cli[p].run] =
                         IF @ = "none" THEN "submitted" ELSE @]
           /\ Goto(p, "ack") \/ Ends(p)
  <2>1. record[cli[p].run] # "none"
    BY <1>0, <1>1 DEF FilesAgree
  <2>2. \A r \in Run :
          \/ task'[r] = task[r]
          \/ r = outstanding /\ task[r] = "none" /\ task'[r] = "submitted"
    BY <1>1, <1>2, TypedFacts
  <2>3. FilesAgree'
    BY <1>0, <1>1, <2>1, <2>2 DEF FilesAgree, Active
  <2>4. NothingForgotten'
    BY <1>0, <2>2 DEF NothingForgotten
  <2>5. CASE Goto(p, "ack")
    <3>1. cli'[p].pc = "ack" /\ cli'[p].run = cli[p].run /\ cli'[p].out = cli[p].out
      BY <2>5, GotoCell
    <3>2. CopiesTrue'
      BY <1>0, <1>1, <3>1, OnwardTrue DEF Aiming
    <3>. QED
      BY <2>3, <2>4, <3>2 DEF Consistent
  <2>. QED
    BY <1>2, <2>3, <2>4, <2>5, EndsTrue DEF Consistent
<1>3. CASE UNCHANGED task /\ Ends(p)
  BY <1>0, <1>3, FilesSame, EndsTrue DEF Consistent
<1>. QED
  BY <1>2, <1>3, Zenon DEF Submit

LEMMA AckTrue ==
  ASSUME OneCommand, Typed, Consistent, NEW p \in Process, Ack(p)
  PROVE  Consistent'
<1>0. /\ UNCHANGED <<workflow, outstanding, request, task, launched, approvals>>
      /\ FilesAgree /\ NothingForgotten /\ cli[p].pc = "ack"
      /\ record' = [record EXCEPT ![cli[p].run] = "acked"]
  BY DEF Ack, At, endpoint, Consistent
<1>1. /\ outstanding = cli[p].run /\ cli[p].run \in Run
      /\ cli[p].out = cli[p].run
  BY <1>0, CopiesHere DEF Consistent, DispatchTrue, Aiming, Pointing
<1>2. \A r \in Run : record'[r] # "none" <=> record[r] # "none"
  BY <1>0, <1>1, TypedFacts DEF FilesAgree
<1>3. FilesAgree'
  BY <1>0, <1>2 DEF FilesAgree, Active
<1>4. NothingForgotten'
  BY <1>0 DEF NothingForgotten
<1>5. PICK place \in {"point", "wait"} : Goto(p, place)
  BY DEF Ack
<1>6. cli'[p].pc = place /\ cli'[p].run = cli[p].run /\ cli'[p].out = cli[p].out
  BY <1>5, GotoCell
<1>7. CopiesTrue'
  BY <1>0, <1>1, <1>6, OnwardTrue DEF Aiming
<1>. QED
  BY <1>3, <1>4, <1>7 DEF Consistent

\* A command that has read a Task which has ended, or waits for recovery.
LEMMA ReadTrue ==
  ASSUME OneCommand, Typed, FilesAgree, NEW p \in Process, outstanding \in Run,
         cli'[p].pc = "load", cli'[p].run = outstanding, cli'[p].out = outstanding,
         cli'[p].ans.state = task'[outstanding],
         task'[outstanding] \in Terminal \cup {"recovery"}, UNCHANGED outstanding
  PROVE  CopiesTrue'
<1>1. "recovery" \notin Terminal
  BY DEF Terminal
<1>2. StillTrue(cli[p].ans, cli[p].run)'
  BY <1>1 DEF StillTrue
<1>3. DispatchTrue(cli[p])'
  BY <1>2 DEF DispatchTrue, Aiming, Pointing
<1>. QED
  BY <1>3, AtDispatch DEF Aiming

LEMMA WaitTrue ==
  ASSUME OneCommand, Typed, Consistent, NEW p \in Process, Wait(p)
  PROVE  Consistent'
<1>0. /\ UNCHANGED <<workflow, outstanding, record, request, task, launched,
                     approvals>>
      /\ FilesAgree /\ NothingForgotten /\ cli[p].pc = "wait"
  BY DEF Wait, At, files, endpoint, Consistent
<1>1. /\ outstanding = cli[p].run /\ cli[p].run \in Run
      /\ cli[p].out = cli[p].run
  BY <1>0, CopiesHere DEF Consistent, DispatchTrue, Aiming, Pointing
<1>2. CASE /\ task[cli[p].run] \in Terminal \cup {"recovery"}
           /\ cli' = [cli EXCEPT ![p].pc = "load", ![p].ans = TaskOf(cli[p].run)]
  <2>1. /\ cli'[p].pc = "load" /\ cli'[p].run = cli[p].run
        /\ cli'[p].out = cli[p].out /\ cli'[p].ans = TaskOf(cli[p].run)
    BY <1>2 DEF Typed, CliType, Command
  <2>2. cli'[p].ans.state = task[cli[p].run]
    BY <2>1 DEF TaskOf
  <2>3. CopiesTrue'
    BY <1>0, <1>1, <1>2, <2>1, <2>2, ReadTrue
  <2>. QED
    BY <1>0, <2>3, FilesSame DEF Consistent
<1>3. CASE Ends(p)
  BY <1>0, <1>3, FilesSame, EndsTrue DEF Consistent
<1>. QED
  BY <1>2, <1>3, Zenon DEF Wait

LEMMA ResumeTrue ==
  ASSUME OneCommand, Typed, Consistent, NEW p \in Process, NEW watch \in BOOLEAN,
         Resume(p, watch)
  PROVE  Consistent'
<1>0. /\ UNCHANGED <<workflow, outstanding, record, request, task, launched,
                     approvals>>
      /\ FilesAgree /\ NothingForgotten /\ outstanding \in Run
  BY DEF Resume, files, endpoint, Consistent
<1>1. PICK place \in {"wait", "submit"} :
        cli' = [cli EXCEPT ![p] =
                  [Loaded(p) EXCEPT !.watch = watch, !.pc = place]]
  BY Zenon DEF Resume
<1>2. cli'[p].pc = place /\ cli'[p].run = outstanding /\ cli'[p].out = outstanding
  BY <1>1 DEF Loaded, Typed, CliType, Command
<1>3. DispatchTrue(cli[p])'
  BY <1>0, <1>2 DEF DispatchTrue, Aiming, Pointing
<1>4. CopiesTrue'
  BY <1>2, <1>3, AtDispatch DEF Aiming
<1>. QED
  BY <1>0, <1>4, FilesSame DEF Consistent

LEMMA CheckStatusTrue ==
  ASSUME OneCommand, Typed, Consistent, NEW p \in Process, NEW watch \in BOOLEAN,
         CheckStatus(p, watch)
  PROVE  Consistent'
<1>0. /\ UNCHANGED <<workflow, outstanding, record, request, task, launched,
                     approvals>>
      /\ FilesAgree /\ NothingForgotten /\ outstanding \in Run
      /\ task[outstanding] \in Terminal
  BY DEF CheckStatus, files, endpoint, Consistent
<1>1. /\ cli'[p].pc = "load" /\ cli'[p].run = outstanding
      /\ cli'[p].out = outstanding /\ cli'[p].ans = TaskOf(outstanding)
  BY DEF CheckStatus, Loaded, Typed, CliType, Command
<1>2. cli'[p].ans.state = task[outstanding]
  BY <1>1 DEF TaskOf
<1>3. CopiesTrue'
  BY <1>0, <1>1, <1>2, ReadTrue
<1>. QED
  BY <1>0, <1>3, FilesSame DEF Consistent

LEMMA CancelRunTrue ==
  ASSUME OneCommand, Typed, Consistent, NEW p \in Process, CancelRun(p)
  PROVE  Consistent'
<1>0. /\ UNCHANGED <<workflow, outstanding, record, request, launched, approvals>>
      /\ FilesAgree /\ NothingForgotten /\ CopiesTrue /\ outstanding \in Run
      /\ cli[p].pc = "idle"
  BY DEF CancelRun, At, files, Consistent
<1>1. task[outstanding] \in Open
  BY DEF CancelRun
<1>2. PICK state \in {"canceled", "failed", "recovery"} :
        task' = [task EXCEPT ![outstanding] = state]
  BY Zenon DEF CancelRun
<1>3. task'[outstanding] \in Terminal \cup {"recovery"}
  BY <1>0, <1>2, TypedFacts DEF Terminal
<1>4. TasksMove
  BY <1>0, <1>1, <1>2, TypedFacts DEF TasksMove
<1>5. FilesAgree' /\ NothingForgotten'
  BY <1>0, <1>4, TasksMoveKeeps
<1>6. CASE UNCHANGED cli
  BY <1>0, <1>4, <1>5, <1>6, TasksMoveCopies DEF Consistent
<1>7. CASE cli' = [cli EXCEPT ![p] =
             [Loaded(p) EXCEPT !.pc = "load",
                !.ans = [state |-> task'[outstanding],
                         report |-> report'[outstanding],
                         launched |-> launched[outstanding]]]]
  <2>1. /\ cli'[p].pc = "load" /\ cli'[p].run = outstanding
        /\ cli'[p].out = outstanding /\ cli'[p].ans.state = task'[outstanding]
    BY <1>7 DEF Loaded, Typed, CliType, Command
  <2>2. CopiesTrue'
    BY <1>0, <1>3, <2>1, ReadTrue
  <2>. QED
    BY <1>5, <2>2 DEF Consistent
<1>. QED
  BY <1>6, <1>7, Zenon DEF CancelRun

LEMMA DeliveryTrue ==
  ASSUME OneCommand, Typed, Consistent, NEW p \in Process, Delivery(p)
  PROVE  Consistent'
BY ExecuteTrue, AdoptTrue, SaveOutstandingTrue, SubmitTrue, AckTrue, WaitTrue,
   ResumeTrue, CheckStatusTrue, CancelRunTrue DEF Delivery

-----------------------------------------------------------------------------
(* _reconcile                                                              *)

LEMMA LoadTrue ==
  ASSUME OneCommand, Typed, Consistent, NEW p \in Process, Load(p)
  PROVE  Consistent'
<1>0. /\ UNCHANGED <<workflow, outstanding, record, request, task, launched,
                     approvals>>
      /\ FilesAgree /\ NothingForgotten /\ cli[p].pc = "load"
  BY DEF Load, At, files, endpoint, Consistent
<1>1. /\ outstanding = cli[p].run /\ cli[p].run \in Run
      /\ cli[p].out = cli[p].run /\ StillTrue(cli[p].ans, cli[p].run)
  BY <1>0, CopiesHere DEF Consistent, DispatchTrue, Aiming, Pointing
<1>. DEFINE ans == cli[p].ans
            outcome == OutcomeOf(ans)
            out == IF cli[p].execute /\ outstanding # NoRun THEN outstanding
                   ELSE cli[p].out
            next == IF outcome = "rejected" THEN "release"
                    ELSE IF SaysStarted(ans) \/ outcome \in Terminal THEN "consume"
                    ELSE IF outcome = "recovery" THEN "hold"
                    ELSE "idle"
            c == [cli[p] EXCEPT !.pc = next, !.wf = workflow, !.out = out,
                                !.outcome = outcome]
<1>2. cli'[p] = IF next = "idle" THEN Done ELSE c
  BY DEF Load, Typed, CliType
<1>3. /\ c.pc = next /\ c.wf = workflow /\ c.out = out /\ c.outcome = outcome
  <2>. HIDE DEF next, out, outcome
  <2>. QED
    BY DEF Typed, CliType, Command
<1>4. out = outstanding /\ outstanding \in Run
  BY <1>1
<1>5. /\ outcome \in Terminal => outcome = ans.state /\ task[outstanding] = outcome
      /\ outcome # "rejected" => ans.state # "rejected"
  BY <1>1 DEF OutcomeOf, worker_stop_confirmed, StillTrue, Terminal
<1>6. /\ outcome = "rejected" => task[outstanding] = "rejected"
      /\ outcome # "rejected" =>
           task[outstanding] \notin {"none", "submitted", "rejected"}
  BY <1>1, <1>5 DEF StillTrue, Terminal
<1>7. next \in {"release", "consume", "hold", "idle"}
      /\ (next = "release" => outcome = "rejected")
      /\ (next \in {"consume", "hold"} => outcome # "rejected")
      /\ (next = "hold" => outcome = "recovery")
  OBVIOUS
<1>. HIDE DEF c, next, out, outcome
<1>8. CASE next = "idle"
  <2>1. cli'[p].pc \in Quiet
    BY <1>2, <1>8 DEF Done, Quiet
  <2>. QED
    BY <1>0, <2>1, QuietTrue, FilesSame DEF Consistent
<1>9. CASE next # "idle"
  <2>1. cli'[p] = c
    BY <1>2, <1>9
  <2>2. ReconcileTrue(cli[p])'
    BY <1>0, <1>3, <1>4, <1>5, <1>6, <1>7, <1>9, <2>1
       DEF ReconcileTrue, Reconciling
  <2>3. CopiesTrue'
    BY <1>3, <1>7, <1>9, <2>1, <2>2, AtReconcile DEF Reconciling
  <2>. QED
    BY <1>0, <2>3, FilesSame DEF Consistent
<1>. QED
  BY <1>8, <1>9

\* What a command in _reconcile knows: its workflow is the active one.
LEMMA ReconcilesActive ==
  ASSUME Typed, Consistent, NEW p \in Process, cli[p].pc \in Reconciling
  PROVE  /\ outstanding = cli[p].out /\ cli[p].out \in Run
         /\ Active(workflow) /\ workflow \in Workflow /\ workflow.id # 0
         /\ workflow # NoWorkflow /\ outstanding # NoRun
         /\ request[cli[p].out].workflow = workflow.id
         /\ ReconcileTrue(cli[p])
<1>1. ReconcileTrue(cli[p]) /\ FilesAgree /\ workflow \in Workflow /\ approvals \in Nat
  BY CopiesHere, TypedFacts DEF Consistent
<1>2. outstanding = cli[p].out /\ cli[p].out \in Run
  BY <1>1 DEF ReconcileTrue
<1>3. Active(workflow) /\ request[cli[p].out].workflow = workflow.id
  BY <1>1, <1>2 DEF FilesAgree
<1>4. workflow.id # 0
  BY <1>1, <1>3 DEF FilesAgree, Active
<1>. QED
  BY <1>1, <1>2, <1>3, <1>4, WorkflowAssumption DEF Active

LEMMA ReleaseReservationTrue ==
  ASSUME OneCommand, Typed, Consistent, NEW p \in Process, ReleaseReservation(p)
  PROVE  Consistent'
<1>0. /\ UNCHANGED <<outstanding, record, request, task, launched, approvals>>
      /\ FilesAgree /\ NothingForgotten /\ cli[p].pc = "release"
      /\ workflow' = IF cli[p].wf.reserved = cli[p].out
                     THEN Unreserved(cli[p].wf, cli[p].out) ELSE workflow
      /\ Goto(p, "clear")
  BY DEF ReleaseReservation, At, endpoint, Consistent
<1>1. /\ outstanding = cli[p].out /\ cli[p].out \in Run /\ workflow.id # 0
      /\ workflow \in Workflow /\ workflow # NoWorkflow /\ ReconcileTrue(cli[p])
  BY <1>0, ReconcilesActive DEF Reconciling
<1>2. cli[p].wf = workflow /\ task[cli[p].out] = "rejected"
  BY <1>0, <1>1 DEF ReconcileTrue, Reconciling
<1>3. /\ workflow' \in Workflow /\ workflow'.id = workflow.id
      /\ workflow'.consumed = workflow.consumed
      /\ workflow'.closed = workflow.closed
  <2>1. CASE workflow' = Unreserved(workflow, cli[p].out)
    BY <1>1, <2>1, UnreservedTyped, ConsumedFields
  <2>2. CASE workflow' = workflow
    BY <1>1, <2>2
  <2>. QED
    BY <1>0, <1>2, <2>1, <2>2
<1>4. workflow' # NoWorkflow
  BY <1>1, <1>3 DEF NoWorkflow
<1>5. FilesAgree' /\ NothingForgotten'
  BY <1>0, <1>1, <1>2, <1>3, <1>4, WorkflowKeeps
<1>6. cli'[p].pc = "clear" /\ cli'[p].out = cli[p].out
  BY <1>0, GotoCell
<1>7. ReconcileTrue(cli[p])'
  BY <1>0, <1>1, <1>2, <1>6 DEF ReconcileTrue, Reconciling, Terminal
<1>8. CopiesTrue'
  BY <1>6, <1>7, AtReconcile DEF Reconciling
<1>. QED
  BY <1>5, <1>8 DEF Consistent

LEMMA ConsumeRoundTrue ==
  ASSUME OneCommand, Typed, Consistent, NEW p \in Process, ConsumeRound(p)
  PROVE  Consistent'
<1>0. /\ UNCHANGED <<outstanding, record, request, task, launched, approvals>>
      /\ FilesAgree /\ NothingForgotten /\ cli[p].pc = "consume"
      /\ workflow' = Consumed(cli[p].wf, cli[p].out)
  BY DEF ConsumeRound, At, endpoint, Consistent
<1>1. /\ outstanding = cli[p].out /\ cli[p].out \in Run /\ workflow.id # 0
      /\ workflow \in Workflow /\ workflow # NoWorkflow /\ ReconcileTrue(cli[p])
  BY <1>0, ReconcilesActive DEF Reconciling
<1>2. /\ cli[p].wf = workflow /\ cli[p].outcome # "rejected"
      /\ cli[p].outcome \in Terminal => task[cli[p].out] = cli[p].outcome
  BY <1>0, <1>1 DEF ReconcileTrue, Reconciling
<1>3. /\ workflow' \in Workflow /\ workflow'.id = workflow.id
      /\ workflow'.consumed = workflow.consumed \cup {cli[p].out}
      /\ workflow'.closed = workflow.closed
  BY <1>0, <1>1, <1>2, ConsumedTyped, ConsumedFields
<1>4. workflow' # NoWorkflow
  BY <1>1, <1>3 DEF NoWorkflow
<1>5. FilesAgree' /\ NothingForgotten'
  BY <1>0, <1>1, <1>3, <1>4, WorkflowKeeps
<1>6. /\ cli'[p].pc = "reload" /\ cli'[p].out = cli[p].out
      /\ cli'[p].wf = workflow' /\ cli'[p].outcome = cli[p].outcome
  BY DEF ConsumeRound, Typed, CliType, Command
<1>7. ReconcileTrue(cli[p])'
  BY <1>0, <1>1, <1>2, <1>3, <1>6 DEF ReconcileTrue, Reconciling
<1>8. CopiesTrue'
  BY <1>6, <1>7, AtReconcile DEF Reconciling
<1>. QED
  BY <1>5, <1>8 DEF Consistent

LEMMA ReloadTrue ==
  ASSUME OneCommand, Typed, Consistent, NEW p \in Process, Reload(p)
  PROVE  Consistent'
<1>0. /\ UNCHANGED <<workflow, outstanding, record, request, task, launched,
                     approvals>>
      /\ FilesAgree /\ NothingForgotten /\ cli[p].pc \in {"reload", "reheld"}
  BY DEF Reload, files, endpoint, Consistent
<1>1. /\ outstanding = cli[p].out /\ cli[p].out \in Run
      /\ workflow # NoWorkflow /\ ReconcileTrue(cli[p])
  BY <1>0, ReconcilesActive DEF Reconciling
<1>2. /\ cli[p].out \in workflow.consumed /\ cli[p].outcome # "rejected"
      /\ cli[p].outcome \in Terminal => task[cli[p].out] = cli[p].outcome
  BY <1>0, <1>1 DEF ReconcileTrue, Reconciling
<1>3. /\ cli'[p].pc \in {"hold", "settle"} /\ cli'[p].out = cli[p].out
      /\ cli'[p].wf = workflow /\ cli'[p].outcome = cli[p].outcome
  BY <1>1 DEF Reload, Typed, CliType, Command
<1>4. ReconcileTrue(cli[p])'
  BY <1>0, <1>1, <1>2, <1>3 DEF ReconcileTrue, Reconciling
<1>5. CopiesTrue'
  BY <1>3, <1>4, AtReconcile DEF Reconciling
<1>. QED
  BY <1>0, <1>5, FilesSame DEF Consistent

LEMMA SetHoldTrue ==
  ASSUME OneCommand, Typed, Consistent, NEW p \in Process, SetHold(p)
  PROVE  Consistent'
<1>0. /\ UNCHANGED <<outstanding, record, request, task, launched, approvals>>
      /\ FilesAgree /\ NothingForgotten /\ cli[p].pc = "hold"
      /\ workflow' = [cli[p].wf EXCEPT !.hold = TRUE]
      /\ IF cli[p].outcome = "recovery" THEN Ends(p) ELSE Goto(p, "reheld")
  BY DEF SetHold, At, endpoint, Consistent
<1>1. /\ outstanding = cli[p].out /\ cli[p].out \in Run /\ workflow.id # 0
      /\ workflow \in Workflow /\ workflow # NoWorkflow /\ ReconcileTrue(cli[p])
  BY <1>0, ReconcilesActive DEF Reconciling
<1>2. /\ cli[p].wf = workflow /\ cli[p].outcome # "rejected"
      /\ cli[p].outcome \in Terminal => task[cli[p].out] = cli[p].outcome
      /\ cli[p].outcome # "recovery" => cli[p].out \in workflow.consumed
  BY <1>0, <1>1 DEF ReconcileTrue, Reconciling
<1>3. /\ workflow' \in Workflow /\ workflow'.id = workflow.id
      /\ workflow'.consumed = workflow.consumed
      /\ workflow'.closed = workflow.closed
      /\ workflow'.reserved = workflow.reserved
  <2>1. workflow' = [workflow EXCEPT !.hold = TRUE]
    BY <1>0, <1>2
  <2>. QED
    BY <1>1, <2>1, WorkflowValues, WorkflowFields
<1>4. workflow' # NoWorkflow
  BY <1>1, <1>3 DEF NoWorkflow
<1>5. FilesAgree' /\ NothingForgotten'
  BY <1>0, <1>1, <1>3, <1>4, WorkflowKeeps
<1>6. CASE cli[p].outcome = "recovery"
  BY <1>0, <1>5, <1>6, EndsTrue DEF Consistent
<1>7. CASE cli[p].outcome # "recovery" /\ Goto(p, "reheld")
  <2>1. /\ cli'[p].pc = "reheld" /\ cli'[p].out = cli[p].out
        /\ cli'[p].outcome = cli[p].outcome
    BY <1>7, GotoCell
  <2>2. ReconcileTrue(cli[p])'
    BY <1>0, <1>1, <1>2, <1>3, <1>7, <2>1 DEF ReconcileTrue, Reconciling
  <2>3. CopiesTrue'
    BY <2>1, <2>2, AtReconcile DEF Reconciling
  <2>. QED
    BY <1>5, <2>3 DEF Consistent
<1>. QED
  BY <1>0, <1>6, <1>7

LEMMA SettleTrue ==
  ASSUME OneCommand, Typed, Consistent, NEW p \in Process, Settle(p)
  PROVE  Consistent'
<1>0. /\ UNCHANGED <<workflow, outstanding, record, request, task, launched,
                     approvals>>
      /\ FilesAgree /\ NothingForgotten /\ cli[p].pc = "settle"
  BY DEF Settle, At, endpoint, Consistent
<1>1. /\ outstanding = cli[p].out /\ cli[p].out \in Run /\ ReconcileTrue(cli[p])
  BY <1>0, ReconcilesActive DEF Reconciling
<1>2. /\ cli[p].wf = workflow /\ cli[p].outcome # "rejected"
      /\ cli[p].outcome \in Terminal => task[cli[p].out] = cli[p].outcome
      /\ cli[p].out \in workflow.consumed
  BY <1>0, <1>1 DEF ReconcileTrue, Reconciling
<1>3. \/ Ends(p)
      \/ cli[p].outcome \in Terminal /\ Goto(p, "finish")
  BY DEF Settle, Terminal
<1>4. CASE cli[p].outcome \in Terminal /\ Goto(p, "finish")
  <2>1. /\ cli'[p].pc = "finish" /\ cli'[p].out = cli[p].out
        /\ cli'[p].outcome = cli[p].outcome /\ cli'[p].wf = cli[p].wf
    BY <1>4, GotoCell
  <2>2. ReconcileTrue(cli[p])'
    BY <1>0, <1>1, <1>2, <1>4, <2>1 DEF ReconcileTrue, Reconciling
  <2>3. CopiesTrue'
    BY <2>1, <2>2, AtReconcile DEF Reconciling
  <2>. QED
    BY <1>0, <2>3, FilesSame DEF Consistent
<1>. QED
  BY <1>0, <1>3, <1>4, FilesSame, EndsTrue DEF Consistent

LEMMA FinishTrue ==
  ASSUME OneCommand, Typed, Consistent, NEW p \in Process, Finish(p)
  PROVE  Consistent'
<1>0. /\ UNCHANGED <<outstanding, record, request, task, launched, approvals>>
      /\ FilesAgree /\ NothingForgotten /\ cli[p].pc = "finish"
      /\ workflow' = [cli[p].wf EXCEPT !.last = cli[p].outcome]
      /\ Goto(p, "clear")
  BY DEF Finish, At, endpoint, Consistent
<1>1. /\ outstanding = cli[p].out /\ cli[p].out \in Run /\ workflow.id # 0
      /\ workflow \in Workflow /\ workflow # NoWorkflow /\ ReconcileTrue(cli[p])
  BY <1>0, ReconcilesActive DEF Reconciling
<1>2. /\ cli[p].wf = workflow /\ cli[p].outcome \in Terminal
      /\ task[cli[p].out] = cli[p].outcome /\ cli[p].out \in workflow.consumed
  BY <1>0, <1>1 DEF ReconcileTrue, Reconciling
<1>3. cli[p].outcome \in Outcomes
  BY CopiesTyped DEF Typed
<1>4. /\ workflow' \in Workflow /\ workflow'.id = workflow.id
      /\ workflow'.consumed = workflow.consumed
      /\ workflow'.closed = workflow.closed
      /\ workflow'.reserved = workflow.reserved
  BY <1>0, <1>1, <1>2, <1>3, WorkflowValues, WorkflowFields
<1>5. workflow' # NoWorkflow
  BY <1>1, <1>4 DEF NoWorkflow
<1>6. FilesAgree' /\ NothingForgotten'
  BY <1>0, <1>1, <1>4, <1>5, WorkflowKeeps
<1>7. cli'[p].pc = "clear" /\ cli'[p].out = cli[p].out
  BY <1>0, GotoCell
<1>8. ReconcileTrue(cli[p])'
  BY <1>0, <1>1, <1>2, <1>4, <1>7 DEF ReconcileTrue, Reconciling
<1>9. CopiesTrue'
  BY <1>7, <1>8, AtReconcile DEF Reconciling
<1>. QED
  BY <1>6, <1>9 DEF Consistent

LEMMA ClearOutstandingTrue ==
  ASSUME OneCommand, Typed, Consistent, NEW p \in Process, ClearOutstanding(p)
  PROVE  Consistent' /\ outstanding \in Run /\ task[outstanding] \in Terminal
<1>0. /\ UNCHANGED <<workflow, record, request, task, launched, approvals>>
      /\ FilesAgree /\ NothingForgotten /\ cli[p].pc = "clear"
      /\ outstanding' = NoRun
  BY DEF ClearOutstanding, At, endpoint, Consistent
<1>1. /\ outstanding = cli[p].out /\ cli[p].out \in Run /\ ReconcileTrue(cli[p])
  BY <1>0, ReconcilesActive DEF Reconciling
<1>2. /\ task[outstanding] \in Terminal
      /\ task[outstanding] = "rejected" \/ outstanding \in workflow.consumed
  BY <1>0, <1>1 DEF ReconcileTrue
<1>3. FilesAgree'
  BY <1>0, WorkflowAssumption DEF FilesAgree, Active
<1>4. NothingForgotten'
  BY <1>0, <1>2 DEF NothingForgotten
<1>5. cli'[p].pc \in {"notice", "idle"}
  BY DEF ClearOutstanding, Ends, Done, Typed, CliType
<1>6. CopiesTrue'
  BY <1>5, QuietTrue DEF Quiet
<1>. QED
  BY <1>1, <1>2, <1>3, <1>4, <1>6 DEF Consistent

LEMMA NoticeTrue ==
  ASSUME OneCommand, Typed, Consistent, NEW p \in Process, Notice(p)
  PROVE  Consistent'
<1>0. /\ UNCHANGED <<workflow, outstanding, record, request, task, launched,
                     approvals>>
      /\ FilesAgree /\ NothingForgotten
  BY DEF Notice, files, endpoint, Consistent
<1>1. CASE cli' = [cli EXCEPT ![p].pc = "notify", ![p].wf = workflow]
  <2>1. cli'[p].pc = "notify" /\ cli'[p].wf = workflow
    BY <1>1 DEF Typed, CliType, Command
  <2>2. ClosingTrue(cli[p])'
    BY <1>0, <2>1 DEF ClosingTrue
  <2>3. CopiesTrue'
    BY <2>1, <2>2, AtClosing
  <2>. QED
    BY <1>0, <2>3, FilesSame DEF Consistent
<1>2. CASE Ends(p)
  BY <1>0, <1>2, FilesSame, EndsTrue DEF Consistent
<1>. QED
  BY <1>1, <1>2, Zenon DEF Notice

LEMMA NotifyTrue ==
  ASSUME OneCommand, Typed, Consistent, NEW p \in Process, Notify(p)
  PROVE  Consistent' /\ UNCHANGED workflow
<1>0. /\ UNCHANGED <<outstanding, record, request, task, launched, approvals>>
      /\ FilesAgree /\ NothingForgotten /\ cli[p].pc = "notify"
      /\ workflow' = cli[p].wf /\ Ends(p)
  BY DEF Notify, At, endpoint, Consistent
<1>1. UNCHANGED workflow
  BY <1>0, CopiesHere DEF Consistent, ClosingTrue
<1>. QED
  BY <1>0, <1>1, FilesSame, EndsTrue DEF Consistent

LEMMA ReconcileStep ==
  ASSUME OneCommand, Typed, Consistent, NEW p \in Process, Reconcile(p)
  PROVE  Consistent'
BY LoadTrue, ReleaseReservationTrue, ConsumeRoundTrue, ReloadTrue, SetHoldTrue,
   SettleTrue, FinishTrue, ClearOutstandingTrue, NoticeTrue, NotifyTrue
   DEF Reconcile

-----------------------------------------------------------------------------
(* qa, archive, and execute of bin/handoff                                 *)

LEMMA ArchiveTrue ==
  ASSUME OneCommand, Typed, Consistent, NEW p \in Process,
         NEW superseded \in BOOLEAN, Archive(p, superseded)
  PROVE  Consistent'
<1>0. /\ UNCHANGED <<workflow, outstanding, record, request, task, launched,
                     approvals>>
      /\ FilesAgree /\ NothingForgotten /\ outstanding = NoRun
  BY DEF Archive, files, endpoint, Consistent
<1>1. /\ cli'[p].pc = IF workflow = NoWorkflow THEN "append" ELSE "close"
      /\ cli'[p].wf = [workflow EXCEPT !.closed = workflow # NoWorkflow]
  <2>. DEFINE place == IF workflow = NoWorkflow THEN "append" ELSE "close"
              w == [workflow EXCEPT !.closed = workflow # NoWorkflow]
  <2>1. cli' = [cli EXCEPT ![p].pc = place, ![p].wf = w, ![p].doc = handoff]
    BY DEF Archive
  <2>. HIDE DEF place, w
  <2>2. cli'[p].pc = place /\ cli'[p].wf = w
    BY <2>1 DEF Typed, CliType, Command
  <2>. QED
    BY <2>2 DEF place, w
<1>2. workflow # NoWorkflow => cli'[p].wf = [workflow EXCEPT !.closed = TRUE]
  <2>1. ASSUME workflow # NoWorkflow
        PROVE  cli'[p].wf = [workflow EXCEPT !.closed = TRUE]
    <3>1. (workflow # NoWorkflow) = TRUE
      BY <2>1
    <3>. QED
      BY <1>1, <3>1, Zenon
  <2>. QED
    BY <2>1
<1>3. ClosingTrue(cli[p])'
  BY <1>0, <1>1, <1>2 DEF ClosingTrue
<1>4. CopiesTrue'
  BY <1>1, <1>3, AtClosing
<1>. QED
  BY <1>0, <1>4, FilesSame DEF Consistent

LEMMA CloseWorkflowTrue ==
  ASSUME OneCommand, Typed, Consistent, NEW p \in Process, CloseWorkflow(p)
  PROVE  Consistent' /\ (workflow'.id = workflow.id => workflow'.hold = workflow.hold)
<1>0. /\ UNCHANGED <<outstanding, record, request, task, launched, approvals>>
      /\ FilesAgree /\ NothingForgotten /\ cli[p].pc = "close"
      /\ workflow' = cli[p].wf /\ Goto(p, "append")
  BY DEF CloseWorkflow, At, endpoint, Consistent
<1>1. /\ outstanding = NoRun /\ workflow # NoWorkflow
      /\ workflow' = [workflow EXCEPT !.closed = TRUE]
      /\ workflow \in Workflow /\ approvals \in Nat
  BY <1>0, CopiesHere, TypedFacts DEF Consistent, ClosingTrue
<1>2. /\ workflow' \in Workflow /\ workflow'.id = workflow.id
      /\ workflow'.consumed = workflow.consumed /\ workflow'.hold = workflow.hold
  BY <1>1, WorkflowValues, WorkflowFields
<1>3. workflow' # NoWorkflow
  BY <1>0, <1>1, <1>2 DEF NoWorkflow, FilesAgree
<1>4. FilesAgree' /\ NothingForgotten'
  BY <1>0, <1>1, <1>2, <1>3, WorkflowKeeps
<1>5. cli'[p].pc = "append"
  BY <1>0, GotoCell
<1>6. ClosingTrue(cli[p])'
  BY <1>0, <1>1, <1>5 DEF ClosingTrue
<1>7. CopiesTrue'
  BY <1>5, <1>6, AtClosing
<1>. QED
  BY <1>2, <1>4, <1>7 DEF Consistent

LEMMA AppendArchiveTrue ==
  ASSUME OneCommand, Typed, Consistent, NEW p \in Process, AppendArchive(p)
  PROVE  Consistent'
<1>0. /\ UNCHANGED <<workflow, outstanding, record, request, task, launched,
                     approvals>>
      /\ FilesAgree /\ NothingForgotten /\ cli[p].pc = "append"
      /\ Goto(p, "remove")
  BY DEF AppendArchive, At, endpoint, Consistent
<1>1. outstanding = NoRun
  BY <1>0, CopiesHere DEF Consistent, ClosingTrue
<1>2. cli'[p].pc = "remove"
  BY <1>0, GotoCell
<1>3. ClosingTrue(cli[p])'
  BY <1>0, <1>1, <1>2 DEF ClosingTrue
<1>4. CopiesTrue'
  BY <1>2, <1>3, AtClosing
<1>. QED
  BY <1>0, <1>4, FilesSame DEF Consistent

LEMMA RemoveWorkflowTrue ==
  ASSUME OneCommand, Typed, Consistent, NEW p \in Process, RemoveWorkflow(p)
  PROVE  Consistent'
<1>0. /\ UNCHANGED <<outstanding, record, request, task, launched, approvals>>
      /\ FilesAgree /\ NothingForgotten /\ cli[p].pc = "remove"
      /\ workflow' = NoWorkflow /\ Ends(p)
  BY DEF RemoveWorkflow, At, endpoint, Consistent
<1>1. outstanding = NoRun
  BY <1>0, CopiesHere DEF Consistent, ClosingTrue
<1>2. \A r \in Run : record[r] # "none" => request[r].workflow # workflow'.id
  BY <1>0 DEF FilesAgree, NoWorkflow
<1>3. FilesAgree' /\ NothingForgotten'
  BY <1>0, <1>1, <1>2, WorkflowStarts
<1>. QED
  BY <1>0, <1>3, EndsTrue DEF Consistent

LEMMA ClosingStep ==
  ASSUME OneCommand, Typed, Consistent, NEW p \in Process, Closing(p)
  PROVE  Consistent'
<1>1. ASSUME NEW verdict \in {"APPROVED", "CHANGES REQUESTED"}, QA(p, verdict)
      PROVE  Consistent'
  <2>1. /\ UNCHANGED <<workflow, outstanding, record, request, task, launched,
                       approvals>>
        /\ FilesAgree /\ NothingForgotten
    BY <1>1 DEF QA, files, endpoint, Consistent
  <2>2. /\ cli'[p].pc = "verdict"
        /\ cli'[p].doc = [handoff EXCEPT !.status = verdict]
    BY <1>1 DEF QA, Typed, CliType, Command
  <2>3. cli'[p].doc.status = verdict
    BY <2>2, TypedFacts DEF Handoff
  <2>4. ClosingTrue(cli[p])'
    BY <2>2, <2>3 DEF ClosingTrue
  <2>5. CopiesTrue'
    BY <2>2, <2>4, AtClosing
  <2>. QED
    BY <2>1, <2>5, FilesSame DEF Consistent
<1>2. ASSUME WriteVerdict(p)
      PROVE  Consistent'
  <2>1. /\ UNCHANGED <<workflow, outstanding, record, request, task, launched,
                       approvals>>
        /\ FilesAgree /\ NothingForgotten /\ Ends(p)
    BY <1>2 DEF WriteVerdict, endpoint, Consistent
  <2>. QED
    BY <2>1, EndsTrue, FilesSame DEF Consistent
<1>. QED
  BY <1>1, <1>2, ArchiveTrue, CloseWorkflowTrue, AppendArchiveTrue,
     RemoveWorkflowTrue DEF Closing

LEMMA LegacyReadWorkflowTrue ==
  ASSUME OneCommand, Typed, Consistent, NEW p \in Process, LegacyReadWorkflow(p)
  PROVE  Consistent'
<1>0. /\ UNCHANGED <<workflow, outstanding, record, request, task, launched,
                     approvals>>
      /\ FilesAgree /\ NothingForgotten
  BY DEF LegacyReadWorkflow, files, endpoint, Consistent
<1>1. /\ cli'[p].pc = IF workflow = NoWorkflow THEN "run" ELSE "lift"
      /\ cli'[p].wf = [workflow EXCEPT !.hold = FALSE]
  <2>. DEFINE place == IF workflow = NoWorkflow THEN "run" ELSE "lift"
              w == [workflow EXCEPT !.hold = FALSE]
  <2>1. cli' = [cli EXCEPT ![p].pc = place, ![p].wf = w]
    BY DEF LegacyReadWorkflow
  <2>. HIDE DEF place, w
  <2>2. cli'[p].pc = place /\ cli'[p].wf = w
    BY <2>1 DEF Typed, CliType, Command
  <2>. QED
    BY <2>2 DEF place, w
<1>2. CASE workflow = NoWorkflow
  <2>1. cli'[p].pc = "run"
    BY <1>1, <1>2
  <2>. QED
    BY <1>0, <2>1, QuietTrue, FilesSame DEF Consistent, Quiet
<1>3. CASE workflow # NoWorkflow
  <2>1. ClosingTrue(cli[p])'
    BY <1>0, <1>1, <1>3 DEF ClosingTrue
  <2>2. CopiesTrue'
    BY <1>1, <1>3, <2>1, AtClosing
  <2>. QED
    BY <1>0, <2>2, FilesSame DEF Consistent
<1>. QED
  BY <1>2, <1>3

LEMMA LegacyLiftHoldTrue ==
  ASSUME OneCommand, Typed, Consistent, NEW p \in Process, LegacyLiftHold(p)
  PROVE  Consistent'
<1>0. /\ UNCHANGED <<outstanding, record, request, task, launched, approvals>>
      /\ FilesAgree /\ NothingForgotten /\ cli[p].pc = "lift"
      /\ workflow' = cli[p].wf
      /\ cli' = [cli EXCEPT ![p].pc = "run", ![p].wf = NoWorkflow]
  BY DEF LegacyLiftHold, At, endpoint, Consistent
<1>1. /\ workflow # NoWorkflow /\ workflow' = [workflow EXCEPT !.hold = FALSE]
      /\ workflow \in Workflow /\ approvals \in Nat
  BY <1>0, CopiesHere, TypedFacts DEF Consistent, ClosingTrue
<1>2. /\ workflow' \in Workflow /\ workflow'.id = workflow.id
      /\ workflow'.consumed = workflow.consumed
      /\ workflow'.closed = workflow.closed
      /\ workflow'.reserved = workflow.reserved
  BY <1>1, WorkflowValues, WorkflowFields
<1>3. workflow' # NoWorkflow
  BY <1>0, <1>1, <1>2 DEF NoWorkflow, FilesAgree
<1>4. FilesAgree' /\ NothingForgotten'
  BY <1>0, <1>1, <1>2, <1>3, WorkflowKeeps
<1>5. cli'[p].pc = "run"
  BY <1>0 DEF Typed, CliType, Command
<1>. QED
  BY <1>4, <1>5, QuietTrue DEF Consistent, Quiet

LEMMA LegacyTrue ==
  ASSUME OneCommand, Typed, Consistent, NEW p \in Process, Legacy(p)
  PROVE  Consistent'
<1>1. ASSUME \/ LegacyExecute(p) \/ LegacyTakeSubmit(p) \/ LegacyRecheck(p)
             \/ LegacyTakeExecute(p) \/ LegacyGiveSubmit(p) \/ LegacyHeld(p)
             \/ LegacyExit(p)
      PROVE  Consistent'
  <2>1. /\ UNCHANGED <<workflow, outstanding, record, request, task, launched,
                       approvals>>
        /\ FilesAgree /\ NothingForgotten
    BY <1>1 DEF LegacyExecute, LegacyTakeSubmit, LegacyRecheck,
       LegacyTakeExecute, LegacyGiveSubmit, LegacyHeld, LegacyExit, files,
       endpoint, Consistent
  <2>2. Ends(p) \/ \E place \in Quiet : Goto(p, place)
    BY <1>1 DEF LegacyExecute, LegacyTakeSubmit, LegacyRecheck,
       LegacyTakeExecute, LegacyGiveSubmit, LegacyHeld, LegacyExit, Quiet
  <2>. QED
    BY <2>1, <2>2, FilesSame, EndsTrue, GotoQuiet DEF Consistent
<1>. QED
  BY <1>1, LegacyReadWorkflowTrue, LegacyLiftHoldTrue DEF Legacy

-----------------------------------------------------------------------------
(* Every step                                                              *)

LEMMA RunsSplit ==
  ASSUME NEW p \in Process, Runs(p)
  PROVE  \/ Approve(p) \/ ApproveSave(p) \/ Activate(p)
         \/ Submission(p) \/ Delivery(p) \/ Reconcile(p) \/ Closing(p)
         \/ Legacy(p) \/ LegacyWrites(p)
BY Zenon DEF Runs, Start, Step, Submission, Delivery, Reconcile, Closing, Legacy

LEMMA RunsTrue ==
  ASSUME OneCommand, Typed, Consistent, NEW p \in Process, Runs(p)
  PROVE  Consistent'
<1>2. CASE LegacyWrites(p)
  <2>1. UNCHANGED <<workflow, outstanding, record, request, approvals, cli, task,
                    launched>>
    BY <1>2 DEF LegacyWrites, planner
  <2>2. TasksMove
    BY <2>1 DEF TasksMove
  <2>. QED
    BY <2>1, <2>2, TasksMoveKeeps, TasksMoveCopies DEF Consistent
<1>. QED
  BY <1>2, RunsSplit, ApproveTrue, ApproveSaveTrue, ActivateTrue,
     SubmissionTrue, DeliveryTrue, ReconcileStep, ClosingStep, LegacyTrue

LEMMA EndpointTrue ==
  ASSUME Typed, Consistent, NEW r \in Run, Endpoint(r)
  PROVE  Consistent' /\ UNCHANGED planner
<1>1. UNCHANGED planner
  BY DEF Endpoint, Progress, Begin, Reject, Launch, ReportStart, FinishRun,
     Unlock, WorkerWrites, Restart
<1>2. UNCHANGED <<workflow, outstanding, record, request, approvals, cli>>
  BY <1>1 DEF planner
<1>3. TasksMove
  <2>. USE TypedFacts DEF TasksMove
  <2>1. {"submitted", "working", "recovery"} = Open
        /\ {"completed", "failed", "canceled", "recovery"}
             \cap {"none", "submitted", "rejected"} = {}
    BY DEF Open
  <2>2. CASE Begin(r)
    BY <2>1, <2>2 DEF Begin
  <2>3. CASE Reject(r)
    BY <2>1, <2>3 DEF Reject
  <2>4. CASE Launch(r)
    BY <2>1, <2>4 DEF Launch
  <2>5. CASE ReportStart(r) \/ Unlock(r) \/ WorkerWrites(r)
    BY <2>5 DEF ReportStart, Unlock, WorkerWrites
  <2>6. CASE FinishRun(r)
    BY <2>1, <2>6 DEF FinishRun
  <2>7. CASE Restart(r)
    BY <2>1, <2>7 DEF Restart
  <2>. QED
    BY <2>2, <2>3, <2>4, <2>5, <2>6, <2>7 DEF Endpoint, Progress
<1>. QED
  BY <1>1, <1>2, <1>3, TasksMoveKeeps, TasksMoveCopies DEF Consistent

LEMMA ElseTrue ==
  ASSUME OneCommand, Typed, Consistent,
         \/ \E p \in Process : Kill(p)
         \/ \E plan \in Plan : PlannerWrites(plan)
         \/ RemoveStaleLock
         \/ UNCHANGED vars
  PROVE  Consistent'
<1>1. UNCHANGED <<workflow, outstanding, record, request, task, launched,
                  approvals>>
  BY DEF Kill, PlannerWrites, RemoveStaleLock, vars, files, endpoint
<1>2. FilesAgree' /\ NothingForgotten'
  BY <1>1, FilesSame DEF Consistent
<1>3. UNCHANGED cli \/ \E p \in Process : Ends(p)
  BY DEF Kill, PlannerWrites, RemoveStaleLock, vars
<1>4. CASE UNCHANGED cli
  <2>1. TasksMove
    BY <1>1 DEF TasksMove
  <2>. QED
    BY <1>1, <1>2, <1>4, <2>1, TasksMoveCopies DEF Consistent
<1>. QED
  BY <1>2, <1>3, <1>4, EndsTrue DEF Consistent

LEMMA ConsistentInit == Init => Consistent
<1>. SUFFICES ASSUME Init
              PROVE  Consistent
  OBVIOUS
<1>1. FilesAgree
  <2>1. /\ workflow = NoWorkflow /\ outstanding = NoRun /\ approvals = 0
        /\ \A r \in Run : /\ record[r] = "none" /\ task[r] = "none"
                         /\ ~launched[r] /\ request[r] = NoRequest
    BY DEF Init
  <2>2. NoRequest.workflow = 0
    BY DEF NoRequest
  <2>. QED
    BY <2>1, <2>2, WorkflowAssumption DEF FilesAgree
<1>2. NothingForgotten
  BY DEF Init, NothingForgotten
<1>3. \A p \in Process : cli[p].pc = "idle"
  BY DEF Init, Done
<1>4. CopiesTrue
  BY <1>3 DEF CopiesTrue, DispatchTrue, ReconcileTrue, ApprovalTrue, ClosingTrue,
     Reconciling, Aiming, Pointing
<1>. QED
  BY <1>1, <1>2, <1>4 DEF Consistent

LEMMA NextSplit ==
  ASSUME [Next]_vars
  PROVE  \/ \E p \in Process : Runs(p)
         \/ \E r \in Run : Endpoint(r)
         \/ \E p \in Process : Kill(p)
         \/ \E plan \in Plan : PlannerWrites(plan)
         \/ RemoveStaleLock
         \/ UNCHANGED vars
BY DEF Next, Runs, Endpoint

LEMMA ConsistentStep ==
  ASSUME OneCommand, Typed, Consistent, [Next]_vars
  PROVE  Consistent'
BY NextSplit, RunsTrue, EndpointTrue, ElseTrue

LEMMA AlwaysConsistent ==
  ASSUME OneCommand
  PROVE  Spec => []Consistent
<1>1. Typed /\ Consistent /\ [Next]_vars => Consistent'
  BY ConsistentStep
<1>. QED
  BY <1>1, ConsistentInit, AlwaysTyped, PTL DEF Spec

-----------------------------------------------------------------------------
(* Who writes outstanding.json and workflow.json.                          *)

WritesWorkflow(p) ==
  \/ ApproveSave(p) \/ ClearHold(p) \/ ReserveRound(p) \/ ReleaseReservation(p)
  \/ ConsumeRound(p) \/ SetHold(p) \/ Finish(p) \/ Notify(p)
  \/ CloseWorkflow(p) \/ RemoveWorkflow(p) \/ LegacyLiftHold(p)

LEMMA WorkflowWriters ==
  ASSUME NEW p \in Process, Runs(p)
  PROVE  WritesWorkflow(p) \/ UNCHANGED workflow
<1>. USE DEF WritesWorkflow
<1>1. CASE Approve(p) \/ ApproveSave(p) \/ Activate(p) \/ LegacyWrites(p)
  BY <1>1 DEF Approve, Activate, LegacyWrites, planner, files
<1>2. CASE Submission(p)
  BY <1>2 DEF Submission, TakeSubmitLock, SubmissionRefused, CheckOnly, Prepare,
     Announce, ReleaseSubmitLock, files
<1>3. CASE Delivery(p)
  BY <1>3 DEF Delivery, Execute, Resume, CheckStatus, Adopt, SaveOutstanding,
     Submit, Ack, Wait, CancelRun, files
<1>4. CASE Reconcile(p)
  BY <1>4 DEF Reconcile, Load, Reload, Settle, ClearOutstanding, Notice, files
<1>5. CASE Closing(p)
  BY <1>5 DEF Closing, QA, Archive, WriteVerdict, AppendArchive, files
<1>6. CASE Legacy(p)
  BY <1>6 DEF Legacy, LegacyExecute, LegacyTakeSubmit, LegacyRecheck,
     LegacyTakeExecute, LegacyGiveSubmit, LegacyHeld, LegacyReadWorkflow,
     LegacyExit, files
<1>. QED
  BY <1>1, <1>2, <1>3, <1>4, <1>5, <1>6, RunsSplit

LEMMA PointerWriters ==
  ASSUME NEW p \in Process, Runs(p)
  PROVE  \/ Announce(p) \/ SaveOutstanding(p) \/ ClearOutstanding(p)
         \/ UNCHANGED outstanding
<1>1. CASE Approve(p) \/ ApproveSave(p) \/ Activate(p) \/ LegacyWrites(p)
  BY <1>1 DEF Approve, ApproveSave, Activate, LegacyWrites, planner, files
<1>2. CASE Submission(p)
  BY <1>2 DEF Submission, TakeSubmitLock, SubmissionRefused, CheckOnly, Prepare,
     ClearHold, ReserveRound, ReleaseSubmitLock, files
<1>3. CASE Delivery(p)
  BY <1>3 DEF Delivery, Execute, Resume, CheckStatus, Adopt, Submit, Ack, Wait,
     CancelRun, files
<1>4. CASE Reconcile(p)
  BY <1>4 DEF Reconcile, Load, ReleaseReservation, ConsumeRound, Reload, SetHold,
     Settle, Finish, Notice, Notify, files
<1>5. CASE Closing(p)
  BY <1>5 DEF Closing, QA, Archive, WriteVerdict, CloseWorkflow, AppendArchive,
     RemoveWorkflow, files
<1>6. CASE Legacy(p)
  BY <1>6 DEF Legacy, LegacyExecute, LegacyTakeSubmit, LegacyRecheck,
     LegacyTakeExecute, LegacyGiveSubmit, LegacyHeld, LegacyReadWorkflow,
     LegacyLiftHold, LegacyExit, files
<1>. QED
  BY <1>1, <1>2, <1>3, <1>4, <1>5, <1>6, RunsSplit

\* The steps of nobody's command write neither.
LEMMA ElseWrites ==
  ASSUME \/ \E r \in Run : Endpoint(r)
         \/ \E p \in Process : Kill(p)
         \/ \E plan \in Plan : PlannerWrites(plan)
         \/ RemoveStaleLock
         \/ UNCHANGED vars
  PROVE  UNCHANGED <<workflow, outstanding>>
<1>1. ASSUME NEW r \in Run, Endpoint(r)
      PROVE  UNCHANGED planner
  BY <1>1 DEF Endpoint, Progress, Begin, Reject, Launch, ReportStart, FinishRun,
     Unlock, WorkerWrites, Restart
<1>. QED
  BY <1>1 DEF Kill, PlannerWrites, RemoveStaleLock, vars, files, planner


\* With one command at a time, no crash makes the planner lose a run: an
\* execution that the endpoint knows and outstanding.json does not name is over
\* and was charged, unless it was rejected (_reconcile, cmd_execute_async).
THEOREM NothingForgottenHolds ==
  ASSUME OneCommand
  PROVE  Spec => []NothingForgotten
<1>1. Consistent => NothingForgotten
  BY DEF Consistent
<1>. QED
  BY <1>1, AlwaysConsistent, PTL

\* With one command at a time, outstanding.json and workflow.json agree about
\* the round of the outstanding run, wherever a command is killed.
THEOREM PointerReservedHolds ==
  ASSUME OneCommand
  PROVE  Spec => []PointerReserved
<1>1. Consistent => PointerReserved
  BY DEF Consistent, FilesAgree, PointerReserved
<1>. QED
  BY <1>1, AlwaysConsistent, PTL

\* With one command at a time, outstanding.json is removed only when its run is
\* over, as the implementation plan says.  (Two commands break this: see the run
\* FindingStaleReconcile.)
THEOREM ClearedWhenOverHolds ==
  ASSUME OneCommand
  PROVE  Spec => ClearedWhenOver
<1>1. Typed /\ Consistent /\ [Next]_vars =>
        [\A r \in Run : outstanding = r /\ outstanding' = NoRun =>
           task[r] \in Terminal]_vars
  <2>. SUFFICES ASSUME Typed, Consistent, Next, NEW r \in Run,
                       outstanding = r, outstanding' = NoRun
                PROVE  task[r] \in Terminal
    BY Zenon
  <2>1. PICK p \in Process : Runs(p)
    BY NextSplit, ElseWrites, WorkflowAssumption
  <2>2. ~Announce(p)
    BY CopiesHere, WorkflowAssumption
       DEF Announce, At, Consistent, DispatchTrue, Unsent
  <2>3. ~SaveOutstanding(p)
    BY CopiesHere, WorkflowAssumption
       DEF SaveOutstanding, Consistent, DispatchTrue, Aiming, Pointing
  <2>4. CASE ClearOutstanding(p)
    BY <2>4, ClearOutstandingTrue
  <2>. QED
    BY <2>1, <2>2, <2>3, <2>4, PointerWriters, WorkflowAssumption
<1>. QED
  BY <1>1, AlwaysTyped, AlwaysConsistent, PTL DEF Spec, ClearedWhenOver

-----------------------------------------------------------------------------
(* The dispatch hold.  bin/handoff lifts it too, so its execute is left out. *)

NoLegacy == \A p \in Process : cli[p].pc \notin LegacyPlaces

LEMMA ElseCommands ==
  ASSUME Typed, \/ \E r \in Run : Endpoint(r)
                \/ \E p \in Process : Kill(p)
                \/ \E plan \in Plan : PlannerWrites(plan)
                \/ RemoveStaleLock
                \/ UNCHANGED vars
  PROVE  \A p \in Process : cli'[p] = cli[p] \/ cli'[p].pc = "idle"
<1>1. ASSUME NEW r \in Run, Endpoint(r)
      PROVE  UNCHANGED cli
  BY <1>1 DEF Endpoint, Progress, Begin, Reject, Launch, ReportStart, FinishRun,
     Unlock, WorkerWrites, Restart, planner
<1>2. ASSUME NEW q \in Process, Kill(q)
      PROVE  \A p \in Process : cli'[p] = cli[p] \/ cli'[p].pc = "idle"
  BY <1>2, EndsCell DEF Kill, Ends, Typed, CliType
<1>. QED
  BY <1>1, <1>2 DEF PlannerWrites, RemoveStaleLock, vars

LEMMA AlwaysNoLegacy ==
  ASSUME "legacy" \notin Commands
  PROVE  Spec => []NoLegacy
<1>1. Init => NoLegacy
  BY DEF Init, Done, NoLegacy, LegacyPlaces, LegacySubmitting, LegacyExecuting
<1>2. Typed /\ NoLegacy /\ [Next]_vars => NoLegacy'
  <2>. SUFFICES ASSUME Typed, NoLegacy, [Next]_vars
                PROVE  NoLegacy'
    OBVIOUS
  <2>1. "idle" \notin LegacyPlaces
    BY DEF LegacyPlaces, LegacySubmitting, LegacyExecuting
  <2>2. ASSUME NEW p \in Process, Runs(p)
        PROVE  NoLegacy'
    BY <2>2, RunsLegacy DEF NoLegacy
  <2>. QED
    BY <2>1, <2>2, NextSplit, ElseCommands DEF NoLegacy
<1>. QED
  BY <1>1, <1>2, AlwaysTyped, PTL DEF Spec

\* A save keeps the hold of the workflow.
LEMMA SavesHold ==
  ASSUME OneCommand, Typed, Consistent, NEW p \in Process, WritesWorkflow(p),
         ~LegacyLiftHold(p), workflow.hold, workflow'.id = workflow.id,
         ~workflow'.hold
  PROVE  cli[p].pc = "unhold" /\ ~cli[p].watch
<1>1. /\ workflow \in Workflow /\ FilesAgree /\ DispatchTrue(cli[p])
      /\ ApprovalTrue(cli[p]) /\ approvals \in Nat /\ cli[p].wf \in Workflow
  BY CopiesHere, TypedFacts, CopiesTyped DEF Consistent, Typed
<1>2. ~NoWorkflow.hold /\ NoWorkflow.id = 0
  BY DEF NoWorkflow
<1>3. workflow # NoWorkflow /\ workflow.id # 0
  BY <1>1, <1>2 DEF FilesAgree
<1>4. CASE ClearHold(p)
  BY <1>1, <1>4 DEF ClearHold, At, DispatchTrue
<1>5. CASE ApproveSave(p)
  <2>1. workflow' = cli[p].wf /\ cli[p].pc = "approve"
    BY <1>5 DEF ApproveSave, At
  <2>2. CASE cli[p].wf = [workflow EXCEPT !.plan = cli[p].wf.plan]
    <3>. DEFINE plan == cli[p].wf.plan
    <3>1. plan \in Plan \cup {NoPlan} /\ workflow' = [workflow EXCEPT !.plan = plan]
      BY <1>1, <2>1, <2>2 DEF Workflow
    <3>. HIDE DEF plan
    <3>2. workflow'.hold = workflow.hold
      BY <1>1, <3>1, WorkflowFields
    <3>. QED
      BY <3>2
  <2>3. CASE /\ cli[p].wf = [NoWorkflow EXCEPT !.id = approvals,
                                               !.plan = cli[p].wf.plan]
             /\ workflow.id # approvals
    <3>1. workflow'.id = approvals
      BY <2>1, <2>3 DEF NoWorkflow
    <3>. QED
      BY <2>3, <3>1
  <2>. QED
    BY <1>1, <2>1, <2>2, <2>3, Zenon DEF ApprovalTrue
<1>6. CASE ReserveRound(p)
  <2>1. cli[p].wf = workflow /\ cli[p].run \in Run
    BY <1>1, <1>6 DEF ReserveRound, At, DispatchTrue, Unsent
  <2>2. workflow' = workflow \/ workflow' = [workflow EXCEPT !.reserved = cli[p].run]
    BY <1>6, <2>1 DEF ReserveRound
  <2>3. ASSUME workflow' = [workflow EXCEPT !.reserved = cli[p].run]
        PROVE  workflow'.hold = workflow.hold
    <3>. DEFINE r == cli[p].run
    <3>1. r \in Run /\ workflow' = [workflow EXCEPT !.reserved = r]
      BY <2>1, <2>3
    <3>. HIDE DEF r
    <3>. QED
      BY <1>1, <3>1, WorkflowFields
  <2>. QED
    BY <2>2, <2>3
<1>7. CASE ReleaseReservation(p) \/ ConsumeRound(p)
  <2>1. cli[p].wf = workflow /\ cli[p].out \in Run
    BY <1>7, CopiesHere DEF ReleaseReservation, ConsumeRound, At, Consistent,
       ReconcileTrue, Reconciling
  <2>2. \/ workflow' = workflow \/ workflow' = Unreserved(workflow, cli[p].out)
        \/ workflow' = Consumed(workflow, cli[p].out)
    BY <1>7, <2>1 DEF ReleaseReservation, ConsumeRound
  <2>. QED
    BY <1>1, <2>1, <2>2, ConsumedFields
<1>8. CASE SetHold(p)
  BY <1>1, <1>8, WorkflowFields DEF SetHold
<1>9. CASE Finish(p)
  <2>1. /\ cli[p].wf = workflow /\ cli[p].outcome \in Outcomes
    BY <1>9, CopiesHere, CopiesTyped DEF Finish, At, Consistent, ReconcileTrue,
       Reconciling, Typed
  <2>2. workflow' = [workflow EXCEPT !.last = cli[p].outcome]
    BY <1>9, <2>1 DEF Finish
  <2>. QED
    BY <1>1, <2>1, <2>2, WorkflowFields
<1>10. CASE Notify(p) \/ CloseWorkflow(p)
  BY <1>10, NotifyTrue, CloseWorkflowTrue
<1>11. CASE RemoveWorkflow(p)
  BY <1>2, <1>3, <1>11 DEF RemoveWorkflow
<1>. QED
  BY <1>4, <1>5, <1>6, <1>7, <1>8, <1>9, <1>10, <1>11 DEF WritesWorkflow

\* With one command at a time, none of them a legacy execute, only an explicit
\* execute lifts a dispatch hold: no save of an older copy, and no dispatch of
\* watch, drops it.
THEOREM HoldKeptHolds ==
  ASSUME OneCommand, "legacy" \notin Commands
  PROVE  Spec => HoldKept
<1>1. Typed /\ Consistent /\ NoLegacy /\ [Next]_vars =>
        [workflow.hold /\ workflow'.id = workflow.id /\ ~workflow'.hold =>
           \E p \in Process : At(p, "unhold") /\ ~cli[p].watch]_vars
  <2>. SUFFICES ASSUME Typed, Consistent, NoLegacy, Next, workflow.hold,
                       workflow'.id = workflow.id, ~workflow'.hold
                PROVE  \E p \in Process : At(p, "unhold") /\ ~cli[p].watch
    BY Zenon
  <2>1. PICK p \in Process : Runs(p)
    BY NextSplit, ElseWrites
  <2>2. ~LegacyLiftHold(p)
    BY DEF LegacyLiftHold, At, NoLegacy, LegacyPlaces, LegacyExecuting
  <2>3. WritesWorkflow(p)
    BY <2>1, WorkflowWriters
  <2>. QED
    BY <2>2, <2>3, SavesHold DEF At
<1>. QED
  BY <1>1, AlwaysTyped, AlwaysConsistent, AlwaysNoLegacy, PTL DEF Spec, HoldKept

-----------------------------------------------------------------------------
(* The budget of rounds.                                                   *)

\* The rounds charged and reserved do not exceed the budget.
WithinBudget(w) ==
  /\ IsFiniteSet(w.consumed)
  /\ Cardinality(w.consumed) + (IF w.reserved # NoRun THEN 1 ELSE 0) <= MaxRounds

LEMMA NewBudget ==
  ASSUME NEW w, w.consumed = {}, w.reserved = NoRun
  PROVE  WithinBudget(w)
BY FS_EmptySet, WorkflowAssumption DEF WithinBudget

LEMMA SameBudget ==
  ASSUME NEW w, NEW v, WithinBudget(w), v.consumed = w.consumed,
         v.reserved = w.reserved \/ v.reserved = NoRun
  PROVE  WithinBudget(v)
<1>1. Cardinality(w.consumed) \in Nat /\ MaxRounds \in Nat
  BY FS_CardinalityType, WorkflowAssumption DEF WithinBudget
<1>. QED
  BY <1>1 DEF WithinBudget

\* A round is charged that was reserved, or had been charged before.
LEMMA ChargeBudget ==
  ASSUME NEW w \in Workflow, NEW r \in Run, WithinBudget(w),
         w.reserved = r \/ r \in w.consumed
  PROVE  WithinBudget(Consumed(w, r))
<1>. DEFINE v == Consumed(w, r)
<1>1. /\ v.consumed = w.consumed \cup {r}
      /\ v.reserved = IF w.reserved = r THEN NoRun ELSE w.reserved
  BY ConsumedFields
<1>. HIDE DEF v
<1>2. /\ Cardinality(w.consumed) \in Nat /\ MaxRounds \in Nat
      /\ IsFiniteSet(w.consumed)
  BY FS_CardinalityType, WorkflowAssumption DEF WithinBudget
<1>3. CASE r \in w.consumed
  <2>1. v.consumed = w.consumed
    BY <1>1, <1>3
  <2>. QED
    BY <1>1, <2>1, SameBudget DEF v
<1>4. CASE r \notin w.consumed
  <2>1. v.reserved = NoRun /\ w.reserved # NoRun
    BY <1>1, <1>4, WorkflowAssumption
  <2>2. /\ IsFiniteSet(v.consumed)
        /\ Cardinality(v.consumed) = Cardinality(w.consumed) + 1
    BY <1>1, <1>2, <1>4, FS_AddElement
  <2>3. WithinBudget(v)
    BY <1>2, <2>1, <2>2 DEF WithinBudget
  <2>. QED
    BY <2>3 DEF v
<1>. QED
  BY <1>3, <1>4

LEMMA SavesBudget ==
  ASSUME OneCommand, Typed, Consistent, NEW p \in Process, WritesWorkflow(p),
         WithinBudget(workflow)
  PROVE  WithinBudget(workflow')
<1>1. /\ workflow \in Workflow /\ FilesAgree /\ DispatchTrue(cli[p])
      /\ ApprovalTrue(cli[p]) /\ ClosingTrue(cli[p]) /\ ReconcileTrue(cli[p])
      /\ cli[p].wf \in Workflow /\ cli[p].outcome \in Outcomes
  BY CopiesHere, TypedFacts, CopiesTyped DEF Consistent, Typed
<1>2. CASE ClearHold(p) \/ SetHold(p) \/ LegacyLiftHold(p)
  <2>1. \E b \in BOOLEAN : workflow' = [workflow EXCEPT !.hold = b]
    BY <1>1, <1>2 DEF ClearHold, SetHold, LegacyLiftHold, At, DispatchTrue,
       ReconcileTrue, Reconciling, ClosingTrue
  <2>2. workflow'.consumed = workflow.consumed /\ workflow'.reserved = workflow.reserved
    BY <1>1, <2>1, WorkflowFields
  <2>. QED
    BY <2>2, SameBudget
<1>3. CASE ApproveSave(p)
  <2>1. workflow' = cli[p].wf /\ cli[p].pc = "approve"
    BY <1>3 DEF ApproveSave, At
  <2>2. CASE cli[p].wf = [workflow EXCEPT !.plan = cli[p].wf.plan]
    <3>. DEFINE plan == cli[p].wf.plan
    <3>1. plan \in Plan \cup {NoPlan} /\ workflow' = [workflow EXCEPT !.plan = plan]
      BY <1>1, <2>1, <2>2 DEF Workflow
    <3>. HIDE DEF plan
    <3>2. workflow'.consumed = workflow.consumed /\ workflow'.reserved = workflow.reserved
      BY <1>1, <3>1, WorkflowFields
    <3>. QED
      BY <3>2, SameBudget
  <2>3. CASE cli[p].wf = [NoWorkflow EXCEPT !.id = approvals,
                                            !.plan = cli[p].wf.plan]
    <3>1. workflow'.consumed = {} /\ workflow'.reserved = NoRun
      BY <2>1, <2>3 DEF NoWorkflow
    <3>. QED
      BY <3>1, NewBudget
  <2>. QED
    BY <1>1, <2>1, <2>2, <2>3, Zenon DEF ApprovalTrue
<1>4. CASE ReserveRound(p)
  <2>1. cli[p].wf = workflow /\ cli[p].run \in Run
    BY <1>1, <1>4 DEF ReserveRound, At, DispatchTrue, Unsent
  <2>2. CASE /\ workflow.reserved = NoRun /\ Available(workflow)
             /\ workflow' = [workflow EXCEPT !.reserved = cli[p].run]
    <3>. DEFINE r == cli[p].run
    <3>1. r \in Run /\ workflow' = [workflow EXCEPT !.reserved = r]
      BY <2>1, <2>2
    <3>. HIDE DEF r
    <3>2. workflow'.consumed = workflow.consumed /\ workflow'.reserved = r
      BY <1>1, <3>1, WorkflowFields
    <3>3. /\ Cardinality(workflow.consumed) \in Nat /\ MaxRounds \in Nat
          /\ IsFiniteSet(workflow.consumed)
      BY FS_CardinalityType, WorkflowAssumption DEF WithinBudget
    <3>4. MaxRounds - Cardinality(workflow.consumed) >= 1
      BY <2>2, <3>3 DEF Available, rounds_available
    <3>. QED
      BY <3>2, <3>3, <3>4 DEF WithinBudget
  <2>3. CASE UNCHANGED workflow
    BY <2>3
  <2>. QED
    BY <1>4, <2>1, <2>2, <2>3, Zenon DEF ReserveRound
<1>5. CASE ReleaseReservation(p)
  <2>1. cli[p].wf = workflow /\ cli[p].out \in Run
    BY <1>1, <1>5 DEF ReleaseReservation, At, ReconcileTrue, Reconciling
  <2>2. workflow' = workflow \/ workflow' = Unreserved(workflow, cli[p].out)
    BY <1>5, <2>1 DEF ReleaseReservation
  <2>3. /\ workflow'.consumed = workflow.consumed
        /\ workflow'.reserved = workflow.reserved \/ workflow'.reserved = NoRun
    BY <1>1, <2>1, <2>2, ConsumedFields
  <2>. QED
    BY <2>3, SameBudget
<1>6. CASE ConsumeRound(p)
  <2>1. /\ cli[p].wf = workflow /\ cli[p].out \in Run /\ outstanding = cli[p].out
        /\ task[cli[p].out] # "rejected"
    BY <1>1, <1>6 DEF ConsumeRound, At, ReconcileTrue, Reconciling
  <2>2. workflow.reserved = cli[p].out \/ cli[p].out \in workflow.consumed
    BY <1>1, <2>1 DEF FilesAgree
  <2>3. workflow' = Consumed(workflow, cli[p].out)
    BY <1>6, <2>1 DEF ConsumeRound
  <2>. QED
    BY <1>1, <2>1, <2>2, <2>3, ChargeBudget
<1>7. CASE Finish(p)
  <2>1. cli[p].wf = workflow
    BY <1>1, <1>7 DEF Finish, At, ReconcileTrue, Reconciling
  <2>2. workflow' = [workflow EXCEPT !.last = cli[p].outcome]
    BY <1>7, <2>1 DEF Finish
  <2>3. workflow'.consumed = workflow.consumed /\ workflow'.reserved = workflow.reserved
    BY <1>1, <2>2, WorkflowFields
  <2>. QED
    BY <2>3, SameBudget
<1>8. CASE Notify(p)
  BY <1>8, NotifyTrue
<1>9. CASE CloseWorkflow(p)
  <2>1. workflow' = [workflow EXCEPT !.closed = TRUE]
    BY <1>1, <1>9 DEF CloseWorkflow, At, ClosingTrue
  <2>2. workflow'.consumed = workflow.consumed /\ workflow'.reserved = workflow.reserved
    BY <1>1, <2>1, WorkflowFields
  <2>. QED
    BY <2>2, SameBudget
<1>10. CASE RemoveWorkflow(p)
  BY <1>10, NewBudget DEF RemoveWorkflow, NoWorkflow
<1>. QED
  BY <1>2, <1>3, <1>4, <1>5, <1>6, <1>7, <1>8, <1>9, <1>10 DEF WritesWorkflow

\* The executions of a workflow whose worker was launched.
LaunchedFor(id) == {r \in Run : launched[r] /\ request[r].workflow = id}

FewLaunched(id) ==
  IsFiniteSet(LaunchedFor(id)) /\ Cardinality(LaunchedFor(id)) <= MaxRounds

CurrentBounded == workflow # NoWorkflow => FewLaunched(workflow.id)
LaunchesBounded == \A id \in 1..MaxWorkflows : FewLaunched(id)

\* Those of the current workflow were charged, or have its reservation.
LEMMA LaunchesCharged ==
  ASSUME Typed, Consistent, WithinBudget(workflow)
  PROVE  CurrentBounded
<1>. SUFFICES ASSUME workflow # NoWorkflow
              PROVE  FewLaunched(workflow.id)
  BY DEF CurrentBounded
<1>. DEFINE charged == IF workflow.reserved # NoRun
                       THEN workflow.consumed \cup {workflow.reserved}
                       ELSE workflow.consumed
<1>1. /\ Cardinality(workflow.consumed) \in Nat /\ MaxRounds \in Nat
      /\ IsFiniteSet(workflow.consumed)
  BY FS_CardinalityType, WorkflowAssumption DEF WithinBudget
<1>2. IsFiniteSet(charged) /\ Cardinality(charged) <= MaxRounds
      /\ Cardinality(charged) \in Nat
  <2>1. CASE workflow.reserved # NoRun
    <3>1. /\ IsFiniteSet(charged)
          /\ \/ Cardinality(charged) = Cardinality(workflow.consumed)
             \/ Cardinality(charged) = Cardinality(workflow.consumed) + 1
      BY <1>1, <2>1, FS_AddElement
    <3>2. Cardinality(workflow.consumed) + 1 <= MaxRounds
      BY <2>1 DEF WithinBudget
    <3>. HIDE DEF charged
    <3>. QED
      BY <1>1, <3>1, <3>2
  <2>2. CASE workflow.reserved = NoRun
    <3>1. charged = workflow.consumed
      BY <2>2
    <3>2. Cardinality(workflow.consumed) <= MaxRounds
      BY <1>1, <2>2 DEF WithinBudget
    <3>. QED
      BY <1>1, <3>1, <3>2
  <2>. QED
    BY <2>1, <2>2
<1>3. LaunchedFor(workflow.id) \subseteq charged
  <2>. SUFFICES ASSUME NEW r \in Run, launched[r], request[r].workflow = workflow.id
                PROVE  r \in charged
    BY DEF LaunchedFor
  <2>1. task[r] \notin {"none", "submitted", "rejected"}
    BY DEF Consistent, FilesAgree
  <2>2. CASE outstanding = r
    BY <2>1, <2>2, WorkflowAssumption DEF Consistent, FilesAgree
  <2>3. CASE outstanding # r
    BY <2>1, <2>3 DEF Consistent, NothingForgotten
  <2>. QED
    BY <2>2, <2>3
<1>. HIDE DEF charged
<1>4. /\ IsFiniteSet(LaunchedFor(workflow.id))
      /\ Cardinality(LaunchedFor(workflow.id)) <= Cardinality(charged)
  BY <1>2, <1>3, FS_Subset
<1>5. Cardinality(LaunchedFor(workflow.id)) \in Nat
  BY <1>4, FS_CardinalityType
<1>. QED
  BY <1>1, <1>2, <1>4, <1>5 DEF FewLaunched

\* A request is written once, and nothing was launched for it before.
LEMMA RequestsStay ==
  ASSUME Typed, Consistent, [Next]_vars
  PROVE  \A r \in Run : \/ request'[r] = request[r]
                        \/ record[r] = "none" /\ launched'[r] = launched[r]
<1>. SUFFICES ASSUME NEW r \in Run
              PROVE  \/ request'[r] = request[r]
                     \/ record[r] = "none" /\ launched'[r] = launched[r]
  OBVIOUS
<1>1. ASSUME NEW p \in Process, Prepare(p) \/ ClearHold(p)
      PROVE  \/ request'[r] = request[r]
             \/ record[r] = "none" /\ launched'[r] = launched[r]
  <2>1. UNCHANGED launched
    BY <1>1 DEF Prepare, ClearHold, endpoint
  <2>2. \/ UNCHANGED request
        \/ \E s \in Run : \E doc, w : PersistRecord(p, s, doc, w, "reserve")
    BY <1>1, Zenon DEF Prepare, ClearHold
  <2>. QED
    BY <2>1, <2>2, TypedFacts DEF PersistRecord
<1>2. ASSUME NEW p \in Process, Runs(p)
      PROVE  Prepare(p) \/ ClearHold(p) \/ UNCHANGED request
  <2>1. CASE Approve(p) \/ ApproveSave(p) \/ Activate(p) \/ LegacyWrites(p)
    BY <2>1 DEF Approve, ApproveSave, Activate, LegacyWrites, planner, files
  <2>2. CASE Submission(p)
    BY <2>2 DEF Submission, TakeSubmitLock, SubmissionRefused, CheckOnly,
       ReserveRound, Announce, ReleaseSubmitLock, files
  <2>3. CASE Delivery(p)
    BY <2>3 DEF Delivery, Execute, Resume, CheckStatus, Adopt, SaveOutstanding,
       Submit, Ack, Wait, CancelRun, files
  <2>4. CASE Reconcile(p)
    BY <2>4 DEF Reconcile, Load, ReleaseReservation, ConsumeRound, Reload,
       SetHold, Settle, Finish, ClearOutstanding, Notice, Notify, files
  <2>5. CASE Closing(p)
    BY <2>5 DEF Closing, QA, Archive, WriteVerdict, CloseWorkflow, AppendArchive,
       RemoveWorkflow, files
  <2>6. CASE Legacy(p)
    BY <2>6 DEF Legacy, LegacyExecute, LegacyTakeSubmit, LegacyRecheck,
       LegacyTakeExecute, LegacyGiveSubmit, LegacyHeld, LegacyReadWorkflow,
       LegacyLiftHold, LegacyExit, files
  <2>. QED
    BY <1>2, <2>1, <2>2, <2>3, <2>4, <2>5, <2>6, RunsSplit
<1>3. ASSUME NEW s \in Run, Endpoint(s)
      PROVE  UNCHANGED request
  BY <1>3, EndpointTrue DEF planner
<1>. QED
  BY <1>1, <1>2, <1>3, NextSplit
     DEF Kill, PlannerWrites, RemoveStaleLock, vars, files

\* A worker is launched for the outstanding run, and nobody saves a file then.
LEMMA LaunchesStep ==
  ASSUME Typed, Consistent, [Next]_vars
  PROVE  \A r \in Run : launched'[r] /\ ~launched[r] =>
           request'[r] = request[r] /\ request[r].workflow = workflow'.id
<1>. SUFFICES ASSUME NEW r \in Run, launched'[r], ~launched[r]
              PROVE  request'[r] = request[r] /\ request[r].workflow = workflow'.id
  OBVIOUS
<1>1. ASSUME NEW p \in Process, Runs(p) \/ Kill(p)
      PROVE  FALSE
  BY <1>1, RunsTask
<1>2. PICK s \in Run : Endpoint(s)
  BY <1>1, NextSplit DEF PlannerWrites, RemoveStaleLock, vars, endpoint
<1>3. UNCHANGED <<request, workflow>> 
  BY <1>2, EndpointTrue DEF planner
<1>4. task[r] = "working"
  <2>1. Launch(s)
    BY <1>2 DEF Endpoint, Progress, Begin, Reject, ReportStart, FinishRun,
       Unlock, WorkerWrites, Restart
  <2>. QED
    BY <2>1, TypedFacts DEF Launch
<1>5. outstanding = r
  BY <1>4 DEF Consistent, NothingForgotten, Terminal
<1>. QED
  BY <1>3, <1>5 DEF Consistent, FilesAgree

LEMMA WithinBudgetStep ==
  ASSUME OneCommand, Typed, Consistent, WithinBudget(workflow), [Next]_vars
  PROVE  WithinBudget(workflow')
<1>1. CASE UNCHANGED workflow
  BY <1>1
<1>2. ASSUME NEW p \in Process, Runs(p)
      PROVE  WithinBudget(workflow')
  BY <1>1, <1>2, WorkflowWriters, SavesBudget
<1>. QED
  BY <1>1, <1>2, NextSplit, ElseWrites

LEMMA AlwaysCurrentBounded ==
  ASSUME OneCommand
  PROVE  Spec => []CurrentBounded
<1>. DEFINE InBudget == WithinBudget(workflow)
<1>1. Init => InBudget
  BY NewBudget DEF Init, NoWorkflow
<1>2. Typed /\ Consistent /\ InBudget /\ [Next]_vars => InBudget'
  BY WithinBudgetStep
<1>3. Typed /\ Consistent /\ InBudget => CurrentBounded
  BY LaunchesCharged
<1>. HIDE DEF InBudget
<1>. QED
  BY <1>1, <1>2, <1>3, AlwaysTyped, AlwaysConsistent, PTL DEF Spec

LEMMA LaunchesBoundedStep ==
  ASSUME Typed, Consistent, CurrentBounded', LaunchesBounded, [Next]_vars
  PROVE  LaunchesBounded'
<1>1. ASSUME NEW id \in 1..MaxWorkflows
      PROVE  FewLaunched(id)'
  <2>1. CASE id = workflow'.id
    <3>1. workflow' # NoWorkflow
      BY <2>1 DEF NoWorkflow
    <3>2. FewLaunched(workflow.id)'
      BY <3>1 DEF CurrentBounded
    <3>3. LaunchedFor(id)' = LaunchedFor(workflow.id)'
      BY <2>1, Zenon DEF LaunchedFor
    <3>. QED
      BY <3>2, <3>3 DEF FewLaunched
  <2>2. CASE id # workflow'.id
    <3>1. LaunchedFor(id)' \subseteq LaunchedFor(id)
      <4>. SUFFICES ASSUME NEW r \in Run, launched'[r], request'[r].workflow = id
                    PROVE  launched[r] /\ request[r].workflow = id
        BY DEF LaunchedFor
      <4>1. launched[r]
        BY <2>2, LaunchesStep
      <4>2. record[r] # "none"
        BY <4>1 DEF Consistent, FilesAgree
      <4>. QED
        BY <4>1, <4>2, RequestsStay
    <3>2. /\ IsFiniteSet(LaunchedFor(id)) /\ Cardinality(LaunchedFor(id)) <= MaxRounds
      BY DEF LaunchesBounded, FewLaunched
    <3>3. /\ IsFiniteSet(LaunchedFor(id)')
          /\ Cardinality(LaunchedFor(id)') <= Cardinality(LaunchedFor(id))
      BY <3>1, <3>2, FS_Subset
    <3>4. Cardinality(LaunchedFor(id)) \in Nat /\ Cardinality(LaunchedFor(id)') \in Nat
          /\ MaxRounds \in Nat
      BY <3>2, <3>3, FS_CardinalityType, WorkflowAssumption
    <3>. QED
      BY <3>2, <3>3, <3>4 DEF FewLaunched
  <2>. QED
    BY <2>1, <2>2
<1>. QED
  BY <1>1 DEF LaunchesBounded

\* With one command at a time, no more workers are launched for a workflow than
\* its budget has rounds: no crash, retransmission or renewed approval, and no
\* restart of the endpoint, gives a round twice.
THEOREM BudgetKeptHolds ==
  ASSUME OneCommand
  PROVE  Spec => []BudgetKept
<1>1. Init => LaunchesBounded
  <2>. SUFFICES ASSUME Init
                PROVE  LaunchesBounded
    OBVIOUS
  <2>1. \A id \in 1..MaxWorkflows : LaunchedFor(id) = {}
    BY DEF Init, LaunchedFor
  <2>. QED
    BY <2>1, FS_EmptySet, WorkflowAssumption DEF LaunchesBounded, FewLaunched
<1>2. Typed /\ Consistent /\ CurrentBounded' /\ LaunchesBounded /\ [Next]_vars
        => LaunchesBounded'
  BY LaunchesBoundedStep
<1>3. LaunchesBounded => BudgetKept
  BY DEF LaunchesBounded, FewLaunched, LaunchedFor, BudgetKept
<1>. QED
  BY <1>1, <1>2, <1>3, AlwaysTyped, AlwaysConsistent, AlwaysCurrentBounded, PTL
     DEF Spec

-----------------------------------------------------------------------------
(* What READY FOR QA means.                                                *)

\* Places of a command that starts a run or settles one.
QAPlaces == {"approve", "unhold", "reserve", "announce", "finish", "clear"}
Unstarted == {"none", "submitted", "rejected"}

\* A delivery: the outstanding run has a worker, or nothing is outstanding and
\* the last run completed; nobody starts a run, and who settles one finds it
\* completed.
Founded ==
  /\ outstanding = NoRun /\ Active(workflow) => workflow.last = "completed"
  /\ \A r \in Run : outstanding = r => task[r] \notin Unstarted
  /\ \A p \in Process :
       /\ cli[p].pc \notin {"approve", "unhold", "reserve", "announce"}
       /\ cli[p].pc = "finish" => cli[p].outcome = "completed"
       /\ cli[p].pc = "clear" => workflow.last = "completed"

QAFounded == handoff.status = "READY FOR QA" => Founded

\* A Task that has been started does not become one that has not.
LEMMA TasksStarted ==
  ASSUME Typed, Consistent, [Next]_vars
  PROVE  \A r \in Run : task'[r] \in Unstarted => task[r] \in Unstarted
<1>. SUFFICES ASSUME NEW r \in Run, task'[r] \in Unstarted
              PROVE  task[r] \in Unstarted
  OBVIOUS
<1>. USE DEF Unstarted
<1>1. ASSUME NEW p \in Process, Runs(p)
      PROVE  task[r] \in Unstarted
  <2>1. CASE Delivery(p)
    <3>1. CASE Submit(p)
      BY <3>1, TypedFacts DEF Submit
    <3>2. CASE CancelRun(p)
      <4>1. PICK state \in {"canceled", "failed", "recovery"} :
              task' = [task EXCEPT ![outstanding] = state]
        BY <3>2, Zenon DEF CancelRun
      <4>. QED
        BY <4>1, TypedFacts
    <3>. QED
      BY <2>1, <3>1, <3>2 DEF Delivery, Execute, Resume, CheckStatus, Adopt,
         SaveOutstanding, Ack, Wait, endpoint
  <2>2. CASE \/ Approve(p) \/ ApproveSave(p) \/ Activate(p) \/ LegacyWrites(p)
             \/ Submission(p)
    BY <2>2 DEF Approve, ApproveSave, Activate, LegacyWrites, Submission,
       TakeSubmitLock, SubmissionRefused, CheckOnly, Prepare, ClearHold,
       ReserveRound, Announce, ReleaseSubmitLock, endpoint
  <2>3. CASE Reconcile(p) \/ Closing(p)
    BY <2>3 DEF Reconcile, Load, ReleaseReservation, ConsumeRound, Reload,
       SetHold, Settle, Finish, ClearOutstanding, Notice, Notify, Closing, QA,
       Archive, WriteVerdict, CloseWorkflow, AppendArchive, RemoveWorkflow,
       endpoint
  <2>4. CASE Legacy(p)
    BY <2>4 DEF Legacy, LegacyExecute, LegacyTakeSubmit, LegacyRecheck,
       LegacyTakeExecute, LegacyGiveSubmit, LegacyHeld, LegacyReadWorkflow,
       LegacyLiftHold, LegacyExit, endpoint
  <2>. QED
    BY <1>1, <2>1, <2>2, <2>3, <2>4, RunsSplit
<1>2. ASSUME NEW s \in Run, Endpoint(s)
      PROVE  task[r] \in Unstarted
  <2>1. CASE Begin(s)
    BY <2>1, TypedFacts DEF Begin
  <2>2. CASE Reject(s)
    BY <2>2, TypedFacts DEF Reject
  <2>3. CASE Launch(s)
    BY <2>3, TypedFacts DEF Launch
  <2>4. CASE ReportStart(s) \/ Unlock(s) \/ WorkerWrites(s)
    BY <2>4 DEF ReportStart, Unlock, WorkerWrites
  <2>5. CASE FinishRun(s)
    BY <2>5, TypedFacts DEF FinishRun
  <2>6. CASE Restart(s)
    BY <2>6, TypedFacts DEF Restart
  <2>. QED
    BY <1>2, <2>1, <2>2, <2>3, <2>4, <2>5, <2>6 DEF Endpoint, Progress
<1>. QED
  BY <1>1, <1>2, NextSplit DEF Kill, PlannerWrites, RemoveStaleLock, vars, endpoint

\* A step that changes no file and starts or settles nothing.
LEMMA FoundedStays ==
  ASSUME QAFounded, handoff.status = "READY FOR QA",
         UNCHANGED <<workflow, outstanding>>,
         \A r \in Run : task'[r] \in Unstarted => task[r] \in Unstarted,
         \A p \in Process : cli'[p].pc \notin QAPlaces \/ cli'[p] = cli[p]
  PROVE  Founded'
BY DEF QAFounded, Founded, QAPlaces, Active

LEMMA FoundedStep ==
  ASSUME OneCommand, QAFounded, NEW p \in Process,
         handoff.status = "READY FOR QA", UNCHANGED <<workflow, outstanding>>,
         \A r \in Run : task'[r] \in Unstarted => task[r] \in Unstarted,
         cli'[p].pc \notin QAPlaces \/ cli'[p] = cli[p]
  PROVE  Founded'
BY FoundedStays DEF OneCommand

\* A step of a command outside _reconcile.
LEMMA FoundedRuns ==
  ASSUME OneCommand, Typed, Consistent, QAFounded, NEW p \in Process,
         \A r \in Run : task'[r] \in Unstarted => task[r] \in Unstarted,
         \/ Approve(p) \/ ApproveSave(p) \/ Activate(p)
         \/ Submission(p) \/ Delivery(p),
         handoff'.status = "READY FOR QA"
  PROVE  Founded'
<1>0. handoff.status = "READY FOR QA" => cli[p].pc \notin QAPlaces \ {"finish", "clear"}
  BY DEF QAFounded, Founded, QAPlaces
<1>1. CASE Approve(p) \/ ApproveSave(p)
  <2>1. CASE Approve(p)
    <3>1. handoff.status # "READY FOR QA" /\ UNCHANGED handoff
      BY <2>1 DEF Approve, files
    <3>. QED
      BY <3>1
  <2>2. CASE ApproveSave(p)
    BY <1>0, <2>2 DEF ApproveSave, At, QAPlaces
  <2>. QED
    BY <1>1, <2>1, <2>2
<1>2. CASE Activate(p)
  BY <1>2, TypedFacts DEF Activate, Handoff
<1>3. CASE Submission(p)
  <2>1. UNCHANGED handoff
    BY <1>3 DEF Submission, TakeSubmitLock, SubmissionRefused, CheckOnly, Prepare,
       ClearHold, ReserveRound, Announce, ReleaseSubmitLock, files
  <2>2. ~Prepare(p) /\ ~ClearHold(p) /\ ~ReserveRound(p) /\ ~Announce(p)
    BY <1>0, <2>1 DEF Prepare, Ready, ELIGIBLE, ClearHold, ReserveRound, Announce,
       At, QAPlaces
  <2>3. /\ UNCHANGED <<workflow, outstanding>>
        /\ Ends(p) \/ \E place \in {"check", "prepare", "adopt"} : Goto(p, place)
    BY <1>3, <2>2 DEF Submission, TakeSubmitLock, SubmissionRefused, CheckOnly,
       ReleaseSubmitLock, files
  <2>4. cli'[p].pc \notin QAPlaces
    BY <2>3, GotoCell, EndsCell DEF QAPlaces
  <2>. QED
    BY <2>1, <2>3, <2>4, FoundedStep
<1>4. CASE Delivery(p)
  <2>1. UNCHANGED <<handoff, workflow>>
    BY <1>4 DEF Delivery, Execute, Resume, CheckStatus, Adopt, SaveOutstanding,
       Submit, Ack, Wait, CancelRun, files
  <2>2. UNCHANGED outstanding
    <3>1. CASE SaveOutstanding(p)
      BY <3>1, CopiesHere DEF SaveOutstanding, Consistent, DispatchTrue, Aiming,
         Pointing
    <3>. QED
      BY <1>4, <3>1 DEF Delivery, Execute, Resume, CheckStatus, Adopt, Submit,
         Ack, Wait, CancelRun, files
  <2>3. cli'[p].pc \notin QAPlaces \/ cli'[p] = cli[p]
    <3>1. CASE SaveOutstanding(p) \/ Submit(p) \/ Ack(p)
      <4>1. Ends(p) \/ \E place \in {"submit", "wait", "ack", "point"} : Goto(p, place)
        BY <3>1 DEF SaveOutstanding, Submit, Ack
      <4>. QED
        BY <4>1, GotoCell, EndsCell DEF QAPlaces
    <3>2. CASE Adopt(p)
      BY <3>2 DEF Adopt, Typed, CliType, Command, QAPlaces
    <3>3. CASE Wait(p)
      <4>1. CASE cli' = [cli EXCEPT ![p].pc = "load",
                                    ![p].ans = TaskOf(cli[p].run)]
        BY <4>1 DEF Typed, CliType, Command, QAPlaces
      <4>2. CASE Ends(p)
        BY <4>2, EndsCell DEF QAPlaces
      <4>. QED
        BY <3>3, <4>1, <4>2, Zenon DEF Wait
    <3>4. CASE CancelRun(p)
      <4>1. CASE cli' = [cli EXCEPT ![p] =
                   [Loaded(p) EXCEPT !.pc = "load",
                      !.ans = [state |-> task'[outstanding],
                               report |-> report'[outstanding],
                               launched |-> launched[outstanding]]]]
        BY <4>1 DEF Loaded, Typed, CliType, Command, QAPlaces
      <4>2. CASE UNCHANGED cli
        BY <4>2
      <4>. QED
        BY <3>4, <4>1, <4>2, Zenon DEF CancelRun
    <3>5. ASSUME NEW watch \in BOOLEAN, Execute(p, watch)
          PROVE  cli'[p].pc \notin QAPlaces
      BY <3>5 DEF Execute, Typed, CliType, Command, QAPlaces
    <3>6. ASSUME NEW watch \in BOOLEAN, CheckStatus(p, watch)
          PROVE  cli'[p].pc \notin QAPlaces
      BY <3>6 DEF CheckStatus, Loaded, Typed, CliType, Command, QAPlaces
    <3>7. ASSUME NEW watch \in BOOLEAN, Resume(p, watch)
          PROVE  cli'[p].pc \notin QAPlaces
      <4>1. PICK place \in {"wait", "submit"} :
              cli' = [cli EXCEPT ![p] =
                        [Loaded(p) EXCEPT !.watch = watch, !.pc = place]]
        BY <3>7, Zenon DEF Resume
      <4>. QED
        BY <4>1 DEF Loaded, Typed, CliType, Command, QAPlaces
    <3>. QED
      BY <1>4, <3>1, <3>2, <3>3, <3>4, <3>5, <3>6, <3>7 DEF Delivery
  <2>. QED
    BY <2>1, <2>2, <2>3, FoundedStep
<1>. QED
  BY <1>1, <1>2, <1>3, <1>4

\* While a run is outstanding, its workflow.json may change.
LEMMA FoundedOutstanding ==
  ASSUME OneCommand, QAFounded, NEW p \in Process, outstanding \in Run,
         handoff.status = "READY FOR QA", UNCHANGED outstanding,
         \A r \in Run : task'[r] \in Unstarted => task[r] \in Unstarted,
         cli'[p].pc \notin QAPlaces \ {"finish", "clear"},
         cli'[p].pc = "finish" => cli'[p].outcome = "completed",
         cli'[p].pc = "clear" => workflow'.last = "completed"
  PROVE  Founded'
BY WorkflowAssumption DEF OneCommand, QAFounded, Founded, QAPlaces

LEMMA FoundedReconcile ==
  ASSUME OneCommand, Typed, Consistent, QAFounded, NEW p \in Process,
         \A r \in Run : task'[r] \in Unstarted => task[r] \in Unstarted,
         Reconcile(p), handoff'.status = "READY FOR QA"
  PROVE  Founded'
<1>0. ~Settle(p) => UNCHANGED handoff
  BY DEF Reconcile, Load, ReleaseReservation, ConsumeRound, Reload, SetHold,
     Finish, ClearOutstanding, Notice, Notify, files
<1>1. CASE Settle(p)
  <2>1. /\ outstanding = cli[p].out /\ cli[p].out \in Run /\ ReconcileTrue(cli[p])
        /\ cli[p].pc = "settle"
        /\ UNCHANGED <<workflow, outstanding, task>>
    BY <1>1, ReconcilesActive DEF Settle, At, Reconciling, endpoint
  <2>2. cli[p].outcome \in Terminal => task[cli[p].out] = cli[p].outcome
    BY <2>1 DEF ReconcileTrue, Reconciling
  <2>3. request[cli[p].out].status # "READY FOR QA"
    BY <2>1 DEF Consistent, FilesAgree, ELIGIBLE
  <2>4. CASE cli[p].outcome = "completed" /\ Goto(p, "finish")
    <3>1. cli'[p].pc = "finish" /\ cli'[p].outcome = "completed"
      BY <2>4, GotoCell
    <3>2. task'[cli[p].out] = "completed"
      BY <2>1, <2>2, <2>4 DEF Terminal
    <3>. QED
      BY <2>1, <3>1, <3>2, WorkflowAssumption DEF OneCommand, Founded, Unstarted
  <2>5. CASE UNCHANGED handoff /\ Ends(p)
    <3>1. cli'[p].pc = "idle"
      BY <2>5, EndsCell
    <3>. QED
      BY <2>1, <2>5, <3>1, FoundedStep DEF QAPlaces
  <2>6. CASE handoff' = [handoff EXCEPT !.status = SubmittedStatus(cli[p].out)]
    <3>1. SubmittedStatus(cli[p].out) # "READY FOR QA"
      BY <2>1, <2>3 DEF SubmittedStatus
    <3>. QED
      BY <2>6, <3>1, TypedFacts DEF Handoff
  <2>. QED
    BY <1>1, <2>4, <2>5, <2>6, Zenon DEF Settle
<1>2. CASE Notice(p) \/ Notify(p)
  <2>1. UNCHANGED <<handoff, workflow, outstanding>>
    BY <1>2, NotifyTrue DEF Notice, Notify, files
  <2>2. CASE cli' = [cli EXCEPT ![p].pc = "notify", ![p].wf = workflow]
    <3>1. cli'[p].pc = "notify"
      BY <2>2 DEF Typed, CliType, Command
    <3>. QED
      BY <2>1, <3>1, FoundedStep DEF QAPlaces
  <2>3. CASE Ends(p)
    BY <2>1, <2>3, EndsCell, FoundedStep DEF QAPlaces
  <2>. QED
    BY <1>2, <2>2, <2>3, Zenon DEF Notice, Notify
<1>3. CASE Load(p)
  <2>1. UNCHANGED <<handoff, workflow, outstanding>>
    BY <1>3 DEF Load, files
  <2>2. cli'[p].pc \in {"release", "consume", "hold", "idle"}
    <3>. DEFINE ans == cli[p].ans
                outcome == OutcomeOf(ans)
                out == IF cli[p].execute /\ outstanding # NoRun THEN outstanding
                       ELSE cli[p].out
                next == IF outcome = "rejected" THEN "release"
                        ELSE IF SaysStarted(ans) \/ outcome \in Terminal
                             THEN "consume"
                        ELSE IF outcome = "recovery" THEN "hold"
                        ELSE "idle"
                c == [cli[p] EXCEPT !.pc = next, !.wf = workflow, !.out = out,
                                    !.outcome = outcome]
    <3>1. cli'[p] = IF next = "idle" THEN Done ELSE c
      BY <1>3 DEF Load, Typed, CliType
    <3>2. next \in {"release", "consume", "hold", "idle"}
      OBVIOUS
    <3>. HIDE DEF next, out, outcome
    <3>3. c.pc = next /\ Done.pc = "idle"
      BY DEF Done, Typed, CliType, Command
    <3>. QED
      BY <3>1, <3>2, <3>3
  <2>3. cli'[p].pc \notin QAPlaces
    BY <2>2 DEF QAPlaces
  <2>. QED
    BY <2>1, <2>3, FoundedStep
<1>4. CASE Reload(p)
  <2>1. UNCHANGED <<handoff, workflow, outstanding>>
    BY <1>4 DEF Reload, files
  <2>2. cli'[p].pc \in {"hold", "settle"}
    BY <1>4 DEF Reload, Typed, CliType, Command
  <2>. QED
    BY <2>1, <2>2, FoundedStep DEF QAPlaces
<1>5. CASE ConsumeRound(p) \/ SetHold(p)
  <2>1. UNCHANGED <<handoff, outstanding>> /\ outstanding \in Run
    BY <1>5, ReconcilesActive DEF ConsumeRound, SetHold, At, Reconciling
  <2>2. CASE ConsumeRound(p)
    <3>1. cli'[p].pc = "reload"
      BY <2>2 DEF ConsumeRound, Typed, CliType, Command
    <3>. QED
      BY <2>1, <3>1, FoundedOutstanding DEF QAPlaces
  <2>3. CASE SetHold(p)
    <3>1. Ends(p) \/ Goto(p, "reheld")
      BY <2>3 DEF SetHold
    <3>2. cli'[p].pc \in {"idle", "reheld"}
      BY <3>1, EndsCell, GotoCell
    <3>. QED
      BY <2>1, <3>2, FoundedOutstanding DEF QAPlaces
  <2>. QED
    BY <1>5, <2>2, <2>3
<1>6. CASE ReleaseReservation(p)
  <2>1. /\ UNCHANGED handoff /\ cli[p].pc = "release"
    BY <1>6 DEF ReleaseReservation, At
  <2>2. outstanding = cli[p].out /\ outstanding \in Run /\ task[outstanding] = "rejected"
    BY <2>1, ReconcilesActive DEF Reconciling, ReconcileTrue
  <2>. QED
    BY <2>1, <2>2 DEF QAFounded, Founded, Unstarted
<1>7. CASE Finish(p)
  <2>1. /\ UNCHANGED <<handoff, outstanding>> /\ cli[p].pc = "finish"
        /\ Goto(p, "clear")
        /\ workflow' = [cli[p].wf EXCEPT !.last = cli[p].outcome]
    BY <1>7 DEF Finish, At
  <2>2. outstanding \in Run
    BY <2>1, ReconcilesActive DEF Reconciling
  <2>3. cli[p].outcome = "completed" /\ cli[p].wf \in Workflow
    BY <2>1, CopiesTyped DEF QAFounded, Founded, Typed
  <2>4. workflow'.last = "completed"
    BY <2>1, <2>3 DEF Workflow
  <2>5. cli'[p].pc = "clear"
    BY <2>1, GotoCell
  <2>. QED
    BY <2>1, <2>2, <2>4, <2>5, FoundedOutstanding DEF QAPlaces
<1>8. CASE ClearOutstanding(p)
  <2>1. /\ UNCHANGED <<handoff, workflow>> /\ cli[p].pc = "clear"
        /\ outstanding' = NoRun
    BY <1>8 DEF ClearOutstanding, At
  <2>2. workflow.last = "completed"
    BY <2>1 DEF QAFounded, Founded
  <2>3. cli'[p].pc \in {"notice", "idle"}
    <3>1. CASE cli' = [cli EXCEPT ![p] = [Done EXCEPT !.pc = "notice"]]
      BY <3>1 DEF Done, Typed, CliType
    <3>2. CASE Ends(p)
      BY <3>2, EndsCell
    <3>. QED
      BY <1>8, <3>1, <3>2, Zenon DEF ClearOutstanding
  <2>4. \A q \in Process : cli'[q].pc \in {"notice", "idle"}
    BY <2>3 DEF OneCommand
  <2>. QED
    BY <2>1, <2>2, <2>4, WorkflowAssumption DEF Founded, Active
<1>. QED
  BY <1>1, <1>2, <1>3, <1>4, <1>5, <1>6, <1>7, <1>8 DEF Reconcile

LEMMA FoundedClosing ==
  ASSUME OneCommand, Typed, Consistent, QAFounded, NEW p \in Process,
         \A r \in Run : task'[r] \in Unstarted => task[r] \in Unstarted,
         Closing(p), handoff'.status = "READY FOR QA"
  PROVE  Founded'
<1>1. ~WriteVerdict(p)
  BY CopiesHere DEF WriteVerdict, At, Consistent, ClosingTrue
<1>2. UNCHANGED <<handoff, outstanding>>
  BY <1>1 DEF Closing, QA, Archive, CloseWorkflow, AppendArchive, RemoveWorkflow,
     files
<1>3. cli'[p].pc \in {"verdict", "append", "close", "remove", "idle"}
  <2>1. ASSUME NEW superseded, Archive(p, superseded)
        PROVE  cli'[p].pc \in {"append", "close"}
    <3>. DEFINE w == [workflow EXCEPT !.closed = workflow # NoWorkflow]
    <3>1. PICK place \in {"append", "close"} :
            cli' = [cli EXCEPT ![p].pc = place, ![p].wf = w, ![p].doc = handoff]
      BY <2>1, Zenon DEF Archive
    <3>. HIDE DEF w
    <3>. QED
      BY <3>1 DEF Typed, CliType, Command
  <2>2. ASSUME NEW verdict, QA(p, verdict)
        PROVE  cli'[p].pc = "verdict"
    BY <2>2 DEF QA, Typed, CliType, Command
  <2>3. CASE CloseWorkflow(p) \/ AppendArchive(p) \/ RemoveWorkflow(p)
    <3>1. Ends(p) \/ \E place \in {"append", "remove"} : Goto(p, place)
      BY <2>3 DEF CloseWorkflow, AppendArchive, RemoveWorkflow
    <3>. QED
      BY <3>1, EndsCell, GotoCell
  <2>. QED
    BY <1>1, <2>1, <2>2, <2>3 DEF Closing
<1>4. CASE UNCHANGED workflow
  BY <1>2, <1>3, <1>4, FoundedStep DEF QAPlaces
<1>5. CASE CloseWorkflow(p) \/ RemoveWorkflow(p)
  <2>1. workflow' = NoWorkflow \/ workflow'.closed
    <3>1. CASE CloseWorkflow(p)
      <4>1. workflow' = [workflow EXCEPT !.closed = TRUE]
        BY <3>1, CopiesHere DEF CloseWorkflow, At, Consistent, ClosingTrue
      <4>. QED
        BY <4>1, TypedFacts, WorkflowFields
    <3>. QED
      BY <1>5, <3>1 DEF RemoveWorkflow
  <2>. QED
    BY <1>2, <1>3, <2>1 DEF OneCommand, QAFounded, Founded, Active
<1>. QED
  BY <1>1, <1>4, <1>5 DEF Closing, QA, Archive, AppendArchive, files

LEMMA FoundedEndpoint ==
  ASSUME Typed, Consistent, QAFounded, NEW r \in Run, Endpoint(r),
         \A s \in Run : task'[s] \in Unstarted => task[s] \in Unstarted,
         handoff'.status = "READY FOR QA"
  PROVE  Founded'
<1>1. UNCHANGED <<workflow, outstanding, cli>>
  BY EndpointTrue DEF planner
<1>2. CASE WorkerWrites(r)
  <2>1. task[r] = "working" /\ UNCHANGED task
    BY <1>2 DEF WorkerWrites
  <2>2. outstanding = r
    BY <2>1 DEF Consistent, NothingForgotten, Terminal
  <2>3. \A p \in Process :
          cli[p].pc \notin {"approve", "unhold", "reserve", "announce"}
    BY <2>2, CopiesHere, WorkflowAssumption
       DEF Consistent, DispatchTrue, ApprovalTrue
  <2>4. \A p \in Process : cli[p].pc \notin {"finish", "clear"}
    <3>. SUFFICES ASSUME NEW p \in Process, cli[p].pc \in {"finish", "clear"}
                  PROVE  FALSE
      OBVIOUS
    <3>1. ReconcileTrue(cli[p]) /\ outstanding = cli[p].out
      BY ReconcilesActive DEF Reconciling
    <3>2. task[r] \in Terminal
      BY <2>2, <3>1 DEF ReconcileTrue, Reconciling
    <3>. QED
      BY <2>1, <3>2 DEF Terminal
  <2>. QED
    BY <1>1, <2>1, <2>2, <2>3, <2>4, WorkflowAssumption DEF Founded, Unstarted
<1>3. CASE ~WorkerWrites(r)
  <2>1. UNCHANGED handoff
    BY <1>3 DEF Endpoint, Progress, Begin, Reject, Launch, ReportStart, FinishRun,
       Unlock, Restart
  <2>. QED
    BY <1>1, <2>1, FoundedStays
<1>. QED
  BY <1>2, <1>3

LEMMA QAFoundedStep ==
  ASSUME OneCommand, "legacy" \notin Commands, Typed, Consistent, NoLegacy,
         QAFounded, [Next]_vars
  PROVE  QAFounded'
<1>. SUFFICES ASSUME handoff'.status = "READY FOR QA"
              PROVE  Founded'
  BY DEF QAFounded
<1>1. \A r \in Run : task'[r] \in Unstarted => task[r] \in Unstarted
  BY TasksStarted
<1>2. ASSUME NEW p \in Process, Runs(p)
      PROVE  Founded'
  <2>1. \/ Approve(p) \/ ApproveSave(p) \/ Activate(p) \/ Submission(p)
        \/ Delivery(p) \/ Reconcile(p) \/ Closing(p)
    BY <1>2, RunsLegacy DEF NoLegacy
  <2>. QED
    BY <1>1, <2>1, FoundedRuns, FoundedReconcile, FoundedClosing
<1>3. ASSUME NEW r \in Run, Endpoint(r)
      PROVE  Founded'
  BY <1>1, <1>3, FoundedEndpoint
<1>4. ASSUME NEW plan \in Plan, PlannerWrites(plan)
      PROVE  FALSE
  BY <1>4 DEF PlannerWrites
<1>5. ASSUME (\E p \in Process : Kill(p)) \/ RemoveStaleLock \/ UNCHANGED vars
      PROVE  Founded'
  <2>1. UNCHANGED handoff
    BY <1>5 DEF Kill, RemoveStaleLock, vars, files
  <2>2. \A p \in Process : cli'[p].pc \notin QAPlaces \/ cli'[p] = cli[p]
    BY <1>5, ElseCommands DEF QAPlaces
  <2>. QED
    BY <1>1, <1>5, <2>1, <2>2, ElseWrites, FoundedStays
<1>. QED
  BY <1>2, <1>3, <1>4, <1>5, NextSplit

\* With one command at a time, none of them a legacy execute, READY FOR QA on an
\* active workflow with nothing outstanding means that its last run completed:
\* what a failed, canceled or lost worker wrote into HANDOFF.md is taken back
\* before the run is settled.
THEOREM QAOnlyCompletedHolds ==
  ASSUME OneCommand, "legacy" \notin Commands
  PROVE  Spec => []QAOnlyCompleted
<1>1. Init => QAFounded
  <2>. SUFFICES ASSUME Init
                PROVE  handoff.status # "READY FOR QA"
    BY DEF QAFounded
  <2>. QED
    BY DEF Init
<1>2. Typed /\ Consistent /\ NoLegacy /\ QAFounded /\ [Next]_vars => QAFounded'
  BY QAFoundedStep
<1>3. QAFounded => QAOnlyCompleted
  BY DEF QAFounded, Founded, QAOnlyCompleted
<1>. QED
  BY <1>1, <1>2, <1>3, AlwaysTyped, AlwaysConsistent, AlwaysNoLegacy, PTL DEF Spec
=============================================================================
