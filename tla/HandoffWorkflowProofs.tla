----------------------- MODULE HandoffWorkflowProofs -----------------------
(***************************************************************************)
(* Theorems about HandoffWorkflow, for every set of processes, executions  *)
(* and plans, any commands and every bound: every state is well typed, one *)
(* command submits at a time, and one executor works in the repository.    *)
(***************************************************************************)
EXTENDS HandoffWorkflow, FiniteSetTheorems, TLAPS

-----------------------------------------------------------------------------
(* Type correctness.  TypeOK is not inductive: what a command writes into  *)
(* the shared files comes from its copies, so the copies must be there at  *)
(* the places where they are used.                                         *)

\* A command at one of these places has an execution,
Aiming == {"reserve", "announce", "unlock", "adopt", "identify", "submit",
           "ack", "point", "wait", "load"}
\* and at one of these it has loaded an outstanding.json.
Pointing == {"identify", "submit", "ack", "point", "wait", "load", "release",
             "consume"}
Aimed(c) ==
  /\ c.pc \in Aiming => c.run \in Run
  /\ c.pc \in Pointing => c.out # NoRun

FilesType ==
  /\ handoff \in Handoff /\ workflow \in Workflow
  /\ outstanding \in Run \cup {NoRun, Blank}
  /\ record \in [Run -> {"none", "saved", "acked"}]
  /\ request \in [Run -> Request]
  /\ archive \in Plan \cup {NoPlan}
CliType == cli \in [Process -> Command] /\ \A p \in Process : Aimed(cli[p])
EndpointType ==
  /\ task \in [Run -> TaskStates]
  /\ report \in [Run -> Report] /\ launched \in [Run -> BOOLEAN]
LockType ==
  /\ submitLock \in Process \cup {NoProcess}
  /\ executeLock \in Run \cup {NoRun} \cup Process
CountType ==
  /\ approvals \in 0..MaxWorkflows /\ edits \in 0..MaxEdits
  /\ crashes \in 0..MaxCrashes /\ outages \in 0..MaxOutages
Typed == FilesType /\ CliType /\ EndpointType /\ LockType /\ CountType

LEMMA TypedIsTypeOK == Typed => TypeOK
BY DEF Typed, TypeOK, FilesType, CliType, EndpointType, LockType, CountType

\* p has moved to one of the places in S, and nobody else has moved.
Moves(p, S) ==
  /\ cli'[p].pc \in S
  /\ \A q \in Process \ {p} : cli'[q] = cli[q]

\* The values a command computes from the files it has loaded.
LEMMA WorkflowValues ==
  /\ NoWorkflow \in Workflow
  /\ \A w \in Workflow :
       /\ w.reserved \in Run \cup {NoRun}
       /\ w.consumed \subseteq Run \cup {Blank}
       /\ \A b \in BOOLEAN : [w EXCEPT !.hold = b] \in Workflow
       /\ \A b \in BOOLEAN : [w EXCEPT !.closed = b] \in Workflow
       /\ \A r \in Run \cup {NoRun} : [w EXCEPT !.reserved = r] \in Workflow
       /\ \A o \in Outcomes : [w EXCEPT !.last = o] \in Workflow
       /\ \A plan \in Plan \cup {NoPlan} : [w EXCEPT !.plan = plan] \in Workflow
       /\ \A r \in Run \cup {Blank} :
            [w EXCEPT !.consumed = w.consumed \cup {r}] \in Workflow
<1>1. NoWorkflow \in Workflow
  BY WorkflowAssumption DEF NoWorkflow, Workflow
<1>. QED
  BY <1>1 DEF Workflow

LEMMA UnreservedTyped ==
  ASSUME NEW w \in Workflow, NEW r \in Run \cup {NoRun, Blank}
  PROVE  Unreserved(w, r) \in Workflow
BY WorkflowValues DEF Unreserved

LEMMA ConsumedTyped ==
  ASSUME NEW w \in Workflow, NEW r \in Run \cup {Blank}
  PROVE  Consumed(w, r) \in Workflow
BY WorkflowValues, UnreservedTyped DEF Consumed

LEMMA FreshTyped ==
  ASSUME NEW id \in 0..MaxWorkflows, NEW plan \in Plan \cup {NoPlan}
  PROVE  [NoWorkflow EXCEPT !.id = id, !.plan = plan] \in Workflow
BY WorkflowAssumption DEF NoWorkflow, Workflow

LEMMA HandoffValues ==
  \A h \in Handoff : \A status \in Statuses :
    [h EXCEPT !.status = status] \in Handoff
BY DEF Handoff

LEMMA TaskOfTyped ==
  ASSUME EndpointType, NEW r \in Run
  PROVE  TaskOf(r) \in Answer
BY DEF EndpointType, TaskOf, Answer

LEMMA OutcomeTyped ==
  ASSUME NEW ans \in Answer
  PROVE  OutcomeOf(ans) \in Outcomes
BY DEF OutcomeOf, worker_stop_confirmed, Outcomes

LEMMA CopiesTyped ==
  ASSUME CliType, NEW p \in Process
  PROVE  /\ cli[p] \in Command
         /\ cli[p].wf \in Workflow /\ cli[p].doc \in Handoff
         /\ cli[p].ans \in Answer /\ cli[p].outcome \in Outcomes
         /\ cli[p].out \in Run \cup {NoRun, Blank}
         /\ cli[p].run \in Run \cup {NoRun}
BY DEF CliType, Command

\* The forms in which an action updates what its command is doing.
LEMMA SetForm ==
  ASSUME CliType, NEW p \in Process, NEW c \in Command, Aimed(c),
         cli' = [cli EXCEPT ![p] = c]
  PROVE  CliType' /\ Moves(p, {c.pc})
BY DEF CliType, Moves

LEMMA GotoForm ==
  ASSUME CliType, NEW p \in Process, NEW place \in Places, Goto(p, place),
         place \in Aiming => cli[p].pc \in Aiming,
         place \in Pointing => cli[p].pc \in Pointing
  PROVE  CliType' /\ Moves(p, {place})
BY DEF CliType, Aimed, Goto, Command, Moves

LEMMA WorkflowForm ==
  ASSUME CliType, NEW p \in Process, NEW place \in Places, NEW w \in Workflow,
         cli' = [cli EXCEPT ![p].pc = place, ![p].wf = w],
         place \in Aiming => cli[p].pc \in Aiming,
         place \in Pointing => cli[p].pc \in Pointing
  PROVE  CliType' /\ Moves(p, {place})
BY DEF CliType, Aimed, Command, Moves

LEMMA DocForm ==
  ASSUME CliType, NEW p \in Process, NEW place \in Places \ (Aiming \cup Pointing),
         NEW w \in Workflow, NEW doc \in Handoff,
         \/ cli' = [cli EXCEPT ![p].pc = place, ![p].wf = w, ![p].doc = doc]
         \/ cli' = [cli EXCEPT ![p].pc = place, ![p].doc = doc]
  PROVE  CliType' /\ Moves(p, {place})
BY DEF CliType, Aimed, Command, Moves

LEMMA PersistForm ==
  ASSUME CliType, FilesType, NEW p \in Process, NEW r \in Run, NEW doc \in Handoff, NEW w \in Workflow,
         PersistRecord(p, r, doc, w, "reserve")
  PROVE  /\ CliType' /\ Moves(p, {"reserve"})
         /\ record' \in [Run -> {"none", "saved", "acked"}]
         /\ request' \in [Run -> Request]
<1>1. CliType' /\ Moves(p, {"reserve"})
  <2>1. NoDoc \in Handoff /\ "reserve" \in Places \ Pointing
    BY DEF NoDoc, Handoff, Statuses, Places, Submitting, Pointing
  <2>2. cli' = [cli EXCEPT ![p].pc = "reserve", ![p].run = r, ![p].wf = w, ![p].doc = NoDoc]
    BY DEF PersistRecord
  <2>. DEFINE c == [cli[p] EXCEPT !.pc = "reserve", !.run = r, !.wf = w, !.doc = NoDoc]
  <2>3. cli[p] \in Command /\ cli \in [Process -> Command]
    BY DEF CliType
  <2>4. c \in Command /\ Aimed(c) /\ c.pc = "reserve"
    BY <2>1, <2>3 DEF Command, Aimed
  <2>5. cli' = [cli EXCEPT ![p] = c]
    BY <2>2, <2>3 
  <2>. QED
    BY <2>4, <2>5, SetForm
<1>2. record' \in [Run -> {"none", "saved", "acked"}]
  BY DEF FilesType, PersistRecord
<1>3. request' \in [Run -> Request]
  <2>1. [workflow |-> w.id, plan |-> doc.plan, status |-> doc.status] \in Request
    BY DEF Workflow, Handoff, Request
  <2>. QED
    BY <2>1 DEF FilesType, PersistRecord
<1>. QED
  BY <1>1, <1>2, <1>3

LEMMA DoneTyped == Done \in Command /\ Aimed(Done) /\ Done.pc = "idle"
<1>1. NoRun \in Run \cup {NoRun} /\ NoWorkflow \in Workflow
  BY WorkflowValues
<1>2. NoDoc \in Handoff /\ NoAnswer \in Answer /\ "idle" \in Places
  BY DEF NoDoc, Handoff, Statuses, NoAnswer, Answer, TaskStates, NoReport,
     Report, Places
<1>3. Done \in Command
  BY <1>1, <1>2 DEF Done, Command, Outcomes
<1>. QED
  BY <1>3 DEF Done, Aimed, Aiming, Pointing

LEMMA EndsForm ==
  ASSUME CliType, NEW p \in Process, Ends(p)
  PROVE  CliType' /\ Moves(p, {"idle"})
BY DoneTyped, SetForm DEF Ends

\* The places of a command of A2A outside submit.lock.
Outside == Places \ (Submitting \cup {"legacy"} \cup LegacySubmitting
                     \cup LegacyExecuting)

LEMMA OutsidePlaces ==
  /\ Outside \subseteq Places
  /\ {"idle", "gate", "adopt", "identify", "submit", "ack", "point", "wait",
      "load", "release", "consume", "reload", "hold", "reheld", "settle",
      "finish", "clear", "notice", "notify", "approve", "activate", "verdict",
      "close", "append", "remove"} \subseteq Outside
BY DEF Outside, Places, Submitting, LegacySubmitting, LegacyExecuting

\* approve
LEMMA ApproveTyped ==
  ASSUME Typed, NEW p \in Process, Approve(p) \/ ApproveSave(p) \/ Activate(p)
  PROVE  FilesType' /\ CliType' /\ Moves(p, Outside) /\ approvals' \in 0..MaxWorkflows
<1>. USE DEF Typed, Moves
<1>0. /\ "approve" \in Outside \ (Aiming \cup Pointing)
      /\ "activate" \in Outside \ (Aiming \cup Pointing)
      /\ "idle" \in Outside /\ Outside \subseteq Places
  BY OutsidePlaces DEF Aiming, Pointing
<1>1. CASE Approve(p)
  <2>1. FilesType'
    BY <1>1 DEF Approve, files, FilesType
  <2>2. CASE /\ Existing # NoWorkflow
             /\ cli' = [cli EXCEPT ![p].pc = "approve",
                                   ![p].wf = Reapproved(Existing)]
             /\ UNCHANGED approvals
    <3>1. Reapproved(Existing) \in Workflow
      BY WorkflowValues DEF Reapproved, Existing, FilesType, Handoff
    <3>. QED
      BY <1>0, <2>1, <2>2, <3>1, WorkflowForm DEF CountType
  <2>3. CASE /\ approvals < MaxWorkflows /\ approvals' = approvals + 1
             /\ cli' = [cli EXCEPT
                  ![p].pc = "approve",
                  ![p].wf = [NoWorkflow EXCEPT !.id = approvals + 1,
                                               !.plan = handoff.plan]]
    <3>1. approvals + 1 \in 0..MaxWorkflows
      BY <2>3, WorkflowAssumption DEF CountType
    <3>2. [NoWorkflow EXCEPT !.id = approvals + 1, !.plan = handoff.plan]
            \in Workflow
      BY <3>1, FreshTyped DEF FilesType, Handoff
    <3>. QED
      BY <1>0, <2>1, <2>3, <3>1, <3>2, WorkflowForm
  <2>. QED
    BY <1>1, <2>2, <2>3, Zenon DEF Approve
<1>2. CASE ApproveSave(p)
  <2>1. FilesType'
    BY <1>2, CopiesTyped DEF ApproveSave, FilesType
  <2>2. CliType' /\ Moves(p, {"activate"})
    BY <1>0, <1>2, GotoForm DEF ApproveSave
  <2>. QED
    BY <1>0, <1>2, <2>1, <2>2 DEF ApproveSave, CountType
<1>3. CASE Activate(p)
  <2>1. FilesType'
    BY <1>3, HandoffValues DEF Activate, FilesType, Statuses, ELIGIBLE
  <2>2. CliType' /\ Moves(p, {"idle"})
    BY <1>3, EndsForm DEF Activate
  <2>. QED
    BY <1>0, <1>3, <2>1, <2>2 DEF Activate, CountType
<1>. QED
  BY <1>1, <1>2, <1>3

\* execute under submit.lock: who holds it after the step.
Submission(p) ==
  \/ TakeSubmitLock(p) \/ SubmissionRefused(p) \/ CheckOnly(p) \/ Prepare(p)
  \/ ClearHold(p) \/ ReserveRound(p) \/ Announce(p) \/ ReleaseSubmitLock(p)

LEMMA SubmissionTyped ==
  ASSUME Typed, NEW p \in Process, Submission(p)
  PROVE  /\ FilesType' /\ CliType'
         /\ \/ /\ Moves(p, Submitting)
               /\ \/ submitLock = NoProcess /\ submitLock' = p
                  \/ cli[p].pc \in Submitting /\ UNCHANGED submitLock
            \/ /\ Moves(p, Outside)
               /\ \/ cli[p].pc \in Submitting /\ submitLock' = NoProcess
                  \/ UNCHANGED submitLock
<1>. USE DEF Typed, Moves
<1>0. /\ Submitting \subseteq Places \ Pointing
      /\ {"check", "prepare", "unhold"} \cap Aiming = {}
      /\ {"idle", "adopt"} \subseteq Outside \cap Places /\ "adopt" \notin Pointing
      /\ {"announce", "unlock", "reserve"} \subseteq Aiming
      /\ {"check", "prepare", "unhold", "announce", "unlock", "reserve"}
           \subseteq Submitting
  BY OutsidePlaces DEF Aiming, Pointing, Submitting, Places
<1>1. CASE TakeSubmitLock(p)
  <2>1. FilesType'
    BY <1>1 DEF TakeSubmitLock, files, FilesType
  <2>. QED
    BY <1>0, <1>1, <2>1, GotoForm, EndsForm DEF TakeSubmitLock
<1>2. CASE SubmissionRefused(p)
  <2>1. FilesType'
    BY <1>2 DEF SubmissionRefused, files, FilesType
  <2>. QED
    BY <1>0, <1>2, <2>1, EndsForm DEF SubmissionRefused
<1>3. CASE CheckOnly(p)
  <2>1. FilesType'
    BY <1>3 DEF CheckOnly, files, FilesType
  <2>. QED
    BY <1>0, <1>3, <2>1, GotoForm DEF CheckOnly, At
<1>4. CASE Prepare(p)
  <2>1. CASE /\ cli' = [cli EXCEPT ![p].pc = "unhold", ![p].wf = workflow,
                                   ![p].doc = handoff]
             /\ UNCHANGED <<record, request>>
    <3>1. FilesType'
      BY <1>4, <2>1 DEF Prepare, FilesType
    <3>2. /\ "unhold" \in Places \ (Aiming \cup Pointing)
          /\ workflow \in Workflow /\ handoff \in Handoff
      BY <1>0 DEF FilesType
    <3>3. CliType' /\ Moves(p, {"unhold"})
      BY <2>1, <3>2, DocForm
    <3>. QED
      BY <1>0, <1>4, <3>1, <3>3 DEF Prepare, At
  <2>2. ASSUME NEW r \in Run, PersistRecord(p, r, handoff, workflow, "reserve")
        PROVE  /\ FilesType' /\ CliType' /\ Moves(p, {"reserve"})
    <3>1. handoff \in Handoff /\ workflow \in Workflow
      BY DEF FilesType
    <3>2. /\ CliType' /\ Moves(p, {"reserve"})
          /\ record' \in [Run -> {"none", "saved", "acked"}]
          /\ request' \in [Run -> Request]
      BY <2>2, <3>1, PersistForm
    <3>. QED
      BY <1>4, <3>1, <3>2 DEF Prepare, FilesType
  <2>. QED
    BY <1>0, <1>4, <2>1, <2>2 DEF Prepare, At
<1>5. CASE ClearHold(p)
  <2>1. workflow' \in Workflow /\ cli[p].doc \in Handoff
    BY <1>5, CopiesTyped, WorkflowValues DEF ClearHold
  <2>2. PICK r \in Run : PersistRecord(p, r, cli[p].doc, workflow', "reserve")
    BY <1>5 DEF ClearHold
  <2>3. /\ CliType' /\ Moves(p, {"reserve"})
        /\ record' \in [Run -> {"none", "saved", "acked"}]
        /\ request' \in [Run -> Request]
    BY <2>1, <2>2, PersistForm
  <2>4. FilesType'
    BY <1>5, <2>1, <2>3 DEF ClearHold, FilesType
  <2>. QED
    BY <1>0, <1>5, <2>3, <2>4 DEF ClearHold, At
<1>6. CASE ReserveRound(p)
  <2>1. cli[p].pc = "reserve" /\ cli[p].run \in Run /\ cli[p].wf \in Workflow
    BY <1>6, CopiesTyped DEF ReserveRound, At, CliType, Aimed, Aiming
  <2>2. FilesType'
    BY <1>6, <2>1, WorkflowValues DEF ReserveRound, FilesType
  <2>3. CASE cli[p].wf.reserved = NoRun /\ Available(cli[p].wf)
    <3>1. /\ cli' = [cli EXCEPT ![p].pc = "announce", ![p].wf = NoWorkflow]
          /\ UNCHANGED submitLock
      BY <1>6, <2>3 DEF ReserveRound
    <3>2. "announce" \in Places \ Pointing /\ "reserve" \in Aiming
      BY <1>0
    <3>3. NoWorkflow \in Workflow
      BY WorkflowValues
    <3>4. CliType' /\ Moves(p, {"announce"})
      BY <2>1, <3>1, <3>2, <3>3, WorkflowForm
    <3>. QED
      BY <1>0, <2>1, <2>2, <3>1, <3>4
  <2>4. CASE ~(cli[p].wf.reserved = NoRun /\ Available(cli[p].wf))
    <3>1. submitLock' = NoProcess /\ Ends(p)
      BY <1>6, <2>4 DEF ReserveRound
    <3>. QED
      BY <1>0, <2>1, <2>2, <3>1, EndsForm
  <2>. QED
    BY <2>3, <2>4
<1>7. CASE Announce(p)
  <2>1. FilesType'
    BY <1>7, CopiesTyped DEF Announce, FilesType
  <2>. QED
    BY <1>0, <1>7, <2>1, GotoForm DEF Announce, At
<1>8. CASE ReleaseSubmitLock(p)
  <2>1. FilesType'
    BY <1>8 DEF ReleaseSubmitLock, files, FilesType
  <2>2. CliType' /\ Moves(p, {"adopt"})
    BY <1>0, <1>8, <2>1, GotoForm DEF ReleaseSubmitLock, At
  <2>. QED
    BY <1>0, <1>8, <2>1, <2>2 DEF ReleaseSubmitLock, At
<1>. QED
  BY <1>1, <1>2, <1>3, <1>4, <1>5, <1>6, <1>7, <1>8 DEF Submission

\* execute outside the lock, resume, status and cancel.  What they do to Tasks
\* and reports is well typed too.
Delivery(p) ==
  \/ \E watch \in BOOLEAN :
       Execute(p, watch) \/ Resume(p, watch) \/ CheckStatus(p, watch)
  \/ Adopt(p) \/ SaveOutstanding(p) \/ Submit(p) \/ Ack(p) \/ Wait(p)
  \/ CancelRun(p)

LEMMA LoadedForm ==
  ASSUME CliType, NEW p \in Process, outstanding \in Run, NEW watch \in BOOLEAN,
         NEW place \in Places, NEW ans \in Answer,
         \/ cli' = [cli EXCEPT ![p] =
              [Loaded(p) EXCEPT !.pc = place, !.watch = watch, !.ans = ans]]
         \/ cli' = [cli EXCEPT ![p] =
              [Loaded(p) EXCEPT !.watch = watch, !.pc = place]]
         \/ cli' = [cli EXCEPT ![p] =
              [Loaded(p) EXCEPT !.pc = place, !.ans = ans]]
  PROVE  CliType' /\ Moves(p, {place})
<1>. DEFINE c == [Loaded(p) EXCEPT !.pc = place, !.watch = watch, !.ans = ans]
            d == [Loaded(p) EXCEPT !.watch = watch, !.pc = place]
            e == [Loaded(p) EXCEPT !.pc = place, !.ans = ans]
<1>1. cli[p] \in Command
  BY CopiesTyped
<1>2. /\ Loaded(p) \in Command /\ Loaded(p).run \in Run
      /\ Loaded(p).out \in Run
  BY <1>1 DEF Loaded, Command
<1>3. c \in Command /\ Aimed(c) /\ c.pc = place
  BY <1>2, WorkflowAssumption DEF Command, Aimed
<1>4. d \in Command /\ Aimed(d) /\ d.pc = place
  BY <1>2, WorkflowAssumption DEF Command, Aimed
<1>5. e \in Command /\ Aimed(e) /\ e.pc = place
  BY <1>2, WorkflowAssumption DEF Command, Aimed
<1>6. \/ cli' = [cli EXCEPT ![p] = c]
      \/ cli' = [cli EXCEPT ![p] = d]
      \/ cli' = [cli EXCEPT ![p] = e]
  OBVIOUS
<1>. HIDE DEF c, d, e
<1>. QED
  BY <1>3, <1>4, <1>5, <1>6, SetForm

LEMMA DeliveryTyped ==
  ASSUME Typed, NEW p \in Process, Delivery(p)
  PROVE  FilesType' /\ CliType' /\ EndpointType' /\ Moves(p, Outside)
<1>. USE DEF Typed
<1>0. /\ {"idle", "gate", "identify", "submit", "ack", "point", "wait", "load"}
           \subseteq Outside \cap Places
      /\ "gate" \notin Aiming \cup Pointing
      /\ {"identify", "submit", "ack", "point", "wait", "load"}
           \subseteq Aiming \cap Pointing
  BY OutsidePlaces DEF Aiming, Pointing
<1>1. ASSUME NEW watch \in BOOLEAN, Execute(p, watch)
      PROVE  FilesType' /\ CliType' /\ EndpointType' /\ Moves(p, Outside)
  <2>. DEFINE c == [cli[p] EXCEPT !.pc = "gate", !.execute = TRUE,
                                  !.watch = watch]
  <2>1. cli[p] \in Command /\ cli \in [Process -> Command]
    BY DEF CliType
  <2>2. c \in Command /\ Aimed(c) /\ c.pc = "gate"
    BY <1>0, <2>1 DEF Command, Aimed
  <2>3. cli' = [cli EXCEPT ![p] = c]
    BY <1>1, <2>1 DEF Execute
  <2>4. FilesType' /\ EndpointType'
    BY <1>1 DEF Execute, files, endpoint, FilesType, EndpointType
  <2>. HIDE DEF c
  <2>5. CliType' /\ Moves(p, {c.pc})
    BY <2>2, <2>3, SetForm
  <2>. QED
    BY <1>0, <2>2, <2>4, <2>5 DEF Moves
<1>2. ASSUME NEW watch \in BOOLEAN, Resume(p, watch)
      PROVE  FilesType' /\ CliType' /\ EndpointType' /\ Moves(p, Outside)
  <2>1. PICK place \in {"wait", "submit"} :
          cli' = [cli EXCEPT ![p] =
                    [Loaded(p) EXCEPT !.watch = watch, !.pc = place]]
    BY <1>2 DEF Resume
  <2>2. cli[p].ans \in Answer /\ outstanding \in Run
    BY <1>2, CopiesTyped DEF Resume
  <2>3. CliType' /\ Moves(p, {place})
    BY <1>0, <2>1, <2>2, LoadedForm
  <2>4. FilesType' /\ EndpointType'
    BY <1>2 DEF Resume, files, endpoint, FilesType, EndpointType
  <2>. QED
    BY <1>0, <2>1, <2>3, <2>4 DEF Moves
<1>3. ASSUME NEW watch \in BOOLEAN, CheckStatus(p, watch)
      PROVE  FilesType' /\ CliType' /\ EndpointType' /\ Moves(p, Outside)
  <2>1. outstanding \in Run /\ TaskOf(outstanding) \in Answer
    BY <1>3, TaskOfTyped DEF CheckStatus
  <2>2. cli' = [cli EXCEPT ![p] =
                  [Loaded(p) EXCEPT !.pc = "load", !.watch = watch,
                                    !.ans = TaskOf(outstanding)]]
    BY <1>3 DEF CheckStatus
  <2>3. CliType' /\ Moves(p, {"load"})
    BY <1>0, <2>1, <2>2, LoadedForm
  <2>4. FilesType' /\ EndpointType'
    BY <1>3 DEF CheckStatus, files, endpoint, FilesType, EndpointType
  <2>. QED
    BY <1>0, <2>3, <2>4 DEF Moves
<1>4. CASE Adopt(p)
  <2>. DEFINE out == IF outstanding = NoRun THEN Blank ELSE outstanding
              c == [cli[p] EXCEPT !.pc = "identify", !.out = out]
  <2>1. cli[p] \in Command /\ cli \in [Process -> Command] /\ Aimed(cli[p])
    BY DEF CliType
  <2>2. out \in Run \cup {NoRun, Blank} /\ out # NoRun
    BY WorkflowAssumption DEF FilesType
  <2>3. cli[p].pc \in Aiming
    BY <1>4 DEF Adopt, At, Aiming
  <2>4. c \in Command /\ Aimed(c) /\ c.pc = "identify"
    BY <1>0, <2>1, <2>2, <2>3 DEF Command, Aimed
  <2>5. cli' = [cli EXCEPT ![p] = c]
    BY <1>4, <2>1 DEF Adopt
  <2>6. FilesType' /\ EndpointType'
    BY <1>4 DEF Adopt, files, endpoint, FilesType, EndpointType
  <2>. HIDE DEF c
  <2>7. CliType' /\ Moves(p, {c.pc})
    BY <2>4, <2>5, SetForm
  <2>. QED
    BY <1>0, <2>4, <2>6, <2>7 DEF Moves
<1>5. CASE SaveOutstanding(p)
  <2>1. cli[p].pc \in {"identify", "point"} /\ cli[p].out \in Run \cup {NoRun, Blank}
    BY <1>5, CopiesTyped DEF SaveOutstanding
  <2>2. FilesType' /\ EndpointType'
    BY <1>5, <2>1 DEF SaveOutstanding, FilesType, EndpointType, endpoint
  <2>3. PICK place \in {"submit", "wait"} : Goto(p, place)
    BY <1>5 DEF SaveOutstanding
  <2>4. CliType' /\ Moves(p, {place})
    BY <1>0, <2>1, <2>3, GotoForm
  <2>. QED
    BY <1>0, <2>2, <2>3, <2>4 DEF Moves
<1>6. CASE Submit(p)
  <2>1. FilesType'
    BY <1>6 DEF Submit, files, FilesType
  <2>2. EndpointType'
    BY <1>6 DEF Submit, EndpointType, TaskStates, Open
  <2>3. CASE Goto(p, "ack")
    <3>1. CliType' /\ Moves(p, {"ack"})
      BY <1>0, <1>6, <2>3, GotoForm DEF Submit, At
    <3>. QED
      BY <1>0, <2>1, <2>2, <3>1 DEF Moves
  <2>4. CASE Ends(p)
    BY <1>0, <2>1, <2>2, <2>4, EndsForm DEF Moves
  <2>. QED
    BY <1>6, <2>3, <2>4 DEF Submit
<1>7. CASE Ack(p)
  <2>1. FilesType' /\ EndpointType'
    BY <1>7 DEF Ack, endpoint, FilesType, EndpointType
  <2>2. PICK place \in {"point", "wait"} : Goto(p, place)
    BY <1>7 DEF Ack
  <2>3. CliType' /\ Moves(p, {place})
    BY <1>0, <1>7, <2>2, GotoForm DEF Ack, At
  <2>. QED
    BY <1>0, <2>1, <2>2, <2>3 DEF Moves
<1>8. CASE Wait(p)
  <2>1. FilesType' /\ EndpointType'
    BY <1>8 DEF Wait, files, endpoint, FilesType, EndpointType
  <2>2. CASE cli' = [cli EXCEPT ![p].pc = "load", ![p].ans = TaskOf(cli[p].run)]
    <3>. DEFINE c == [cli[p] EXCEPT !.pc = "load", !.ans = TaskOf(cli[p].run)]
    <3>1. cli[p] \in Command /\ cli \in [Process -> Command] /\ Aimed(cli[p])
      BY DEF CliType
    <3>2. cli[p].pc \in Aiming \cap Pointing
      BY <1>0, <1>8 DEF Wait, At
    <3>3. TaskOf(cli[p].run) \in Answer
      BY <3>1, <3>2, TaskOfTyped DEF Aimed
    <3>4. c \in Command /\ Aimed(c) /\ c.pc = "load"
      BY <1>0, <3>1, <3>2, <3>3 DEF Command, Aimed
    <3>5. cli' = [cli EXCEPT ![p] = c]
      BY <2>2, <3>1
    <3>. HIDE DEF c
    <3>6. CliType' /\ Moves(p, {c.pc})
      BY <3>4, <3>5, SetForm
    <3>. QED
      BY <1>0, <2>1, <3>4, <3>6 DEF Moves
  <2>3. CASE Ends(p)
    BY <1>0, <2>1, <2>3, EndsForm DEF Moves
  <2>. QED
    BY <1>8, <2>2, <2>3 DEF Wait
<1>9. CASE CancelRun(p)
  <2>1. FilesType'
    BY <1>9 DEF CancelRun, files, FilesType
  <2>2. EndpointType'
    <3>1. outstanding \in Run /\ launched' = launched
      BY <1>9 DEF CancelRun
    <3>2. PICK state \in {"canceled", "failed", "recovery"} :
            task' = [task EXCEPT ![outstanding] = state]
      BY <1>9 DEF CancelRun
    <3>3. \/ report' = [report EXCEPT ![outstanding].stopped = TRUE]
          \/ report' = report
      BY <1>9 DEF CancelRun
    <3>4. task' \in [Run -> TaskStates]
      BY <3>2 DEF EndpointType, TaskStates, Open, Terminal
    <3>5. report' \in [Run -> Report]
      BY <3>3 DEF EndpointType, Report
    <3>. QED
      BY <3>1, <3>4, <3>5 DEF EndpointType
  <2>3. CASE cli' = cli
    BY <1>0, <1>9, <2>1, <2>2, <2>3 DEF Moves, CliType, CancelRun, At
  <2>4. CASE cli' # cli
    <3>. DEFINE ans == [state |-> task'[outstanding],
                        report |-> report'[outstanding],
                        launched |-> launched[outstanding]]
    <3>1. outstanding \in Run
      BY <1>9 DEF CancelRun
    <3>2. ans \in Answer
      BY <2>2, <3>1 DEF EndpointType, Answer
    <3>3. cli' = [cli EXCEPT ![p] = [Loaded(p) EXCEPT !.pc = "load", !.ans = ans]]
      BY <1>9, <2>4 DEF CancelRun
    <3>. HIDE DEF ans
    <3>4. CliType' /\ Moves(p, {"load"})
      BY <1>0, <3>1, <3>2, <3>3, LoadedForm
    <3>. QED
      BY <1>0, <2>1, <2>2, <3>4 DEF Moves
  <2>. QED
    BY <2>3, <2>4
<1>. QED
  BY <1>1, <1>2, <1>3, <1>4, <1>5, <1>6, <1>7, <1>8, <1>9 DEF Delivery

\* _reconcile, and what watch announces.
Reconcile(p) ==
  \/ Load(p) \/ ReleaseReservation(p) \/ ConsumeRound(p) \/ Reload(p)
  \/ SetHold(p) \/ Settle(p) \/ Finish(p) \/ ClearOutstanding(p)
  \/ Notice(p) \/ Notify(p)

LEMMA ReconcileTyped ==
  ASSUME Typed, NEW p \in Process, Reconcile(p)
  PROVE  FilesType' /\ CliType' /\ Moves(p, Outside)
<1>. USE DEF Typed
<1>0. /\ {"idle", "release", "consume", "reload", "hold", "reheld", "settle",
          "finish", "clear", "notice", "notify"} \subseteq Outside \cap Places
      /\ {"idle", "reload", "hold", "reheld", "settle", "finish", "clear",
          "notice", "notify"} \cap (Aiming \cup Pointing) = {}
  BY OutsidePlaces DEF Aiming, Pointing
<1>1. /\ cli[p] \in Command /\ cli \in [Process -> Command] /\ Aimed(cli[p])
      /\ workflow \in Workflow
      /\ cli[p].wf \in Workflow /\ cli[p].outcome \in Outcomes
      /\ cli[p].out \in Run \cup {NoRun, Blank}
  BY CopiesTyped DEF CliType, FilesType
<1>2. ASSUME NEW place \in {"idle", "reload", "hold", "reheld", "settle",
                            "finish", "clear", "notice", "notify"},
             Goto(p, place)
      PROVE  CliType' /\ Moves(p, Outside)
  <2>1. CliType' /\ Moves(p, {place})
    BY <1>0, <1>2, GotoForm
  <2>. QED
    BY <1>0, <2>1 DEF Moves
<1>3. ASSUME NEW place \in {"idle", "reload", "hold", "reheld", "settle",
                            "finish", "clear", "notice", "notify"},
             NEW w \in Workflow,
             \/ cli' = [cli EXCEPT ![p].pc = place, ![p].wf = w]
             \/ cli' = [cli EXCEPT ![p].wf = w, ![p].pc = place]
      PROVE  CliType' /\ Moves(p, Outside)
  <2>1. cli' = [cli EXCEPT ![p].pc = place, ![p].wf = w]
    BY <1>1, <1>3 DEF Command
  <2>2. CliType' /\ Moves(p, {place})
    BY <1>0, <2>1, WorkflowForm
  <2>. QED
    BY <1>0, <2>2 DEF Moves
<1>4. Ends(p) => CliType' /\ Moves(p, Outside)
  BY <1>0, EndsForm DEF Moves
<1>5. CASE Load(p)
  <2>1. FilesType'
    BY <1>5 DEF Load, files, FilesType
  <2>2. CASE Ends(p)
    BY <1>4, <2>1, <2>2
  <2>3. CASE ~Ends(p)
    <3>. DEFINE out == IF cli[p].execute /\ outstanding # NoRun THEN outstanding
                       ELSE cli[p].out
    <3>1. PICK place \in {"release", "consume", "hold"},
               outcome \in {OutcomeOf(cli[p].ans)} :
            cli' = [cli EXCEPT ![p] = [cli[p] EXCEPT !.pc = place, !.wf = workflow,
                                         !.out = out, !.outcome = outcome]]
      BY <1>5, <2>3 DEF Load, Ends
    <3>. DEFINE c == [cli[p] EXCEPT !.pc = place, !.wf = workflow,
                                    !.out = out, !.outcome = outcome]
    <3>2. outcome \in Outcomes
      BY <1>1, CopiesTyped, OutcomeTyped
    <3>3. out \in Run \cup {NoRun, Blank} /\ out # NoRun
      BY <1>1, <1>5 DEF FilesType, Aimed, Load, At, Pointing
    <3>4. place \in Places /\ place \notin Aiming
      BY <1>0 DEF Aiming
    <3>. HIDE DEF out
    <3>5. c \in Command
      BY <1>1, <3>2, <3>3, <3>4 DEF Command
    <3>6. Aimed(c) /\ c.pc = place
      BY <1>1, <3>3, <3>4 DEF Aimed, Command
    <3>7. cli' = [cli EXCEPT ![p] = c]
      BY <3>1
    <3>. HIDE DEF c
    <3>8. CliType' /\ Moves(p, {c.pc})
      BY <3>5, <3>6, <3>7, SetForm
    <3>. QED
      BY <1>0, <2>1, <3>6, <3>8 DEF Moves
  <2>. QED
    BY <2>2, <2>3
<1>6. CASE ReleaseReservation(p)
  <2>1. workflow' \in Workflow
    BY <1>1, <1>6, UnreservedTyped DEF ReleaseReservation
  <2>2. FilesType'
    BY <1>6, <2>1 DEF ReleaseReservation, FilesType
  <2>. QED
    BY <1>2, <1>6, <2>2 DEF ReleaseReservation
<1>7. CASE ConsumeRound(p)
  <2>1. cli[p].out \in Run \cup {Blank}
    BY <1>1, <1>7 DEF ConsumeRound, At, Aimed, Pointing
  <2>2. workflow' \in Workflow
    BY <1>1, <1>7, <2>1, ConsumedTyped DEF ConsumeRound
  <2>3. FilesType'
    BY <1>7, <2>2 DEF ConsumeRound, FilesType
  <2>4. CliType' /\ Moves(p, Outside)
    BY <1>3, <1>7, <2>2 DEF ConsumeRound
  <2>. QED
    BY <2>3, <2>4
<1>8. CASE Reload(p)
  <2>1. FilesType'
    BY <1>8 DEF Reload, files, FilesType
  <2>2. PICK place \in {"hold", "settle"}, w \in Workflow :
          cli' = [cli EXCEPT ![p].wf = w, ![p].pc = place]
    <3>. DEFINE w == IF workflow = NoWorkflow THEN cli[p].wf ELSE workflow
                place == IF At(p, "reload")
                            /\ cli[p].outcome \in {"failed", "canceled", "recovery"}
                         THEN "hold" ELSE "settle"
    <3>1. cli' = [cli EXCEPT ![p].wf = w, ![p].pc = place]
      BY <1>1, <1>8 DEF Reload
    <3>2. w \in Workflow /\ place \in {"hold", "settle"}
      BY <1>1
    <3>. HIDE DEF w, place
    <3>. QED
      BY <3>1, <3>2
  <2>. QED
    BY <1>3, <2>1, <2>2
<1>9. CASE SetHold(p)
  <2>1. workflow' \in Workflow
    BY <1>1, <1>9, WorkflowValues DEF SetHold
  <2>2. FilesType'
    BY <1>9, <2>1 DEF SetHold, FilesType
  <2>. QED
    BY <1>2, <1>4, <1>9, <2>2 DEF SetHold
<1>10. CASE Settle(p)
  <2>1. SubmittedStatus(cli[p].out) \in Statuses
    BY DEF SubmittedStatus, FilesType, Request, Handoff
  <2>2. handoff' \in Handoff
    <3>1. handoff \in Handoff /\ "READY FOR QA" \in Statuses
      BY DEF FilesType, Statuses
    <3>. QED
      BY <1>10, <2>1, <3>1, HandoffValues DEF Settle
  <2>4. FilesType'
    BY <1>10, <2>2 DEF Settle, FilesType
  <2>3. Goto(p, "finish") \/ Ends(p)
    BY <1>10 DEF Settle
  <2>. QED
    BY <1>2, <1>4, <2>3, <2>4
<1>11. CASE Finish(p)
  <2>1. workflow' \in Workflow
    BY <1>1, <1>11, WorkflowValues DEF Finish
  <2>2. FilesType'
    BY <1>11, <2>1 DEF Finish, FilesType
  <2>. QED
    BY <1>2, <1>11, <2>2 DEF Finish
<1>12. CASE ClearOutstanding(p)
  <2>1. FilesType'
    BY <1>12 DEF ClearOutstanding, FilesType
  <2>2. CASE cli' = [cli EXCEPT ![p] = [Done EXCEPT !.pc = "notice"]]
    <3>1. Done \in Command
      BY DoneTyped
    <3>. DEFINE c == [Done EXCEPT !.pc = "notice"]
    <3>2. c \in Command /\ Aimed(c) /\ c.pc = "notice"
      BY <1>0, <3>1 DEF Command, Aimed
    <3>3. cli' = [cli EXCEPT ![p] = c]
      BY <2>2
    <3>. HIDE DEF c
    <3>4. CliType' /\ Moves(p, {c.pc})
      BY <3>2, <3>3, SetForm
    <3>. QED
      BY <1>0, <2>1, <3>2, <3>4 DEF Moves
  <2>. QED
    BY <1>4, <1>12, <2>1, <2>2 DEF ClearOutstanding
<1>13. CASE Notice(p)
  <2>1. FilesType'
    BY <1>13 DEF Notice, files, FilesType
  <2>. QED
    BY <1>1, <1>3, <1>4, <1>13, <2>1 DEF Notice
<1>14. CASE Notify(p)
  <2>1. FilesType'
    BY <1>1, <1>14 DEF Notify, FilesType
  <2>. QED
    BY <1>4, <1>14, <2>1 DEF Notify
<1>. QED
  BY <1>5, <1>6, <1>7, <1>8, <1>9, <1>10, <1>11, <1>12, <1>13, <1>14
  DEF Reconcile

\* qa and archive.
Closing(p) ==
  \/ \E verdict \in {"APPROVED", "CHANGES REQUESTED"} : QA(p, verdict)
  \/ \E superseded \in BOOLEAN : Archive(p, superseded)
  \/ WriteVerdict(p) \/ CloseWorkflow(p) \/ AppendArchive(p)
  \/ RemoveWorkflow(p)

LEMMA ClosingTyped ==
  ASSUME Typed, NEW p \in Process, Closing(p)
  PROVE  FilesType' /\ CliType' /\ Moves(p, Outside)
<1>. USE DEF Typed
<1>0. /\ {"idle", "verdict", "close", "append", "remove"}
           \subseteq Outside \cap Places
      /\ {"verdict", "close", "append", "remove"} \cap (Aiming \cup Pointing) = {}
  BY OutsidePlaces DEF Aiming, Pointing
<1>1. workflow \in Workflow /\ handoff \in Handoff
  BY DEF FilesType
<1>2. Ends(p) => CliType' /\ Moves(p, Outside)
  BY <1>0, EndsForm DEF Moves
<1>3. ASSUME NEW verdict \in {"APPROVED", "CHANGES REQUESTED"}, QA(p, verdict)
      PROVE  FilesType' /\ CliType' /\ Moves(p, Outside)
  <2>1. FilesType'
    BY <1>3 DEF QA, files, FilesType
  <2>2. [handoff EXCEPT !.status = verdict] \in Handoff
    BY <1>1, <1>3, HandoffValues DEF Statuses, ELIGIBLE
  <2>3. cli' = [cli EXCEPT ![p].pc = "verdict",
                           ![p].doc = [handoff EXCEPT !.status = verdict]]
    BY <1>3 DEF QA
  <2>4. "verdict" \in Places \ (Aiming \cup Pointing)
    BY <1>0
  <2>5. CliType' /\ Moves(p, {"verdict"})
    BY <1>1, <2>2, <2>3, <2>4, DocForm
  <2>. QED
    BY <1>0, <2>1, <2>5 DEF Moves
<1>4. ASSUME NEW superseded \in BOOLEAN, Archive(p, superseded)
      PROVE  FilesType' /\ CliType' /\ Moves(p, Outside)
  <2>1. FilesType'
    BY <1>4 DEF Archive, files, FilesType
  <2>. DEFINE w == [workflow EXCEPT !.closed = workflow # NoWorkflow]
  <2>2. w \in Workflow
    <3>1. (workflow # NoWorkflow) \in BOOLEAN
      OBVIOUS
    <3>. QED
      BY <1>1, <3>1, WorkflowValues
  <2>3. PICK place \in {"append", "close"} :
          cli' = [cli EXCEPT ![p].pc = place, ![p].wf = w, ![p].doc = handoff]
    BY <1>4 DEF Archive
  <2>. HIDE DEF w
  <2>4. CliType' /\ Moves(p, {place})
    BY <1>0, <1>1, <2>2, <2>3, DocForm
  <2>. QED
    BY <1>0, <2>1, <2>3, <2>4 DEF Moves
<1>5. CASE WriteVerdict(p) \/ RemoveWorkflow(p)
  <2>1. FilesType'
    BY <1>5, CopiesTyped, WorkflowValues DEF WriteVerdict, RemoveWorkflow, FilesType
  <2>. QED
    BY <1>2, <1>5, <2>1 DEF WriteVerdict, RemoveWorkflow
<1>6. CASE CloseWorkflow(p) \/ AppendArchive(p)
  <2>1. FilesType'
    BY <1>6, CopiesTyped DEF CloseWorkflow, AppendArchive, FilesType, Handoff
  <2>2. PICK place \in {"append", "remove"} : Goto(p, place)
    BY <1>6 DEF CloseWorkflow, AppendArchive
  <2>3. CliType' /\ Moves(p, {place})
    BY <1>0, <2>2, GotoForm
  <2>. QED
    BY <1>0, <2>1, <2>2, <2>3 DEF Moves
<1>. QED
  BY <1>3, <1>4, <1>5, <1>6 DEF Closing

-----------------------------------------------------------------------------
(* What a command may do to the two lock directories: leave one alone,     *)
(* take one that nobody holds, or give one back at a place that holds it.  *)

Locked == Submitting \cup LegacySubmitting

SubmitStep(p) ==
  \/ UNCHANGED submitLock /\ (cli'[p].pc \in Locked => cli[p].pc \in Locked)
  \/ submitLock = NoProcess /\ submitLock' = p
  \/ cli[p].pc \in Locked /\ submitLock' = NoProcess /\ cli'[p].pc \notin Locked

ExecuteStep(p) ==
  \/ /\ UNCHANGED executeLock
     /\ cli'[p].pc \in LegacyExecuting => cli[p].pc \in LegacyExecuting
  \/ executeLock = NoRun /\ executeLock' = p
  \/ /\ cli[p].pc \in LegacyExecuting /\ executeLock' = NoRun
     /\ cli'[p].pc \notin LegacyExecuting

Legacy(p) ==
  \/ LegacyExecute(p) \/ LegacyTakeSubmit(p) \/ LegacyRecheck(p)
  \/ LegacyTakeExecute(p) \/ LegacyGiveSubmit(p) \/ LegacyHeld(p)
  \/ LegacyReadWorkflow(p) \/ LegacyLiftHold(p) \/ LegacyExit(p)

LEMMA LegacyTyped ==
  ASSUME Typed, NEW p \in Process, Legacy(p)
  PROVE  /\ FilesType' /\ CliType' /\ Moves(p, Places)
         /\ SubmitStep(p) /\ ExecuteStep(p)
<1>. USE DEF Typed
<1>0. /\ {"idle", "legacy", "recheck", "enter", "handback", "held", "read",
          "lift", "run"} \subseteq Places \ (Aiming \cup Pointing)
      /\ {"recheck", "enter", "handback"} \subseteq Locked
      /\ {"handback", "held", "read", "lift", "run"} \subseteq LegacyExecuting
      /\ {"idle", "legacy", "held", "read", "lift", "run"} \cap Locked = {}
      /\ {"idle", "legacy", "recheck", "enter"} \cap LegacyExecuting = {}
  BY DEF Aiming, Pointing, Places, Locked, Submitting, LegacySubmitting,
     LegacyExecuting
<1>1. ASSUME NEW place \in {"legacy", "recheck", "enter", "handback", "held",
                            "read", "run"}, Goto(p, place)
      PROVE  CliType' /\ Moves(p, {place})
  BY <1>0, <1>1, GotoForm
<1>2. ASSUME NEW place \in {"run", "lift"}, NEW w \in Workflow,
             cli' = [cli EXCEPT ![p].pc = place, ![p].wf = w]
      PROVE  CliType' /\ Moves(p, {place})
  BY <1>0, <1>2, WorkflowForm
<1>3. Ends(p) => CliType' /\ Moves(p, {"idle"})
  BY EndsForm
<1>4. CASE LegacyExecute(p) \/ LegacyTakeSubmit(p) \/ LegacyRecheck(p)
           \/ LegacyTakeExecute(p) \/ LegacyGiveSubmit(p) \/ LegacyHeld(p)
           \/ LegacyExit(p)
  <2>1. FilesType'
    BY <1>4 DEF LegacyExecute, LegacyTakeSubmit, LegacyRecheck,
       LegacyTakeExecute, LegacyGiveSubmit, LegacyHeld, LegacyExit, files,
       FilesType
  <2>2. CASE LegacyExecute(p) \/ LegacyTakeSubmit(p)
    BY <1>0, <1>1, <1>3, <2>1, <2>2
    DEF LegacyExecute, LegacyTakeSubmit, Moves, SubmitStep, ExecuteStep,
        endpoint
  <2>3. CASE LegacyRecheck(p)
    BY <1>0, <1>1, <1>3, <2>1, <2>3
    DEF LegacyRecheck, Moves, SubmitStep, ExecuteStep, endpoint, At
  <2>4. CASE LegacyTakeExecute(p)
    BY <1>0, <1>1, <1>3, <2>1, <2>4
    DEF LegacyTakeExecute, Moves, SubmitStep, ExecuteStep, At
  <2>5. CASE LegacyGiveSubmit(p)
    BY <1>0, <1>1, <1>3, <2>1, <2>5
    DEF LegacyGiveSubmit, Moves, SubmitStep, ExecuteStep, endpoint, At
  <2>6. CASE LegacyHeld(p)
    <3>1. PICK place \in {"read", "run"} : Goto(p, place)
      BY <2>6 DEF LegacyHeld
    <3>. QED
      BY <1>0, <1>1, <2>1, <2>6, <3>1
      DEF LegacyHeld, Moves, SubmitStep, ExecuteStep, endpoint, At
  <2>7. CASE LegacyExit(p)
    BY <1>0, <1>1, <1>3, <2>1, <2>7
    DEF LegacyExit, Moves, SubmitStep, ExecuteStep, At
  <2>. QED
    BY <1>4, <2>2, <2>3, <2>4, <2>5, <2>6, <2>7
<1>5. CASE LegacyReadWorkflow(p)
  <2>1. FilesType'
    BY <1>5 DEF LegacyReadWorkflow, files, FilesType
  <2>2. PICK place \in {"run", "lift"} :
          cli' = [cli EXCEPT ![p].pc = place,
                             ![p].wf = [workflow EXCEPT !.hold = FALSE]]
    BY <1>5 DEF LegacyReadWorkflow
  <2>3. [workflow EXCEPT !.hold = FALSE] \in Workflow
    BY WorkflowValues DEF FilesType
  <2>4. CliType' /\ Moves(p, {place})
    BY <1>2, <2>2, <2>3
  <2>. QED
    BY <1>0, <1>5, <2>1, <2>2, <2>4
    DEF LegacyReadWorkflow, Moves, SubmitStep, ExecuteStep, endpoint, At
<1>6. CASE LegacyLiftHold(p)
  <2>1. FilesType'
    BY <1>6, CopiesTyped DEF LegacyLiftHold, FilesType
  <2>2. CliType' /\ Moves(p, {"run"})
    BY <1>2, <1>6, WorkflowValues DEF LegacyLiftHold
  <2>. QED
    BY <1>0, <1>6, <2>1, <2>2
    DEF LegacyLiftHold, Moves, SubmitStep, ExecuteStep, endpoint, At
<1>. QED
  BY <1>4, <1>5, <1>6 DEF Legacy

\* A command that runs, whatever it does.
Runs(p) == Start(p) \/ Step(p) \/ SubmissionRefused(p) \/ LegacyWrites(p)

LEMMA RunsTyped ==
  ASSUME Typed, NEW p \in Process, Runs(p)
  PROVE  Typed' /\ Moves(p, Places) /\ SubmitStep(p) /\ ExecuteStep(p)
<1>. USE DEF Typed
<1>1. /\ Outside \subseteq Places \ (Locked \cup LegacyExecuting)
      /\ Submitting \subseteq Places \ LegacyExecuting
      /\ Submitting \subseteq Locked
  BY DEF Outside, Places, Locked, Submitting, LegacySubmitting, LegacyExecuting
<1>2. CASE Approve(p) \/ ApproveSave(p) \/ Activate(p)
  <2>1. FilesType' /\ CliType' /\ Moves(p, Outside)
        /\ approvals' \in 0..MaxWorkflows
    BY <1>2, ApproveTyped
  <2>2. UNCHANGED <<submitLock, endpoint, edits, crashes>>
    BY <1>2 DEF Approve, ApproveSave, Activate
  <2>. QED
    BY <1>1, <2>1, <2>2 DEF Moves, SubmitStep, ExecuteStep, endpoint,
       EndpointType, LockType, CountType
<1>3. CASE Submission(p)
  <2>1. UNCHANGED <<endpoint, approvals, edits, crashes>>
    BY <1>3 DEF Submission, TakeSubmitLock, SubmissionRefused, CheckOnly,
       Prepare, ClearHold, ReserveRound, Announce, ReleaseSubmitLock
  <2>2. EndpointType' /\ CountType' /\ UNCHANGED executeLock
    BY <2>1 DEF endpoint, EndpointType, CountType
  <2>3. /\ FilesType' /\ CliType'
        /\ \/ /\ Moves(p, Submitting)
              /\ \/ submitLock = NoProcess /\ submitLock' = p
                 \/ cli[p].pc \in Submitting /\ UNCHANGED submitLock
           \/ /\ Moves(p, Outside)
              /\ \/ cli[p].pc \in Submitting /\ submitLock' = NoProcess
                 \/ UNCHANGED submitLock
    BY <1>3, SubmissionTyped
  <2>. QED
    BY <1>1, <2>2, <2>3 DEF Moves, SubmitStep, ExecuteStep, LockType
<1>4. CASE Delivery(p)
  <2>1. FilesType' /\ CliType' /\ EndpointType' /\ Moves(p, Outside)
    BY <1>4, DeliveryTyped
  <2>2. UNCHANGED <<submitLock, executeLock, approvals, edits, crashes, outages>>
    BY <1>4 DEF Delivery, Execute, Resume, CheckStatus, Adopt, SaveOutstanding,
       Submit, Ack, Wait, CancelRun, endpoint
  <2>. QED
    BY <1>1, <2>1, <2>2 DEF Moves, SubmitStep, ExecuteStep, LockType, CountType
<1>5. CASE Reconcile(p) \/ Closing(p)
  <2>1. FilesType' /\ CliType' /\ Moves(p, Outside)
    BY <1>5, ReconcileTyped, ClosingTyped
  <2>2. UNCHANGED <<submitLock, endpoint, approvals, edits, crashes>>
    BY <1>5 DEF Reconcile, Load, ReleaseReservation, ConsumeRound, Reload,
       SetHold, Settle, Finish, ClearOutstanding, Notice, Notify, Closing, QA,
       Archive, WriteVerdict, CloseWorkflow, AppendArchive, RemoveWorkflow
  <2>. QED
    BY <1>1, <2>1, <2>2 DEF Moves, SubmitStep, ExecuteStep, endpoint,
       EndpointType, LockType, CountType
<1>6. CASE Legacy(p)
  <2>1. /\ FilesType' /\ CliType' /\ Moves(p, Places)
        /\ SubmitStep(p) /\ ExecuteStep(p)
    BY <1>6, LegacyTyped
  <2>2. UNCHANGED <<task, report, launched, outages, approvals, edits, crashes>>
    BY <1>6 DEF Legacy, LegacyExecute, LegacyTakeSubmit, LegacyRecheck,
       LegacyTakeExecute, LegacyGiveSubmit, LegacyHeld, LegacyReadWorkflow,
       LegacyLiftHold, LegacyExit, endpoint
  <2>. QED
    BY <2>1, <2>2 DEF SubmitStep, ExecuteStep, EndpointType, LockType, CountType
<1>7. CASE LegacyWrites(p)
  <2>1. [handoff EXCEPT !.status = "READY FOR QA"] \in Handoff
    BY HandoffValues DEF FilesType, Statuses
  <2>2. FilesType'
    BY <1>7, <2>1 DEF LegacyWrites, planner, FilesType
  <2>3. cli[p].pc \in Places
    BY CopiesTyped DEF Command
  <2>. QED
    BY <1>7, <2>2, <2>3 DEF LegacyWrites, planner, CliType, EndpointType,
       LockType, CountType, Moves, SubmitStep, ExecuteStep
<1>. QED
  BY <1>2, <1>3, <1>4, <1>5, <1>6, <1>7
  DEF Runs, Start, Step, Submission, Delivery, Reconcile, Closing, Legacy

\* The places of a legacy execute.
LegacyPlaces == {"legacy"} \cup LegacySubmitting \cup LegacyExecuting

\* Nobody comes there from elsewhere when the command is not used.
LEMMA RunsLegacy ==
  ASSUME Typed, NEW p \in Process, Runs(p), "legacy" \notin Commands,
         cli[p].pc \notin LegacyPlaces
  PROVE  /\ cli'[p].pc \notin LegacyPlaces
         /\ \A q \in Process \ {p} : cli'[q] = cli[q]
         /\ \/ Approve(p) \/ ApproveSave(p) \/ Activate(p) \/ Submission(p)
            \/ Delivery(p) \/ Reconcile(p) \/ Closing(p)
<1>1. LegacyPlaces \cap (Outside \cup Submitting) = {}
  BY DEF LegacyPlaces, Outside, Submitting, LegacySubmitting, LegacyExecuting
<1>2. /\ {"legacy", "recheck", "enter", "handback", "held", "read", "lift", "run"}
           \subseteq LegacyPlaces
  BY DEF LegacyPlaces, LegacySubmitting, LegacyExecuting
<1>3. ~LegacyWrites(p) /\ ~LegacyTakeSubmit(p) /\ ~LegacyRecheck(p)
      /\ ~LegacyTakeExecute(p) /\ ~LegacyGiveSubmit(p) /\ ~LegacyHeld(p)
      /\ ~LegacyReadWorkflow(p) /\ ~LegacyLiftHold(p) /\ ~LegacyExit(p)
  BY <1>2 DEF At, LegacyWrites, LegacyTakeSubmit, LegacyRecheck,
     LegacyTakeExecute, LegacyGiveSubmit, LegacyHeld, LegacyReadWorkflow,
     LegacyLiftHold, LegacyExit
<1>4. \/ Approve(p) \/ ApproveSave(p) \/ Activate(p) \/ Submission(p)
      \/ Delivery(p) \/ Reconcile(p) \/ Closing(p)
  BY <1>3, Zenon DEF Runs, Start, Step, Submission, Delivery, Reconcile, Closing
<1>5. Moves(p, Outside) \/ Moves(p, Submitting)
  BY <1>4, ApproveTyped, SubmissionTyped, DeliveryTyped, ReconcileTyped,
     ClosingTyped
<1>. QED
  BY <1>1, <1>4, <1>5 DEF Moves

-----------------------------------------------------------------------------
(* The endpoint, and the type theorem.                                     *)

Endpoint(r) == Progress(r) \/ WorkerWrites(r) \/ Restart(r)

LEMMA EndpointTyped ==
  ASSUME Typed, NEW r \in Run, Endpoint(r)
  PROVE  Typed'
<1>. USE DEF Typed
<1>1. UNCHANGED planner
  BY DEF Endpoint, Progress, Begin, Reject, Launch, ReportStart, FinishRun,
     Unlock, WorkerWrites, Restart
<1>2. CliType'
  BY <1>1 DEF planner, CliType
<1>3. FilesType'
  <2>1. handoff' \in Handoff
    <3>1. CASE WorkerWrites(r)
      <4>1. handoff \in Handoff /\ {"READY FOR QA", "APPROVED"} \subseteq Statuses
        BY DEF FilesType, Statuses
      <4>. QED
        BY <3>1, <4>1, HandoffValues DEF WorkerWrites
    <3>2. CASE Progress(r) \/ Restart(r)
      BY <3>2 DEF Progress, Begin, Reject, Launch, ReportStart, FinishRun,
         Unlock, Restart, FilesType
    <3>. QED
      BY <3>1, <3>2 DEF Endpoint
  <2>. QED
    BY <1>1, <2>1 DEF planner, FilesType
<1>4. EndpointType'
  <2>1. CASE Begin(r) \/ Reject(r) \/ Unlock(r) \/ WorkerWrites(r)
    BY <2>1 DEF Begin, Reject, Unlock, WorkerWrites, EndpointType, TaskStates,
       Open, Terminal
  <2>2. CASE Launch(r)
    BY <2>2 DEF Launch, EndpointType, TaskStates, Open, Terminal
  <2>3. CASE ReportStart(r)
    BY <2>3 DEF ReportStart, EndpointType, Report
  <2>4. CASE FinishRun(r)
    <3>1. PICK state \in {"completed", "failed"}, result \in BOOLEAN :
            /\ task' = [task EXCEPT ![r] = state]
            /\ report' = [report EXCEPT ![r].stopped = TRUE,
                                        ![r].result = result]
      BY <2>4 DEF FinishRun
    <3>2. task' \in [Run -> TaskStates]
      BY <3>1 DEF EndpointType, TaskStates, Terminal
    <3>3. report' \in [Run -> Report]
      BY <3>1 DEF EndpointType, Report
    <3>. QED
      BY <2>4, <3>2, <3>3 DEF FinishRun, EndpointType
  <2>5. CASE Restart(r)
    BY <2>5 DEF Restart, EndpointType, TaskStates, Open, Terminal
  <2>. QED
    BY <2>1, <2>2, <2>3, <2>4, <2>5 DEF Endpoint, Progress
<1>5. LockType'
  BY <1>1 DEF planner, LockType, Endpoint, Progress, Begin, Reject, Launch,
     ReportStart, FinishRun, Unlock, WorkerWrites, Restart
<1>6. CountType'
  <2>1. outages' \in 0..MaxOutages
    <3>1. CASE Restart(r)
      BY <3>1, WorkflowAssumption DEF Restart, CountType
    <3>2. CASE Progress(r) \/ WorkerWrites(r)
      BY <3>2 DEF Progress, Begin, Reject, Launch, ReportStart, FinishRun,
         Unlock, WorkerWrites, CountType
    <3>. QED
      BY <3>1, <3>2 DEF Endpoint
  <2>. QED
    BY <1>1, <2>1 DEF planner, CountType
<1>. QED
  BY <1>2, <1>3, <1>4, <1>5, <1>6

LEMMA KillTyped ==
  ASSUME Typed, NEW p \in Process, Kill(p)
  PROVE  Typed' /\ Moves(p, {"idle"})
<1>. USE DEF Typed
<1>1. CliType' /\ Moves(p, {"idle"})
  BY EndsForm DEF Kill
<1>2. FilesType' /\ EndpointType'
  BY DEF Kill, files, FilesType, EndpointType
<1>3. LockType' /\ CountType'
  BY WorkflowAssumption DEF Kill, LockType, CountType
<1>. QED
  BY <1>1, <1>2, <1>3

LEMMA TypedInit == Init => Typed
<1>. SUFFICES ASSUME Init
              PROVE  Typed
  OBVIOUS
<1>1. FilesType
  <2>1. handoff \in Handoff
    BY DEF Init, Handoff, Statuses
  <2>2. NoRequest \in Request
    BY WorkflowAssumption DEF NoRequest, Request, Statuses
  <2>. QED
    BY <2>1, <2>2, WorkflowValues DEF Init, FilesType
<1>2. CliType
  BY DoneTyped DEF Init, CliType
<1>3. EndpointType
  BY DEF Init, EndpointType, TaskStates, NoReport, Report
<1>4. LockType /\ CountType
  BY WorkflowAssumption DEF Init, LockType, CountType
<1>. QED
  BY <1>1, <1>2, <1>3, <1>4 DEF Typed

LEMMA TypedStep == Typed /\ [Next]_vars => Typed'
<1>. SUFFICES ASSUME Typed, [Next]_vars
              PROVE  Typed'
  OBVIOUS
<1>1. ASSUME NEW p \in Process, Runs(p)
      PROVE  Typed'
  BY <1>1, RunsTyped
<1>2. ASSUME NEW p \in Process, Kill(p)
      PROVE  Typed'
  BY <1>2, KillTyped
<1>3. ASSUME NEW r \in Run, Endpoint(r)
      PROVE  Typed'
  BY <1>3, EndpointTyped
<1>4. ASSUME NEW plan \in Plan, PlannerWrites(plan)
      PROVE  Typed'
  <2>1. [status |-> "DRAFT", plan |-> plan] \in Handoff
    BY DEF Handoff, Statuses
  <2>. QED
    BY <1>4, <2>1, WorkflowAssumption
    DEF PlannerWrites, endpoint, Typed, FilesType, CliType, EndpointType,
        LockType, CountType
<1>5. CASE RemoveStaleLock
  BY <1>5 DEF RemoveStaleLock, files, Typed, FilesType, CliType, EndpointType,
     LockType, CountType
<1>6. CASE UNCHANGED vars
  BY <1>6 DEF vars, files, endpoint, Typed, FilesType, CliType, EndpointType,
     LockType, CountType
<1>. QED
  BY <1>1, <1>2, <1>3, <1>4, <1>5, <1>6 DEF Next, Runs, Endpoint

LEMMA AlwaysTyped == Spec => []Typed
BY TypedInit, TypedStep, PTL DEF Spec

\* Every reachable state is well typed, for any number of commands at once.
THEOREM TypeCorrect == Spec => []TypeOK
BY AlwaysTyped, TypedIsTypeOK, PTL

-----------------------------------------------------------------------------
(* Exclusion.  A lock directory is taken only when nobody has it, and only *)
(* a human removes one that a killed command left.                         *)

SubmitHeld == \A p \in Process : cli[p].pc \in Locked => submitLock = p

ExecuteHeld ==
  \A p \in Process : cli[p].pc \in LegacyExecuting => executeLock = p

\* An execution has execute.lock from before its worker is launched until its
\* Task has ended, through a restart that keeps it for recovery.
WorkerHeld ==
  \A r \in Run :
    /\ launched[r] => task[r] \notin {"none", "submitted"}
    /\ launched[r] /\ task[r] \in Open => executeLock = r
    /\ task[r] = "working" => executeLock = r

LEMMA SubmitHeldStep == Typed /\ SubmitHeld /\ [Next]_vars => SubmitHeld'
<1>. SUFFICES ASSUME Typed, SubmitHeld, [Next]_vars
              PROVE  SubmitHeld'
  OBVIOUS
<1>. USE DEF SubmitHeld
<1>1. ASSUME NEW p \in Process, SubmitStep(p), Moves(p, Places)
      PROVE  SubmitHeld'
  BY <1>1, WorkflowAssumption DEF SubmitStep, Moves
<1>2. ASSUME NEW p \in Process, Runs(p)
      PROVE  SubmitHeld'
  BY <1>1, <1>2, RunsTyped
<1>3. ASSUME NEW p \in Process, Kill(p)
      PROVE  SubmitHeld'
  <2>1. Moves(p, {"idle"})
    BY <1>3, KillTyped
  <2>2. "idle" \notin Locked /\ Submitting \subseteq Locked
    BY DEF Locked, Submitting, LegacySubmitting
  <2>. QED
    BY <1>3, <2>1, <2>2 DEF Kill, Moves
<1>4. ASSUME NEW r \in Run, Endpoint(r)
      PROVE  UNCHANGED <<cli, submitLock>>
  BY <1>4 DEF Endpoint, Progress, Begin, Reject, Launch, ReportStart, FinishRun,
     Unlock, WorkerWrites, Restart, planner
<1>5. CASE RemoveStaleLock
  BY <1>5 DEF RemoveStaleLock, Locked
<1>6. CASE UNCHANGED <<cli, submitLock>>
  BY <1>6
<1>. QED
  BY <1>2, <1>3, <1>4, <1>5, <1>6 DEF Next, Runs, Endpoint, PlannerWrites, vars

\* At most one command is in the part of a submission that submit.lock guards,
\* of execute and of the legacy execute, whoever is killed there (bin/handoff,
\* integration.submit_lock).
OneSubmission ==
  \A p, q \in Process : cli[p].pc \in Locked /\ cli[q].pc \in Locked => p = q

THEOREM OneSubmissionHolds == Spec => []OneSubmission
<1>1. Init => SubmitHeld
  BY DEF Init, SubmitHeld, Done, Locked, Submitting, LegacySubmitting
<1>2. SubmitHeld => OneSubmission
  BY DEF SubmitHeld, OneSubmission
<1>. QED
  BY <1>1, <1>2, SubmitHeldStep, AlwaysTyped, PTL DEF Spec

OneHolder == ExecuteHeld /\ WorkerHeld

\* What a command may do to a Task: send it, or cancel an open one.
LEMMA RunsTask ==
  ASSUME Typed, NEW p \in Process, Runs(p) \/ Kill(p)
  PROVE  /\ UNCHANGED launched
         /\ \A r \in Run :
              \/ task'[r] = task[r]
              \/ task[r] = "none" /\ task'[r] = "submitted"
              \/ task[r] \in Open /\ task'[r] \in Terminal
              \/ task[r] \in Open /\ task'[r] = "recovery" /\ launched[r]
<1>0. task \in [Run -> TaskStates]
  BY DEF Typed, EndpointType
<1>1. CASE Submit(p)
  BY <1>0, <1>1 DEF Submit
<1>2. CASE CancelRun(p)
  BY <1>0, <1>2 DEF CancelRun, Terminal
<1>3. CASE UNCHANGED <<task, launched>>
  BY <1>3
<1>4. CASE \/ ApproveSave(p) \/ Activate(p) \/ TakeSubmitLock(p) \/ CheckOnly(p)
           \/ Prepare(p) \/ ClearHold(p) \/ ReserveRound(p) \/ Announce(p)
           \/ ReleaseSubmitLock(p) \/ Adopt(p) \/ SaveOutstanding(p) \/ Ack(p)
           \/ Wait(p) \/ Load(p) \/ ReleaseReservation(p) \/ ConsumeRound(p)
           \/ Reload(p) \/ SetHold(p) \/ Settle(p) \/ Finish(p)
           \/ ClearOutstanding(p) \/ Notice(p) \/ Notify(p) \/ WriteVerdict(p)
           \/ CloseWorkflow(p) \/ AppendArchive(p) \/ RemoveWorkflow(p)
  BY <1>3, <1>4 DEF ApproveSave, Activate, TakeSubmitLock, CheckOnly, Prepare,
     ClearHold, ReserveRound, Announce, ReleaseSubmitLock, Adopt,
     SaveOutstanding, Ack, Wait, Load, ReleaseReservation, ConsumeRound, Reload,
     SetHold, Settle, Finish, ClearOutstanding, Notice, Notify, WriteVerdict,
     CloseWorkflow, AppendArchive, RemoveWorkflow, endpoint
<1>5. CASE Legacy(p) \/ LegacyWrites(p) \/ SubmissionRefused(p) \/ Kill(p)
  BY <1>3, <1>5 DEF Legacy, LegacyExecute, LegacyTakeSubmit, LegacyRecheck,
     LegacyTakeExecute, LegacyGiveSubmit, LegacyHeld, LegacyReadWorkflow,
     LegacyLiftHold, LegacyExit, LegacyWrites, SubmissionRefused, Kill, endpoint
<1>6. ASSUME NEW b \in BOOLEAN, Execute(p, b) \/ Resume(p, b) \/ CheckStatus(p, b)
      PROVE  UNCHANGED <<task, launched>>
  BY <1>6 DEF Execute, Resume, CheckStatus, endpoint
<1>7. CASE Approve(p)
  BY <1>3, <1>7 DEF Approve, endpoint
<1>8. CASE Closing(p)
  BY <1>3, <1>8 DEF Closing, QA, Archive, WriteVerdict, CloseWorkflow,
     AppendArchive, RemoveWorkflow, endpoint
<1>. QED
  BY <1>1, <1>2, <1>3, <1>4, <1>5, <1>6, <1>7, <1>8
  DEF Runs, Start, Step, Legacy, Closing

LEMMA OneHolderStep == Typed /\ OneHolder /\ [Next]_vars => OneHolder'
<1>. SUFFICES ASSUME Typed, OneHolder, [Next]_vars
              PROVE  OneHolder'
  OBVIOUS
<1>. USE DEF OneHolder, ExecuteHeld, WorkerHeld
<1>0. /\ NoRun \notin Process /\ \A r \in Run : r \notin Process /\ r # NoRun
      /\ Terminal \cap Open = {} /\ "none" \notin Open \cup Terminal
      /\ {"submitted", "working", "recovery"} = Open
      /\ {"working", "submitted"} \cap Terminal = {}
  BY WorkflowAssumption DEF Open, Terminal
<1>1. ASSUME NEW p \in Process, Runs(p)
      PROVE  OneHolder'
  <2>1. Moves(p, Places) /\ ExecuteStep(p)
    BY <1>1, RunsTyped
  <2>2. ExecuteHeld'
    BY <1>0, <2>1 DEF ExecuteStep, Moves
  <2>3. /\ UNCHANGED launched
        /\ \A r \in Run :
             \/ task'[r] = task[r]
             \/ task[r] = "none" /\ task'[r] = "submitted"
             \/ task[r] \in Open /\ task'[r] \in Terminal
             \/ task[r] \in Open /\ task'[r] = "recovery" /\ launched[r]
    BY <1>1, RunsTask
  <2>4. \A r \in Run : executeLock = r => executeLock' = r
    BY <1>0, <2>1 DEF ExecuteStep
  <2>5. WorkerHeld'
    BY <1>0, <2>3, <2>4
  <2>. QED
    BY <2>2, <2>5
<1>2. ASSUME NEW p \in Process, Kill(p)
      PROVE  OneHolder'
  <2>1. Moves(p, {"idle"}) /\ "idle" \notin LegacyExecuting
    BY <1>2, KillTyped DEF LegacyExecuting
  <2>2. \/ executeLock' = executeLock
        \/ executeLock = p /\ executeLock' = NoRun
    BY <1>2 DEF Kill
  <2>3. UNCHANGED <<task, launched>>
    BY <1>2 DEF Kill
  <2>. QED
    BY <1>0, <2>1, <2>2, <2>3 DEF Moves
<1>3. ASSUME NEW r \in Run, Endpoint(r)
      PROVE  OneHolder'
  <2>0. UNCHANGED cli /\ task \in [Run -> TaskStates]
        /\ launched \in [Run -> BOOLEAN]
    BY <1>3 DEF Endpoint, Progress, Begin, Reject, Launch, ReportStart,
       FinishRun, Unlock, WorkerWrites, Restart, planner, Typed, EndpointType
  <2>1. CASE Begin(r)
    BY <1>0, <2>0, <2>1 DEF Begin
  <2>2. CASE Reject(r)
    BY <1>0, <2>0, <2>2 DEF Reject, Terminal
  <2>3. CASE Launch(r)
    BY <1>0, <2>0, <2>3 DEF Launch, Terminal
  <2>4. CASE ReportStart(r) \/ WorkerWrites(r)
    BY <2>0, <2>4 DEF ReportStart, WorkerWrites
  <2>5. CASE FinishRun(r)
    BY <1>0, <2>0, <2>5 DEF FinishRun
  <2>6. CASE Unlock(r)
    BY <1>0, <2>0, <2>6 DEF Unlock
  <2>7. CASE Restart(r)
    BY <1>0, <2>0, <2>7 DEF Restart
  <2>. QED
    BY <1>3, <2>1, <2>2, <2>3, <2>4, <2>5, <2>6, <2>7 DEF Endpoint, Progress
<1>4. CASE RemoveStaleLock
  BY <1>0, <1>4 DEF RemoveStaleLock
<1>5. CASE UNCHANGED <<cli, executeLock, task, launched>>
  BY <1>5
<1>. QED
  BY <1>1, <1>2, <1>3, <1>4, <1>5
  DEF Next, Runs, Endpoint, PlannerWrites, endpoint, vars

\* At most one executor works in the repository, the worker of an execution or
\* the executor of a legacy command, for any number of commands, executions,
\* kills and restarts (bin/handoff, workspace.py).
THEOREM OneExecutorHolds == Spec => []OneExecutor
<1>1. Init => OneHolder
  BY DEF Init, OneHolder, ExecuteHeld, WorkerHeld, Done, LegacyExecuting, Open
<1>2. OneHolder => OneExecutor
  <2>. SUFFICES ASSUME OneHolder
                PROVE  OneExecutor
    OBVIOUS
  <2>. DEFINE S == {r \in Run : launched[r] /\ task[r] \in Open}
                   \cup {p \in Process : At(p, "run")}
  <2>1. S \subseteq {executeLock}
    BY DEF OneHolder, ExecuteHeld, WorkerHeld, At, LegacyExecuting
  <2>2. IsFiniteSet({executeLock}) /\ Cardinality({executeLock}) = 1
    BY FS_Singleton
  <2>3. IsFiniteSet(S) /\ Cardinality(S) <= 1
    BY <2>1, <2>2, FS_Subset
  <2>. QED
    BY <2>3 DEF OneExecutor
<1>. QED
  BY <1>1, <1>2, OneHolderStep, AlwaysTyped, PTL DEF Spec
=============================================================================
