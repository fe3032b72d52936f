-------------------------- MODULE ServiceSelection --------------------------
(***************************************************************************)
(* The managed Executor service of a repository and the choice of its      *)
(* model: `handoff server start|stop', `handoff model' with                *)
(* --after-current and --cancel-pending, and the dispatch boundary of      *)
(* execute and watch (service.py, selection.py, integration.py).           *)
(*                                                                         *)
(* Commands are processes that share server.json, process.json,            *)
(* pending-selection.json, outstanding.json and two lock directories.      *)
(* start takes service.lock; stop and a switch take service.lock, then     *)
(* submit.lock; a submission takes submit.lock only.  A busy lock is       *)
(* refused, never waited for.  A command may be killed between its steps.  *)
(***************************************************************************)
EXTENDS Naturals

CONSTANTS
  Process,        \* commands that may run at the same time
  Selection,      \* what an Executor may be: provider, model, effort
  NoProcess, NoSelection,
  Commands,       \* bound: the commands that are used
  MaxStarts,      \* bound: service processes that exist at a time
  MaxCommands,    \* bound: start, stop, switch, queue and cancel commands
  MaxRuns,        \* bound: submissions
  MaxCrashes,     \* bound: commands that are killed
  Denials         \* may a sandbox deny the probes of a command?

ASSUME SelectionAssumption ==
  /\ NoProcess \notin Process /\ NoSelection \notin Selection
  /\ Commands \subseteq {"start", "stop", "switch", "queue", "cancel", "execute",
                         "watch"}
  /\ MaxStarts \in Nat \ {0}
  /\ MaxCommands \in Nat /\ MaxRuns \in Nat /\ MaxCrashes \in Nat
  /\ Denials \in BOOLEAN

VARIABLES
  server,       \* server.json: the selection and its config_generation
  record,       \* process.json: the service process it names, 0 without file
  services,     \* the service processes that have been launched
  pending,      \* pending-selection.json
  serviceLock, submitLock,   \* who made the lock directory
  outstanding,  \* outstanding.json, with the identity the run was given to
  work,         \* the run at the server: its row and execute.lock
  cli,          \* what each command is doing, with the copies it works on
  given, runs, crashes       \* counters for the bounds

selected == <<server, pending>>
locks == <<serviceLock, submitLock>>
dispatched == <<outstanding, work, runs>>
counters == <<given, crashes>>
vars == <<selected, record, services, locks, dispatched, cli, counters>>

-----------------------------------------------------------------------------

Service == 1..MaxStarts

\* What the Agent Card says and verify_managed_card compares.
Identity == [selection : Selection, generation : Nat]

\* A service process: not answering yet, serving, asked to stop without success
\* (it answers no more), and gone.  Its identity is what it has read in
\* server.json.
ServiceStates == {"starting", "ready", "stuck", "gone"}
Gone == [state |-> "gone", identity |-> NoSelection]
Alive(s) == services[s].state # "gone"

NoRequest == [number |-> 0, selection |-> NoSelection, failed |-> FALSE]
Pending == [number : 1..MaxCommands, selection : Selection, failed : BOOLEAN]
           \cup {NoRequest}

NoRun == [identity |-> NoSelection, sent |-> FALSE]
Outstanding == [identity : Identity, sent : BOOLEAN] \cup {NoRun}

\* The run at the server is unknown, open (claimed, running or waiting for
\* recovery), or over with execute.lock still there.
NoWork == [at |-> "none", identity |-> NoSelection]
Work == [at : {"open", "over"}, identity : Identity] \cup {NoWork}

\* Places that hold service.lock, submit.lock or neither.
Starting == {"inspect", "record", "await", "giveup"}
Switching == {"check", "stop", "publish", "restore", "dequeue"}
Serving == Starting \cup Switching
           \cup {"both", "unlock", "unserve", "write", "unlink"}
Submitting == {"preflight", "announce", "unsubmit"}
Places == Serving \cup Submitting \cup {"idle", "service", "submit",
                                        "send", "mark"}

Command ==
  [pc        : Places,
   name      : {"none", "start", "stop", "switch", "apply", "queue", "drop",
                "execute"},
   phase     : {"start", "new", "old"},  \* what start_locked is called for
   then      : {"idle", "mark", "submit", "send"},   \* after the locks
   selection : Selection \cup {NoSelection},   \* the selection asked for
   asked     : Pending,                  \* its copy of pending-selection.json
   previous  : Identity \cup {NoSelection},    \* its copy of server.json
   identity  : Identity \cup {NoSelection},    \* the card it has verified
   child     : 0..MaxStarts]             \* the service process it launched

Done == [pc |-> "idle", name |-> "none", phase |-> "start", then |-> "idle",
         selection |-> NoSelection, asked |-> NoRequest,
         previous |-> NoSelection, identity |-> NoSelection, child |-> 0]

TypeOK ==
  /\ server \in Identity
  /\ record \in 0..MaxStarts
  /\ services \in [Service -> [state : ServiceStates,
                               identity : Identity \cup {NoSelection}]]
  /\ pending \in Pending
  /\ serviceLock \in Process \cup {NoProcess}
  /\ submitLock \in Process \cup {NoProcess}
  /\ outstanding \in Outstanding /\ work \in Work
  /\ cli \in [Process -> Command]
  /\ given \in 0..MaxCommands /\ runs \in 0..MaxRuns
  /\ crashes \in 0..MaxCrashes

\* After `handoff init --transport a2a': a selection, and no service yet.
Init ==
  /\ server \in [selection : Selection, generation : {1}]
  /\ record = 0
  /\ services = [s \in Service |-> Gone]
  /\ pending = NoRequest
  /\ serviceLock = NoProcess /\ submitLock = NoProcess
  /\ outstanding = NoRun /\ work = NoWork
  /\ cli = [p \in Process |-> Done]
  /\ given = 0 /\ runs = 0 /\ crashes = 0

-----------------------------------------------------------------------------
(* Helpers.                                                                *)

At(p, place) == cli[p].pc = place
Goto(p, place) == cli' = [cli EXCEPT ![p].pc = place]
Ends(p) == cli' = [cli EXCEPT ![p] = Done]

\* inspect: the recorded process lives, and what answers on the port shows the
\* expected identity.  One process can listen on the port.
Running == record # 0 /\ Alive(record)
Listening(s) == services[s].state = "ready"
Listens == \E s \in Service : Listening(s)
Answers(identity) ==
  \E s \in Service : Listening(s) /\ services[s].identity = identity

\* start has loaded its configuration before it takes the lock.
Verified(p) ==
  Running /\ Answers(IF cli[p].name = "start" THEN cli[p].previous ELSE server)

\* unresolved, apart from submit.lock.  Deviants: one side only is asked.
UnresolvedAtPlanner == outstanding # NoRun
UnresolvedAtServer == work # NoWork
Unresolved == outstanding # NoRun \/ work # NoWork

\* The places where a command holds a lock, unless a killed one made it.
HoldsService(p) ==
  serviceLock = p /\ cli[p].pc \in Serving
HoldsSubmit(p) ==
  submitLock = p /\ \/ cli[p].pc \in Submitting \cup Switching \cup {"unlock"}
                    \/ cli[p].pc \in Starting /\ cli[p].name # "start"

\* The command gives its locks back, the inner one first, and goes on.
Leaves(p, then) ==
  cli' = [cli EXCEPT ![p].pc = IF HoldsSubmit(p) THEN "unlock" ELSE "unserve",
                     ![p].then = then]

Unlock(p) ==
  /\ At(p, "unlock")
  /\ submitLock' = NoProcess
  /\ Goto(p, "unserve")
  /\ UNCHANGED <<selected, record, services, serviceLock, dispatched, counters>>

Unserve(p) ==
  /\ At(p, "unserve")
  /\ serviceLock' = NoProcess
  /\ IF cli[p].then = "idle" THEN Ends(p) ELSE Goto(p, cli[p].then)
  /\ UNCHANGED <<selected, record, services, submitLock, dispatched, counters>>

\* A switch that fails leaves a queued request marked.
Fails(p) == Leaves(p, IF cli[p].name = "apply" THEN "mark" ELSE "idle")

-----------------------------------------------------------------------------
(* The commands begin.                                                     *)

Begins(p, command) ==
  /\ At(p, "idle")
  /\ cli' = [cli EXCEPT ![p] = command]
  /\ UNCHANGED <<selected, record, services, locks, dispatched, crashes>>

Given == given < MaxCommands /\ given' = given + 1

\* handoff server start, handoff server stop
StartCommand(p) ==
  Given /\ Begins(p, [Done EXCEPT !.pc = "service", !.name = "start",
                                  !.previous = server])

StopCommand(p) ==
  Given /\ Begins(p, [Done EXCEPT !.pc = "service", !.name = "stop"])

\* cmd_switch: another selection than the current one, which the provider
\* confirms.
SwitchCommand(p, selection) ==
  /\ selection # server.selection
  /\ Given
  /\ Begins(p, [Done EXCEPT !.pc = "service", !.name = "switch",
                            !.selection = selection])

\* cmd_queue: the same request again changes nothing; a request for the current
\* selection only drops the queued one.  All of it is read without a lock.
QueueCommand(p, selection) ==
  /\ ~(pending.selection = selection /\ ~pending.failed)
  /\ Given
  /\ \/ /\ selection = server.selection /\ pending # NoRequest
        /\ Begins(p, [Done EXCEPT !.pc = "service", !.name = "drop"])
     \/ /\ selection # server.selection
        /\ Begins(p, [Done EXCEPT !.pc = "service", !.name = "queue",
             !.asked = [number |-> given', selection |-> selection,
                        failed |-> FALSE]])

\* cmd_cancel_pending
CancelCommand(p) ==
  /\ pending # NoRequest
  /\ Given
  /\ Begins(p, [Done EXCEPT !.pc = "service", !.name = "drop"])

\* apply_pending before any lock: a failed request or unresolved work ends it;
\* the provider, asked again, may refuse.
ApplyPending(p, then) ==
  /\ pending # NoRequest /\ ~pending.failed
  /\ ~Unresolved /\ submitLock = NoProcess
  /\ \E place \in {"service", "mark"} :
       Begins(p, [Done EXCEPT !.pc = place, !.name = "apply",
                              !.selection = pending.selection,
                              !.asked = pending, !.then = then])
  /\ UNCHANGED given

\* cmd_execute_async: dispatch_gate, then the submission.
Execute(p) ==
  \/ ApplyPending(p, "submit")
  \/ /\ pending = NoRequest
     /\ Begins(p, [Done EXCEPT !.pc = "submit", !.name = "execute"])
     /\ UNCHANGED given

\* _idle_selection_tick
Tick(p) == outstanding = NoRun /\ ApplyPending(p, "idle")

-----------------------------------------------------------------------------
(* The locks.                                                              *)

\* A busy service.lock ends the command.
TakeServiceLock(p) ==
  /\ At(p, "service")
  /\ IF serviceLock = NoProcess
     THEN /\ serviceLock' = p
          /\ Goto(p, CASE cli[p].name = "start" -> "inspect"
                       [] cli[p].name = "queue" -> "write"
                       [] cli[p].name = "drop" -> "unlink"
                       [] OTHER -> "both")
     ELSE Ends(p) /\ UNCHANGED serviceLock
  /\ UNCHANGED <<selected, record, services, submitLock, dispatched, counters>>

\* So does a busy submit.lock.
TakeSubmitLock(p) ==
  /\ cli[p].pc \in {"both", "submit"}
  /\ IF submitLock = NoProcess
     THEN /\ submitLock' = p
          /\ Goto(p, IF At(p, "both") THEN "check" ELSE "preflight")
     ELSE /\ UNCHANGED submitLock
          /\ IF At(p, "both") THEN Leaves(p, "idle") ELSE Ends(p)
  /\ UNCHANGED <<selected, record, services, serviceLock, dispatched, counters>>

\* The queued record is written, or removed, under service.lock.
WriteRequest(p) ==
  /\ At(p, "write")
  /\ pending' = cli[p].asked
  /\ Leaves(p, "idle")
  /\ UNCHANGED <<server, record, services, locks, dispatched, counters>>

DropRequest(p) ==
  /\ At(p, "unlink")
  /\ pending' = NoRequest
  /\ Leaves(p, "idle")
  /\ UNCHANGED <<server, record, services, locks, dispatched, counters>>

-----------------------------------------------------------------------------
(* stop and switch, under both locks.                                      *)

\* stop_locked begins: unresolved work is refused, as are denied probes, and a
\* stale record is discarded.
CheckStop(p) ==
  /\ At(p, "check") /\ cli[p].name = "stop"
  /\ \/ /\ Unresolved \/ (Running /\ Denials)
        /\ Leaves(p, "idle")
        /\ UNCHANGED record
     \/ /\ ~Unresolved /\ Running
        /\ Goto(p, "stop")
        /\ UNCHANGED record
     \/ /\ ~Unresolved /\ ~Running
        /\ record' = 0
        /\ Leaves(p, "idle")
  /\ UNCHANGED <<selected, services, locks, dispatched, counters>>

\* apply_pending under the locks: a request that was replaced or canceled waits
\* for the next pass, one for the current selection is done.
Superseded(p) == cli[p].name = "apply" /\ pending # cli[p].asked
Selected(p) == cli[p].name = "apply" /\ server.selection = cli[p].selection

\* The candidate is made from the configuration loaded under the locks.
Candidate(p, place, phase) ==
  cli' = [cli EXCEPT ![p].pc = place, ![p].phase = phase, ![p].previous = server]

\* switch_locked up to its first change.  A command whose probes are denied
\* takes the service for stopped.
CheckSwitch(p) ==
  /\ At(p, "check") /\ cli[p].name \in {"switch", "apply"}
  /\ \/ /\ Superseded(p)
        /\ Leaves(p, "idle")
     \/ /\ ~Superseded(p) /\ Selected(p)
        /\ Goto(p, "dequeue")
     \/ /\ ~Superseded(p) /\ ~Selected(p)
        /\ \/ Unresolved /\ Leaves(p, "idle")
           \/ ~Unresolved /\ Running /\ ~Verified(p) /\ Fails(p)
           \/ ~Unresolved /\ Verified(p) /\ Candidate(p, "stop", "new")
           \/ ~Unresolved /\ (~Running \/ Denials) /\ Candidate(p, "publish", "start")
  /\ UNCHANGED <<selected, record, services, locks, dispatched, counters>>

Stopped(s) == [services EXCEPT ![s] = Gone]
Stuck(s) == [services EXCEPT ![s].state = "stuck"]

\* stop_owned on the recorded process, which may have gone by itself.  What it
\* cannot stop keeps its record.
StopService(p) ==
  /\ At(p, "stop")
  /\ \/ /\ services' = Stopped(record)
        /\ record' = 0
        /\ IF cli[p].name = "stop" THEN Leaves(p, "idle") ELSE Goto(p, "publish")
     \/ /\ Alive(record)
        /\ services' = Stuck(record)
        /\ Leaves(p, "idle")
        /\ UNCHANGED record
  /\ UNCHANGED <<selected, locks, dispatched, counters>>

\* The candidate server.json, one generation on.  A stopped service is not
\* started.
Publish(p) ==
  /\ At(p, "publish")
  /\ server' = [selection |-> cli[p].selection,
                generation |-> cli[p].previous.generation + 1]
  /\ Goto(p, IF cli[p].phase = "new" THEN "inspect" ELSE "dequeue")
  /\ UNCHANGED <<pending, record, services, locks, dispatched, counters>>

\* Deviant: what is written back was never saved.
RestoreUnsaved(p) ==
  /\ At(p, "restore")
  /\ server' = cli[p].identity
  /\ cli' = [cli EXCEPT ![p].pc = "inspect", ![p].phase = "old"]
  /\ UNCHANGED <<pending, record, services, locks, dispatched, counters>>

\* The candidate did not start: the previous server.json, and its service.
Restore(p) ==
  /\ At(p, "restore")
  /\ server' = cli[p].previous
  /\ cli' = [cli EXCEPT ![p].pc = "inspect", ![p].phase = "old"]
  /\ UNCHANGED <<pending, record, services, locks, dispatched, counters>>

\* Deviant: the queued request stays.
DequeueNothing(p) ==
  /\ At(p, "dequeue")
  /\ Leaves(p, cli[p].then)
  /\ UNCHANGED <<selected, record, services, locks, dispatched, counters>>

\* The queued request is done, or superseded by an immediate switch.
Dequeue(p) ==
  /\ At(p, "dequeue")
  /\ pending' = NoRequest
  /\ Leaves(p, cli[p].then)
  /\ UNCHANGED <<server, record, services, locks, dispatched, counters>>

\* apply_pending marks the request it has read, under no lock.
MarkFailed(p) ==
  /\ At(p, "mark")
  /\ pending' = [cli[p].asked EXCEPT !.failed = TRUE]
  /\ Ends(p)
  /\ UNCHANGED <<server, record, services, locks, dispatched, counters>>

-----------------------------------------------------------------------------
(* start_locked: for start, for the candidate and for the previous selection. *)

Started(p) ==
  CASE cli[p].phase = "start" -> Leaves(p, "idle")
    [] cli[p].phase = "new" -> Goto(p, "dequeue")
    [] cli[p].phase = "old" -> Fails(p)

NotStarted(p) ==
  CASE cli[p].phase = "start" -> Leaves(p, "idle")
    [] cli[p].phase = "new" -> Goto(p, "restore")
    [] cli[p].phase = "old" -> Fails(p)

\* The service that is asked for runs; or another process lives or listens; or a
\* child is launched, in place of a stale record.
Inspect(p) ==
  /\ At(p, "inspect")
  /\ \/ /\ Verified(p)
        /\ Started(p)
        /\ UNCHANGED <<record, services>>
     \/ /\ ~Verified(p)
        /\ \/ Running \/ Listens \/ \A s \in Service : Alive(s)
           \/ Denials /\ cli[p].name = "start"
        /\ NotStarted(p)
        /\ UNCHANGED <<record, services>>
     \/ /\ ~Running /\ ~Listens
        /\ \E s \in Service :
             /\ ~Alive(s) /\ \A t \in 1..(s - 1) : Alive(t)
             /\ services' = [services EXCEPT ![s].state = "starting"]
             /\ cli' = [cli EXCEPT ![p].pc = "record", ![p].child = s]
        /\ record' = 0
  /\ UNCHANGED <<selected, locks, dispatched, counters>>

RecordProcess(p) ==
  /\ At(p, "record")
  /\ record' = cli[p].child
  /\ Goto(p, "await")
  /\ UNCHANGED <<selected, services, locks, dispatched, counters>>

\* The child answers as expected; or it has exited, or the time is over.
AwaitService(p) ==
  /\ At(p, "await")
  /\ \/ Verified(p) /\ Started(p)
     \/ Goto(p, "giveup")
  /\ UNCHANGED <<selected, record, services, locks, dispatched, counters>>

\* Deviant: the child that does not verify is left alone.
GiveUpOnly(p) ==
  /\ At(p, "giveup")
  /\ NotStarted(p)
  /\ UNCHANGED <<selected, record, services, locks, dispatched, counters>>

\* Exactly the child is stopped.
GiveUp(p) ==
  /\ At(p, "giveup")
  /\ \/ services' = Stopped(cli[p].child) /\ record' = 0
     \/ /\ Alive(cli[p].child)
        /\ services' = Stuck(cli[p].child) /\ UNCHANGED record
  /\ NotStarted(p)
  /\ UNCHANGED <<selected, locks, dispatched, counters>>

-----------------------------------------------------------------------------
(* The submission, under submit.lock until outstanding.json is written.    *)

Refused(p) == cli' = [cli EXCEPT ![p].pc = "unsubmit", ![p].then = "idle"]

\* The first _prepare_request, the card, verify_managed_card.  The workflow may
\* refuse as well.
Preflight(p) ==
  /\ At(p, "preflight")
  /\ \/ /\ outstanding = NoRun /\ Running
        /\ \E s \in Service :
             /\ Listening(s) /\ services[s].identity = server
             /\ cli' = [cli EXCEPT ![p].pc = "announce",
                                   ![p].identity = services[s].identity]
     \/ Refused(p)
  /\ UNCHANGED <<selected, record, services, locks, dispatched, counters>>

\* The second _prepare_request.  The identity is added to the file before the
\* request is sent.
Announce(p) ==
  /\ At(p, "announce")
  /\ \/ /\ outstanding = NoRun /\ Running
        /\ runs < MaxRuns /\ runs' = runs + 1
        /\ outstanding' = [identity |-> cli[p].identity, sent |-> FALSE]
        /\ cli' = [cli EXCEPT ![p].pc = "unsubmit", ![p].then = "send"]
     \/ Refused(p) /\ UNCHANGED <<outstanding, runs>>
  /\ UNCHANGED <<selected, record, services, locks, work, counters>>

Unsubmit(p) ==
  /\ At(p, "unsubmit")
  /\ submitLock' = NoProcess
  /\ IF cli[p].then = "idle" THEN Ends(p) ELSE Goto(p, cli[p].then)
  /\ UNCHANGED <<selected, record, services, serviceLock, dispatched, counters>>

\* The service that listens claims the run, or refuses it as execute.lock is
\* held.
Arrives ==
  /\ outstanding # NoRun /\ ~outstanding.sent
  /\ outstanding' = [outstanding EXCEPT !.sent = TRUE]
  /\ \E s \in Service :
       /\ Listening(s)
       /\ work' = IF work = NoWork
                  THEN [at |-> "open", identity |-> services[s].identity]
                  ELSE work
  /\ UNCHANGED runs

Send(p) ==
  /\ At(p, "send")
  /\ Arrives \/ UNCHANGED dispatched
  /\ Ends(p)
  /\ UNCHANGED <<selected, record, services, locks, counters>>

\* resume sends what was not acknowledged.
Resend ==
  /\ Arrives
  /\ UNCHANGED <<selected, record, services, locks, cli, counters>>

-----------------------------------------------------------------------------
(* What the service, the run and the human do.                             *)

\* The new process reads server.json.
ServiceLoads(s) ==
  /\ services[s].state = "starting" /\ services[s].identity = NoSelection
  /\ services' = [services EXCEPT ![s].identity = server]
  /\ UNCHANGED <<selected, record, locks, dispatched, cli, counters>>

ServiceReady(s) ==
  /\ services[s].state = "starting" /\ services[s].identity # NoSelection
  /\ ~Listens
  /\ services' = [services EXCEPT ![s].state = "ready"]
  /\ UNCHANGED <<selected, record, locks, dispatched, cli, counters>>

\* It fails, finds the port taken, or ends at last.
ServiceExits(s) ==
  /\ Alive(s)
  /\ services' = Stopped(s)
  /\ UNCHANGED <<selected, record, locks, dispatched, cli, counters>>

\* The server settles the run, after a restart by its recovery, and then gives
\* execute.lock back.
WorkEnds ==
  /\ work.at = "open" /\ Listens
  /\ work' = [work EXCEPT !.at = "over"]
  /\ UNCHANGED <<selected, record, services, locks, outstanding, runs, cli, counters>>

WorkUnlocks ==
  /\ work.at = "over"
  /\ work' = NoWork
  /\ UNCHANGED <<selected, record, services, locks, outstanding, runs, cli, counters>>

\* The planner reconciles a run that has ended or was refused.
Reconcile ==
  /\ outstanding # NoRun /\ outstanding.sent /\ work.at # "open"
  /\ outstanding' = NoRun
  /\ UNCHANGED <<selected, record, services, locks, work, runs, cli, counters>>

\* A command is interrupted, which gives its locks back, or killed, which does
\* not.
Kill(p) ==
  /\ ~At(p, "idle")
  /\ crashes < MaxCrashes /\ crashes' = crashes + 1
  /\ \E interrupted \in BOOLEAN :
       /\ serviceLock' = IF interrupted /\ HoldsService(p) THEN NoProcess ELSE serviceLock
       /\ submitLock' = IF interrupted /\ HoldsSubmit(p) THEN NoProcess ELSE submitLock
  /\ Ends(p)
  /\ UNCHANGED <<selected, record, services, dispatched, given>>

\* Nobody is inside: a killed command has left its lock.
ServiceLockLeft == serviceLock # NoProcess /\ ~HoldsService(serviceLock)
SubmitLockLeft == submitLock # NoProcess /\ ~HoldsSubmit(submitLock)

\* The human removes such a lock, as the refusals say.
RemoveServiceLock ==
  /\ ServiceLockLeft
  /\ serviceLock' = NoProcess
  /\ UNCHANGED <<selected, record, services, submitLock, dispatched, cli, counters>>

RemoveSubmitLock ==
  /\ SubmitLockLeft
  /\ submitLock' = NoProcess
  /\ UNCHANGED <<selected, record, services, serviceLock, dispatched, cli, counters>>

-----------------------------------------------------------------------------

Step(p) ==
  \/ TakeServiceLock(p) \/ TakeSubmitLock(p) \/ Unlock(p) \/ Unserve(p)
  \/ WriteRequest(p) \/ DropRequest(p)
  \/ CheckStop(p) \/ CheckSwitch(p) \/ StopService(p)
  \/ Publish(p) \/ Restore(p) \/ Dequeue(p) \/ MarkFailed(p)
  \/ Inspect(p) \/ RecordProcess(p) \/ AwaitService(p) \/ GiveUp(p)
  \/ Preflight(p) \/ Announce(p) \/ Unsubmit(p) \/ Send(p)

Begin(p) ==
  \/ "start" \in Commands /\ StartCommand(p)
  \/ "stop" \in Commands /\ StopCommand(p)
  \/ "switch" \in Commands /\ \E c \in Selection : SwitchCommand(p, c)
  \/ "queue" \in Commands /\ \E c \in Selection : QueueCommand(p, c)
  \/ "cancel" \in Commands /\ CancelCommand(p)
  \/ "execute" \in Commands /\ Execute(p)
  \/ "watch" \in Commands /\ Tick(p)

Environment ==
  \/ \E s \in Service : ServiceLoads(s) \/ ServiceReady(s) \/ ServiceExits(s)
  \/ Resend \/ WorkEnds \/ WorkUnlocks \/ Reconcile
  \/ RemoveServiceLock \/ RemoveSubmitLock

Next == Environment \/ \E p \in Process : Begin(p) \/ Step(p) \/ Kill(p)

Spec == Init /\ [][Next]_vars

\* A command goes on, and watch polls for ever.
FairSpec ==
  /\ Spec
  /\ \A p \in Process : WF_vars(Step(p))
  /\ SF_vars(\E p \in Process : Tick(p))

-----------------------------------------------------------------------------

\* A run keeps the Executor it was submitted to: while it is outstanding nothing
\* changes the selection or its generation (unresolved and verify_managed_card,
\* both under submit.lock), and the service that works on it is of that
\* selection.  A killed start may leave a service nobody knows, which may take
\* the run as well.
RunPinned ==
  /\ outstanding # NoRun => outstanding.identity = server
  /\ work.at = "open" /\ crashes = 0 => work.identity = server

\* Whenever no command is changing it, the recorded service is one of the
\* selection in server.json, or has resisted its stop (stop, publish, start and
\* restore of switch_locked, with kills in between).
RunningIsSelected ==
  serviceLock = NoProcess /\ Running =>
    \/ services[record].identity \in {server, NoSelection}
    \/ services[record].state = "stuck"

\* A service is stopped for `server stop' or for another selection only while
\* nothing is outstanding and the server has nothing unresolved.  (Not so for a
\* start that gives up on the child it has launched: GiveUp.)
StopIdle ==
  \A p \in Process : At(p, "stop") => outstanding = NoRun /\ work = NoWork

\* A queued selection is applied, marked, replaced or canceled in the end: it
\* does not wait for ever while nothing is unresolved and no lock was left
\* behind (_idle_selection_tick, apply_pending).
IdleApplies ==
  []<>(\/ pending = NoRequest \/ pending.failed
       \/ Unresolved \/ ServiceLockLeft \/ SubmitLockLeft)
=============================================================================
