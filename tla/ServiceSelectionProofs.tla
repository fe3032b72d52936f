----------------------- MODULE ServiceSelectionProofs -----------------------
(***************************************************************************)
(* Safety of ServiceSelection for every value of its constants: any number *)
(* of commands, services, selections, submissions and kills.  Sound is the *)
(* inductive invariant; it says who is inside which lock, what cannot      *)
(* change meanwhile, and which services may still answer.                  *)
(***************************************************************************)
EXTENDS ServiceSelection, TLAPS

\* What a command carries to the places that use it.
Shape(c) ==
  /\ c.name \in {"switch", "apply"} => c.selection \in Selection
  /\ c.name = "apply" => c.asked # NoRequest
  /\ c.pc = "mark" \/ c.then = "mark" => c.name = "apply"
  /\ c.pc = "service" =>
       c.name \in {"start", "stop", "switch", "apply", "queue", "drop"}
  /\ c.pc = "both" => c.name \in {"stop", "switch", "apply"}
  /\ c.pc \in Switching => c.name \in {"stop", "switch", "apply"}
  /\ c.pc \in Starting => c.name \in {"start", "switch", "apply"}
  /\ c.name = "start" => c.phase = "start"
  /\ \/ c.pc \in {"publish", "restore"} \/ c.phase # "start"
     \/ c.pc = "stop" /\ c.name # "stop"
     => c.previous \in Identity /\ c.name \in {"switch", "apply"}
  /\ c.pc = "restore" => c.phase = "new"
  /\ c.pc = "announce" => c.identity \in Identity

\* A command that works under submit.lock, alone or with service.lock; one that
\* works on the service with both, after it has seen that nothing is unresolved.
Inside(c) ==
  \/ c.pc \in Submitting \cup Switching \cup {"unlock"}
  \/ c.pc \in Starting /\ c.name # "start"
Changing(c) ==
  \/ c.pc \in {"stop", "publish", "restore"}
  \/ c.pc \in Starting /\ c.name # "start"

\* Who is inside has made the lock, and nothing becomes unresolved while a
\* command works on the service with both.
Excluded(p) ==
  /\ cli[p].pc \in Serving => serviceLock = p
  /\ Inside(cli[p]) => submitLock = p
Quiet(p) == Changing(cli[p]) => outstanding = NoRun /\ work = NoWork

\* The service a command has launched is the one on record.
Launched(p) ==
  /\ cli[p].pc = "record" => record = 0
  /\ cli[p].pc \in {"await", "giveup"} => record = cli[p].child
  /\ cli[p].pc \in {"record", "await", "giveup"} => cli[p].child \in Service

\* A submission that has verified the card goes to that Executor.
Announced(p) == cli[p].pc = "announce"
Carded(p) == Announced(p) => cli[p].identity = server

\* What is recorded is of the selection at every step of a switch.
OfSelection(s) == services[s].identity \in {server, NoSelection}
Replacing(p) ==
  /\ cli[p].pc = "record" => OfSelection(cli[p].child)
  /\ cli[p].pc = "publish" => record = 0 \/ ~Alive(record)
  /\ cli[p].pc \in {"publish", "inspect"} /\ cli[p].phase = "new" => record = 0
  /\ cli[p].pc = "restore" =>
       record = 0 \/ services[record].state \in {"gone", "stuck"}
RecordSelected ==
  record # 0 => OfSelection(record) \/ services[record].state = "stuck"

Fits(p) ==
  /\ Shape(cli[p])
  /\ Excluded(p) /\ Quiet(p) /\ Launched(p) /\ Carded(p)
  /\ ~Denials => Replacing(p)

\* A service has read server.json before it answers.
Loaded ==
  \A s \in Service :
    /\ services[s].state = "gone" => services[s].identity = NoSelection
    /\ services[s].state = "ready" => services[s].identity # NoSelection

\* While no command was killed, a service that may answer is on record or about
\* to be, and of the selection as soon as a run is announced.
Serves(s) == services[s].state \in {"starting", "ready"}
Known ==
  \A s \in Service : Serves(s) =>
    s = record \/ \E p \in Process : cli[p].pc = "record" /\ cli[p].child = s
Pins ==
  /\ outstanding # NoRun \/ (\E p \in Process : Announced(p)) =>
       \A s \in Service : Serves(s) => OfSelection(s)
  /\ work.at = "open" => work.identity = server

Sound ==
  /\ TypeOK /\ Loaded
  /\ \A p \in Process : Fits(p)
  /\ outstanding # NoRun => outstanding.identity = server
  /\ crashes = 0 => Known /\ Pins
  /\ ~Denials => RecordSelected

-----------------------------------------------------------------------------
(* How a step changes the command that takes it.                           *)

\* The command goes to a place with new copies; what it was asked stays.
Moves(p, pc, phase, then, previous, identity, child) ==
  /\ cli' \in [Process -> Command]
  /\ \A q \in Process \ {p} : cli'[q] = cli[q]
  /\ cli'[p].pc = pc /\ cli'[p].phase = phase /\ cli'[p].then = then
  /\ cli'[p].previous = previous /\ cli'[p].identity = identity
  /\ cli'[p].child = child
  /\ cli'[p].name = cli[p].name /\ cli'[p].selection = cli[p].selection
  /\ cli'[p].asked = cli[p].asked

Goes(p, pc) ==
  Moves(p, pc, cli[p].phase, cli[p].then, cli[p].previous, cli[p].identity,
        cli[p].child)

\* The command is over.
Over(p) ==
  /\ cli' \in [Process -> Command]
  /\ \A q \in Process \ {p} : cli'[q] = cli[q]
  /\ cli'[p] = Done

\* The values of a command.
LEMMA CommandFields ==
  ASSUME NEW c \in Command
  PROVE  /\ c.pc \in Places
         /\ c.name \in {"none", "start", "stop", "switch", "apply", "queue",
                        "drop", "execute"}
         /\ c.phase \in {"start", "new", "old"}
         /\ c.then \in {"idle", "mark", "submit", "send"}
         /\ c.selection \in Selection \cup {NoSelection}
         /\ c.asked \in Pending
         /\ c.previous \in Identity \cup {NoSelection}
         /\ c.identity \in Identity \cup {NoSelection}
         /\ c.child \in 0..MaxStarts
  BY DEF Command

LEMMA GotoForm ==
  ASSUME cli \in [Process -> Command], NEW p \in Process, NEW pc \in Places,
         Goto(p, pc)
  PROVE  Goes(p, pc)
<1>. DEFINE d == [cli[p] EXCEPT !.pc = pc]
<1>1. cli' = [cli EXCEPT ![p] = d]
  BY Zenon DEF Goto
<1>2. cli[p] \in Command
  OBVIOUS
<1>3. /\ d \in Command
      /\ d.pc = pc /\ d.phase = cli[p].phase /\ d.then = cli[p].then
      /\ d.previous = cli[p].previous /\ d.identity = cli[p].identity
      /\ d.child = cli[p].child
      /\ d.name = cli[p].name /\ d.selection = cli[p].selection
      /\ d.asked = cli[p].asked
  BY <1>2 DEF Command
<1>. HIDE DEF d
<1>4. cli'[p] = d /\ cli' \in [Process -> Command]
      /\ \A q \in Process \ {p} : cli'[q] = cli[q]
  BY <1>1, <1>3
<1>. QED
  BY <1>3, <1>4 DEF Goes, Moves

\* The command that gives its locks back.
LEMMA ThenForm ==
  ASSUME cli \in [Process -> Command], NEW p \in Process,
         NEW pc \in Places,
         NEW then \in {"idle", "mark", "submit", "send"},
         cli' = [cli EXCEPT ![p].pc = pc, ![p].then = then]
  PROVE  Moves(p, pc, cli[p].phase, then, cli[p].previous, cli[p].identity,
               cli[p].child)
<1>. DEFINE d == [cli[p] EXCEPT !.pc = pc, !.then = then]
<1>1. cli' = [cli EXCEPT ![p] = d]
  BY Zenon
<1>2. cli[p] \in Command
  OBVIOUS
<1>3. /\ d \in Command
      /\ d.pc = pc /\ d.phase = cli[p].phase
      /\ d.then = then /\ d.previous = cli[p].previous
      /\ d.identity = cli[p].identity /\ d.child = cli[p].child
      /\ d.name = cli[p].name /\ d.selection = cli[p].selection
      /\ d.asked = cli[p].asked
  BY <1>2 DEF Command
<1>. HIDE DEF d
<1>4. cli'[p] = d /\ cli' \in [Process -> Command]
      /\ \A q \in Process \ {p} : cli'[q] = cli[q]
  BY <1>1, <1>3
<1>. QED
  BY <1>3, <1>4 DEF Moves

\* The switch that starts the previous service.
LEMMA PhaseForm ==
  ASSUME cli \in [Process -> Command], NEW p \in Process,
         NEW pc \in Places,
         NEW phase \in {"start", "new", "old"},
         cli' = [cli EXCEPT ![p].pc = pc, ![p].phase = phase]
  PROVE  Moves(p, pc, phase, cli[p].then, cli[p].previous, cli[p].identity,
               cli[p].child)
<1>. DEFINE d == [cli[p] EXCEPT !.pc = pc, !.phase = phase]
<1>1. cli' = [cli EXCEPT ![p] = d]
  BY Zenon
<1>2. cli[p] \in Command
  OBVIOUS
<1>3. /\ d \in Command
      /\ d.pc = pc /\ d.phase = phase
      /\ d.then = cli[p].then /\ d.previous = cli[p].previous
      /\ d.identity = cli[p].identity /\ d.child = cli[p].child
      /\ d.name = cli[p].name /\ d.selection = cli[p].selection
      /\ d.asked = cli[p].asked
  BY <1>2 DEF Command
<1>. HIDE DEF d
<1>4. cli'[p] = d /\ cli' \in [Process -> Command]
      /\ \A q \in Process \ {p} : cli'[q] = cli[q]
  BY <1>1, <1>3
<1>. QED
  BY <1>3, <1>4 DEF Moves

\* The switch that has read the configuration.
LEMMA CandidateForm ==
  ASSUME cli \in [Process -> Command], NEW p \in Process,
         NEW pc \in Places,
         NEW phase \in {"start", "new", "old"},
         server \in Identity, Candidate(p, pc, phase)
  PROVE  Moves(p, pc, phase, cli[p].then, server, cli[p].identity, cli[p].child)
<1>0. PICK previous \in Identity : previous = server
  OBVIOUS
<1>. DEFINE d == [cli[p] EXCEPT !.pc = pc, !.phase = phase, !.previous = previous]
<1>1. cli' = [cli EXCEPT ![p] = d]
  BY <1>0, Zenon DEF Candidate
<1>2. cli[p] \in Command
  OBVIOUS
<1>. DEFINE e == [cli[p] EXCEPT !.pc = pc, !.phase = phase]
<1>3. d = [e EXCEPT !.previous = previous]
  BY <1>2 DEF Command
<1>4. /\ e \in Command
      /\ e.pc = pc /\ e.phase = phase
      /\ e.then = cli[p].then /\ e.identity = cli[p].identity
      /\ e.child = cli[p].child
      /\ e.name = cli[p].name /\ e.selection = cli[p].selection
      /\ e.asked = cli[p].asked
  BY <1>2 DEF Command
<1>. HIDE DEF d, e
<1>5. /\ d \in Command
      /\ d.pc = e.pc /\ d.phase = e.phase
      /\ d.then = e.then /\ d.previous = previous
      /\ d.identity = e.identity /\ d.child = e.child
      /\ d.name = e.name /\ d.selection = e.selection
      /\ d.asked = e.asked
  BY <1>3, <1>4 DEF Command
<1>6. cli'[p] = d /\ cli' \in [Process -> Command]
      /\ \A q \in Process \ {p} : cli'[q] = cli[q]
  BY <1>1, <1>5
<1>. QED
  BY <1>0, <1>4, <1>5, <1>6 DEF Moves

\* The command that has launched a service.
LEMMA ChildForm ==
  ASSUME cli \in [Process -> Command], NEW p \in Process,
         NEW pc \in Places,
         NEW child \in 0..MaxStarts,
         cli' = [cli EXCEPT ![p].pc = pc, ![p].child = child]
  PROVE  Moves(p, pc, cli[p].phase, cli[p].then, cli[p].previous,
               cli[p].identity, child)
<1>. DEFINE d == [cli[p] EXCEPT !.pc = pc, !.child = child]
<1>1. cli' = [cli EXCEPT ![p] = d]
  BY Zenon
<1>2. cli[p] \in Command
  OBVIOUS
<1>3. /\ d \in Command
      /\ d.pc = pc /\ d.phase = cli[p].phase
      /\ d.then = cli[p].then /\ d.previous = cli[p].previous
      /\ d.identity = cli[p].identity /\ d.child = child
      /\ d.name = cli[p].name /\ d.selection = cli[p].selection
      /\ d.asked = cli[p].asked
  BY <1>2 DEF Command
<1>. HIDE DEF d
<1>4. cli'[p] = d /\ cli' \in [Process -> Command]
      /\ \A q \in Process \ {p} : cli'[q] = cli[q]
  BY <1>1, <1>3
<1>. QED
  BY <1>3, <1>4 DEF Moves

\* The submission that has verified the card.
LEMMA CardForm ==
  ASSUME cli \in [Process -> Command], NEW p \in Process,
         NEW pc \in Places,
         NEW identity \in Identity,
         cli' = [cli EXCEPT ![p].pc = pc, ![p].identity = identity]
  PROVE  Moves(p, pc, cli[p].phase, cli[p].then, cli[p].previous, identity,
               cli[p].child)
<1>. DEFINE d == [cli[p] EXCEPT !.pc = pc, !.identity = identity]
<1>1. cli' = [cli EXCEPT ![p] = d]
  BY Zenon
<1>2. cli[p] \in Command
  OBVIOUS
<1>3. /\ d \in Command
      /\ d.pc = pc /\ d.phase = cli[p].phase
      /\ d.then = cli[p].then /\ d.previous = cli[p].previous
      /\ d.identity = identity /\ d.child = cli[p].child
      /\ d.name = cli[p].name /\ d.selection = cli[p].selection
      /\ d.asked = cli[p].asked
  BY <1>2 DEF Command
<1>. HIDE DEF d
<1>4. cli'[p] = d /\ cli' \in [Process -> Command]
      /\ \A q \in Process \ {p} : cli'[q] = cli[q]
  BY <1>1, <1>3
<1>. QED
  BY <1>3, <1>4 DEF Moves

-----------------------------------------------------------------------------
(* The steps that leave the service and the run alone.                     *)

Others(p) == \A q \in Process \ {p} : cli'[q] = cli[q]

\* A lock that a step takes or gives back is not another's.
Mine(p) ==
  /\ serviceLock' = serviceLock \/ serviceLock \in {NoProcess, p}
  /\ submitLock' = submitLock \/ submitLock \in {NoProcess, p}

\* Such a step keeps Sound if the new place fits.
LEMMA Frame ==
  ASSUME SelectionAssumption, Sound, NEW p \in Process, Others(p), Mine(p),
         UNCHANGED <<server, record, services, outstanding, work, crashes>>,
         TypeOK', Fits(p)', cli[p].pc # "record", ~Announced(p)'
  PROVE  Sound'
<1>1. ASSUME NEW q \in Process \ {p} PROVE Fits(q)'
  <2>1. cli'[q] = cli[q] /\ Fits(q)
    BY DEF Others, Sound
  <2>2. /\ cli[q].pc \in Serving => serviceLock' = q
        /\ Inside(cli[q]) => submitLock' = q
    BY <2>1 DEF Fits, Excluded, Mine, SelectionAssumption
  <2>. QED
    BY <2>1, <2>2 DEF Fits, Excluded, Quiet, Launched, Carded, Announced,
                      Replacing, OfSelection, Alive
<1>2. Loaded'
  BY DEF Sound, Loaded
<1>3. crashes' = 0 => Known'
  <2>. SUFFICES ASSUME crashes = 0 PROVE Known'
    OBVIOUS
  <2>1. Known
    BY DEF Sound
  <2>. SUFFICES ASSUME NEW s \in Service, Serves(s), s # record
                PROVE  \E q \in Process : cli'[q].pc = "record" /\ cli'[q].child = s
    BY DEF Known, Serves
  <2>2. PICK q \in Process : cli[q].pc = "record" /\ cli[q].child = s
    BY <2>1 DEF Known
  <2>3. cli'[q] = cli[q]
    BY <2>2 DEF Others
  <2>. QED
    BY <2>2, <2>3
<1>4. crashes' = 0 => Pins'
  <2>1. ASSUME NEW q \in Process, Announced(q)' PROVE Announced(q)
    BY <2>1 DEF Announced, Others
  <2>. QED
    BY <2>1 DEF Sound, Pins, Serves, OfSelection
<1>5. ~Denials => RecordSelected'
  BY DEF Sound, RecordSelected, OfSelection
<1>. QED
  BY <1>1, <1>2, <1>3, <1>4, <1>5 DEF Sound

\* What is known of a command.
LEMMA Here ==
  ASSUME Sound, NEW p \in Process
  PROVE  /\ TypeOK /\ Fits(p)
         /\ cli[p] \in Command /\ cli \in [Process -> Command]
  BY DEF Sound, TypeOK

LEMMA DoneFields ==
  /\ Done.pc = "idle" /\ Done.name = "none" /\ Done.phase = "start"
  /\ Done.then = "idle" /\ Done.selection = NoSelection
  /\ Done.asked = NoRequest /\ Done.previous = NoSelection
  /\ Done.identity = NoSelection /\ Done.child = 0
  BY DEF Done

LEMMA DoneCommand == SelectionAssumption => Done \in Command
  BY DEF SelectionAssumption, Done, Command, Pending, Places

\* The places where a command has no lock, no service and no card.
Outer == {"idle", "service", "submit", "send", "mark", "both"}

LEMMA OuterPlaces ==
  /\ Outer \subseteq Places
  /\ Outer \cap Submitting = {} /\ Outer \cap Switching = {}
  /\ Outer \cap Starting = {} /\ "unlock" \notin Outer
  /\ Outer \cap Serving = {"both"}
  BY DEF Outer, Places, Serving, Submitting, Switching, Starting

\* A command there only needs its own shape.
OuterFit ==
  \A p \in Process :
    cli[p].pc \in Outer \ {"both"} /\ Shape(cli[p]) => Fits(p) /\ ~Announced(p)

LEMMA OuterFits == OuterFit
  BY OuterPlaces DEF OuterFit, Fits, Excluded, Inside, Quiet, Changing, Launched,
     Carded, Announced, Replacing, Outer

LEMMA OuterFitsNext == OuterFit'
  BY OuterFits, PTL

\* A command begins.
LEMMA BeginsSound ==
  ASSUME SelectionAssumption, Sound, NEW p \in Process, NEW c \in Command,
         Shape(c), c.pc \in {"service", "mark", "submit"}, Begins(p, c),
         given' \in 0..MaxCommands
  PROVE  Sound'
<1>1. /\ cli' \in [Process -> Command] /\ Others(p) /\ cli'[p] = c
      /\ cli[p].pc = "idle"
      /\ UNCHANGED <<selected, record, services, locks, dispatched, crashes>>
  BY Here DEF Begins, At, Others
<1>2. TypeOK'
  BY <1>1, Here DEF TypeOK, selected, locks, dispatched
<1>3. Fits(p)' /\ ~Announced(p)'
  BY <1>1, OuterFitsNext DEF OuterFit, Outer
<1>. QED
  BY <1>1, <1>2, <1>3, Frame DEF Mine, selected, locks, dispatched

\* Every way in which a command begins.
LEMMA GivenTyped ==
  ASSUME SelectionAssumption, TypeOK, Given
  PROVE  given' = given + 1 /\ given' \in 0..MaxCommands /\ given' \in 1..MaxCommands
  BY DEF SelectionAssumption, TypeOK, Given

LEMMA StartSound ==
  ASSUME SelectionAssumption, Sound, NEW p \in Process,
         StartCommand(p) \/ StopCommand(p)
  PROVE  Sound'
<1>1. given' \in 0..MaxCommands
  BY Here, GivenTyped DEF StartCommand, StopCommand
<1>2. server \in Identity
  BY Here DEF TypeOK
<1>3. CASE StartCommand(p)
  <2>. DEFINE c == [Done EXCEPT !.pc = "service", !.name = "start",
                                !.previous = server]
  <2>1. c \in Command /\ c.pc = "service" /\ c.name = "start"
        /\ c.phase = "start" /\ c.then = "idle"
    BY <1>2, DoneCommand, DoneFields, OuterPlaces DEF Command, Outer
  <2>2. Begins(p, c)
    BY <1>3 DEF StartCommand
  <2>. HIDE DEF c
  <2>3. Shape(c)
    BY <2>1 DEF Shape, Switching, Starting
  <2>. QED
    BY <1>1, <2>1, <2>2, <2>3, BeginsSound
<1>4. CASE StopCommand(p)
  <2>. DEFINE c == [Done EXCEPT !.pc = "service", !.name = "stop"]
  <2>1. c \in Command /\ c.pc = "service" /\ c.name = "stop"
        /\ c.phase = "start" /\ c.then = "idle"
    BY <1>2, DoneCommand, DoneFields, OuterPlaces DEF Command, Outer
  <2>2. Begins(p, c)
    BY <1>4 DEF StopCommand
  <2>. HIDE DEF c
  <2>3. Shape(c)
    BY <2>1 DEF Shape, Switching, Starting
  <2>. QED
    BY <1>1, <2>1, <2>2, <2>3, BeginsSound
<1>. QED
  BY <1>3, <1>4

LEMMA SwitchSound ==
  ASSUME SelectionAssumption, Sound, NEW p \in Process, NEW s \in Selection,
         SwitchCommand(p, s)
  PROVE  Sound'
<1>. DEFINE c == [Done EXCEPT !.pc = "service", !.name = "switch",
                              !.selection = s]
<1>1. given' \in 0..MaxCommands /\ Begins(p, c)
  BY Here, GivenTyped DEF SwitchCommand
<1>2. c \in Command /\ c.pc = "service" /\ c.name = "switch"
      /\ c.phase = "start" /\ c.then = "idle" /\ c.selection = s
  BY DoneCommand, DoneFields, OuterPlaces DEF Command, Outer
<1>. HIDE DEF c
<1>3. Shape(c)
  BY <1>2 DEF Shape, Switching, Starting
<1>. QED
  BY <1>1, <1>2, <1>3, BeginsSound

LEMMA QueueSound ==
  ASSUME SelectionAssumption, Sound, NEW p \in Process, NEW s \in Selection,
         QueueCommand(p, s) \/ CancelCommand(p)
  PROVE  Sound'
<1>1. given' \in 1..MaxCommands /\ given' \in 0..MaxCommands
  BY Here, GivenTyped DEF QueueCommand, CancelCommand
<1>2. ASSUME NEW c \in Command, Begins(p, c), c.pc = "service",
             c.name \in {"queue", "drop"}, c.phase = "start", c.then = "idle"
      PROVE  Sound'
  <2>1. Shape(c)
    BY <1>2 DEF Shape, Switching, Starting
  <2>. QED
    BY <1>1, <1>2, <2>1, BeginsSound
<1>. DEFINE d == [Done EXCEPT !.pc = "service", !.name = "drop"]
            r == [number |-> given', selection |-> s, failed |-> FALSE]
            q == [Done EXCEPT !.pc = "service", !.name = "queue", !.asked = r]
<1>3. Begins(p, d) \/ Begins(p, q)
  BY DEF QueueCommand, CancelCommand
<1>4. d \in Command /\ d.pc = "service" /\ d.name = "drop"
      /\ d.phase = "start" /\ d.then = "idle"
  BY DoneCommand, DoneFields, OuterPlaces DEF Command, Outer
<1>5. r \in Pending
  BY <1>1 DEF Pending
<1>. HIDE DEF r
<1>6. q \in Command /\ q.pc = "service" /\ q.name = "queue"
      /\ q.phase = "start" /\ q.then = "idle"
  BY <1>5, DoneCommand, DoneFields, OuterPlaces DEF Command, Outer
<1>. QED
  BY <1>2, <1>3, <1>4, <1>6

\* The request is one that is in the file.
LEMMA ApplySound ==
  ASSUME SelectionAssumption, Sound, NEW p \in Process,
         NEW then \in {"idle", "submit"}, ApplyPending(p, then)
  PROVE  Sound'
<1>1. given' \in 0..MaxCommands
  BY Here DEF ApplyPending, TypeOK
<1>2. PICK place \in {"service", "mark"} :
        Begins(p, [Done EXCEPT !.pc = place, !.name = "apply",
                               !.selection = pending.selection,
                               !.asked = pending, !.then = then])
  BY DEF ApplyPending
<1>3. pending \in Pending /\ pending # NoRequest /\ pending.selection \in Selection
  BY Here DEF ApplyPending, TypeOK, Pending
<1>. DEFINE s == pending.selection
            r == pending
            c == [Done EXCEPT !.pc = place, !.name = "apply", !.selection = s,
                              !.asked = r, !.then = then]
<1>4. Begins(p, c)
  BY <1>2
<1>5. s \in Selection /\ r \in Pending /\ r # NoRequest
  BY <1>3
<1>. HIDE DEF s, r
<1>6. c \in Command /\ c.pc = place /\ c.name = "apply" /\ c.phase = "start"
      /\ c.then = then /\ c.selection = s /\ c.asked = r
  BY <1>2, <1>5, DoneCommand, DoneFields, OuterPlaces DEF Command, Outer
<1>. HIDE DEF c
<1>7. Shape(c)
  BY <1>2, <1>5, <1>6 DEF Shape, Switching, Starting
<1>. QED
  BY <1>1, <1>2, <1>4, <1>6, <1>7, BeginsSound

LEMMA ExecuteSound ==
  ASSUME SelectionAssumption, Sound, NEW p \in Process, Execute(p) \/ Tick(p)
  PROVE  Sound'
<1>. DEFINE c == [Done EXCEPT !.pc = "submit", !.name = "execute"]
<1>1. CASE Begins(p, c) /\ UNCHANGED given
  <2>1. given' \in 0..MaxCommands
    BY <1>1, Here DEF TypeOK
  <2>2. c \in Command /\ c.pc = "submit" /\ c.name = "execute"
        /\ c.phase = "start" /\ c.then = "idle"
    BY DoneCommand, DoneFields, OuterPlaces DEF Command, Outer
  <2>3. Begins(p, c)
    BY <1>1
  <2>. HIDE DEF c
  <2>4. Shape(c)
    BY <2>2 DEF Shape, Switching, Starting
  <2>. QED
    BY <2>1, <2>2, <2>3, <2>4, BeginsSound
<1>. QED
  BY <1>1, ApplySound DEF Execute, Tick

LEMMA BeginSound ==
  ASSUME SelectionAssumption, Sound, NEW p \in Process, Begin(p)
  PROVE  Sound'
<1>1. server.selection \in Selection
  BY Here DEF TypeOK, Identity
<1>2. CASE CancelCommand(p)
  BY <1>1, <1>2, QueueSound
<1>. QED
  BY <1>2, StartSound, SwitchSound, QueueSound, ExecuteSound DEF Begin

-----------------------------------------------------------------------------
(* The steps of the locks and of the request.                              *)

LEMMA PlaceSets ==
  /\ Serving \cup Submitting \cup Outer = Places
  /\ Starting \subseteq Serving /\ Switching \subseteq Serving
  /\ Starting = {"inspect", "record", "await", "giveup"}
  /\ Switching = {"check", "stop", "publish", "restore", "dequeue"}
  /\ Submitting = {"preflight", "announce", "unsubmit"}
  /\ Serving = Starting \cup Switching
               \cup {"both", "unlock", "unserve", "write", "unlink"}
  BY DEF Places, Serving, Submitting, Starting, Switching, Outer

\* Leaves gives back submit.lock first, if the command is inside.
LEMMA LeavesForm ==
  ASSUME Sound, NEW p \in Process, NEW then \in {"idle", "mark", "submit", "send"},
         Leaves(p, then),
         cli[p].pc \in Serving
  PROVE  \E pc \in {"unlock", "unserve"} :
           /\ Moves(p, pc, cli[p].phase, then, cli[p].previous, cli[p].identity,
                    cli[p].child)
           /\ pc = "unlock" => Inside(cli[p])
<1>. DEFINE pc == IF HoldsSubmit(p) THEN "unlock" ELSE "unserve"
<1>1. cli' = [cli EXCEPT ![p].pc = pc, ![p].then = then]
  BY DEF Leaves
<1>2. pc \in {"unlock", "unserve"} /\ (pc = "unlock" => Inside(cli[p]))
  BY DEF HoldsSubmit, Inside
<1>. HIDE DEF pc
<1>3. pc \in Places
  BY <1>2, PlaceSets
<1>. QED
  BY <1>1, <1>2, <1>3, Here, ThenForm

\* Then nothing is left to fit but the locks.
LEMMA LeavesFits ==
  ASSUME Sound, NEW p \in Process, NEW then \in {"idle", "mark", "submit", "send"},
         Leaves(p, then), cli[p].pc \in Serving,
         then = "mark" => cli[p].name = "apply",
         serviceLock' = serviceLock, submitLock' = submitLock
  PROVE  /\ cli' \in [Process -> Command] /\ Others(p) /\ Fits(p)'
         /\ ~Announced(p)' /\ cli'[p].pc # "record"
<1>1. PICK pc \in {"unlock", "unserve"} :
           /\ Moves(p, pc, cli[p].phase, then, cli[p].previous, cli[p].identity,
                    cli[p].child)
           /\ pc = "unlock" => Inside(cli[p])
  BY LeavesForm
<1>2. Fits(p)
  BY Here
<1>3. Shape(cli'[p])
  BY <1>1, <1>2, PlaceSets DEF Moves, Fits, Shape, Starting, Switching
<1>4. Excluded(p)'
  BY <1>1, <1>2, PlaceSets DEF Moves, Fits, Excluded, Inside
<1>5. Quiet(p)' /\ Launched(p)' /\ Carded(p)' /\ Replacing(p)' /\ ~Announced(p)'
  BY <1>1 DEF Moves, Quiet, Changing, Launched, Carded, Replacing, Announced,
     Starting
<1>. QED
  BY <1>1, <1>3, <1>4, <1>5 DEF Fits, Moves, Others

\* A step of p that changes nothing else but a lock or the queued request.
LEMMA CommandStep ==
  ASSUME SelectionAssumption, Sound, NEW p \in Process,
         cli' \in [Process -> Command], Others(p), Mine(p),
         serviceLock' \in Process \cup {NoProcess},
         submitLock' \in Process \cup {NoProcess}, pending' \in Pending,
         UNCHANGED <<server, record, services, dispatched, counters>>,
         Fits(p)', cli[p].pc # "record", ~Announced(p)'
  PROVE  Sound'
<1>1. TypeOK'
  BY Here DEF TypeOK, dispatched, counters
<1>. QED
  BY <1>1, Frame DEF dispatched, counters

LEMMA GivesBack ==
  ASSUME SelectionAssumption, Sound, NEW p \in Process, Unlock(p) \/ Unserve(p)
  PROVE  Sound'
<1>1. p # NoProcess /\ Fits(p) /\ TypeOK /\ cli[p] \in Command
  BY Here DEF SelectionAssumption
<1>2. CASE Unlock(p)
  <2>1. Goto(p, "unserve") /\ cli[p].pc = "unlock" /\ submitLock' = NoProcess
        /\ UNCHANGED <<selected, record, services, serviceLock, dispatched, counters>>
    BY <1>2 DEF Unlock, At
  <2>2. Goes(p, "unserve")
    BY <2>1, PlaceSets, GotoForm, Here
  <2>3. Shape(cli'[p])
    BY <1>1, <2>1, <2>2 DEF Goes, Moves, Fits, Shape, Starting, Switching
  <2>4. Excluded(p)'
    BY <1>1, <2>1, <2>2, PlaceSets DEF Goes, Moves, Fits, Excluded, Inside
  <2>5. Quiet(p)' /\ Launched(p)' /\ Carded(p)' /\ Replacing(p)' /\ ~Announced(p)'
    BY <2>2 DEF Goes, Moves, Quiet, Changing, Launched, Carded, Replacing,
       Announced, Starting
  <2>6. Mine(p) /\ Others(p)
    BY <1>1, <2>1, <2>2, PlaceSets DEF Goes, Moves, Mine, Others, Fits, Excluded,
       Inside
  <2>7. /\ serviceLock' \in Process \cup {NoProcess}
        /\ submitLock' \in Process \cup {NoProcess} /\ pending' \in Pending
    BY <1>1, <2>1 DEF TypeOK, selected
  <2>. QED
    BY <2>1, <2>2, <2>3, <2>4, <2>5, <2>6, <2>7, CommandStep
       DEF Goes, Moves, Fits, selected
<1>3. CASE Unserve(p)
  <2>1. cli[p].pc = "unserve" /\ serviceLock' = NoProcess
        /\ UNCHANGED <<selected, record, services, submitLock, dispatched, counters>>
        /\ IF cli[p].then = "idle" THEN Ends(p) ELSE Goto(p, cli[p].then)
    BY <1>3 DEF Unserve, At
  <2>2. cli' \in [Process -> Command] /\ Others(p)
        /\ cli'[p].pc \in Outer \ {"both"} /\ Shape(cli'[p])
    <3>1. CASE cli[p].then = "idle"
      <4>1. cli' = [cli EXCEPT ![p] = Done]
        BY <2>1, <3>1 DEF Ends
      <4>2. Shape(Done)
        BY DoneFields DEF Shape, Starting, Switching
      <4>. QED
        BY <4>1, <4>2, DoneFields, DoneCommand, Here DEF Others, Outer
    <3>2. CASE cli[p].then # "idle"
      <4>1. cli[p].then \in {"mark", "submit", "send"}
        BY <1>1, <3>2, CommandFields
      <4>2. Goes(p, cli[p].then)
        BY <2>1, <3>2, <4>1, PlaceSets, GotoForm, Here DEF Outer
      <4>. QED
        BY <1>1, <2>1, <4>1, <4>2 DEF Goes, Moves, Others, Outer, Fits, Shape,
           Starting, Switching
    <3>. QED
      BY <3>1, <3>2
  <2>3. Fits(p)' /\ ~Announced(p)'
    BY <2>2, OuterFitsNext DEF OuterFit
  <2>4. Mine(p)
    BY <1>1, <2>1, PlaceSets DEF Mine, Fits, Excluded
  <2>5. /\ serviceLock' \in Process \cup {NoProcess}
        /\ submitLock' \in Process \cup {NoProcess} /\ pending' \in Pending
    BY <1>1, <2>1 DEF TypeOK, selected
  <2>. QED
    BY <2>1, <2>2, <2>3, <2>4, <2>5, CommandStep DEF selected
<1>. QED
  BY <1>2, <1>3

\* A command that is over fits everywhere.
LEMMA EndsForm ==
  ASSUME SelectionAssumption, Sound, NEW p \in Process, Ends(p)
  PROVE  /\ cli' \in [Process -> Command] /\ Others(p)
         /\ Fits(p)' /\ ~Announced(p)' /\ cli'[p] = Done
<1>1. cli' = [cli EXCEPT ![p] = Done]
  BY DEF Ends
<1>2. Shape(Done)
  BY DoneFields DEF Shape, Starting, Switching
<1>3. cli' \in [Process -> Command] /\ Others(p) /\ cli'[p] = Done
  BY <1>1, DoneCommand, Here DEF Others
<1>. QED
  BY <1>2, <1>3, DoneFields, OuterFitsNext DEF OuterFit, Outer

LEMMA UnsubmitSound ==
  ASSUME SelectionAssumption, Sound, NEW p \in Process, Unsubmit(p)
  PROVE  Sound'
<1>1. p # NoProcess /\ Fits(p) /\ TypeOK /\ cli[p] \in Command
  BY Here DEF SelectionAssumption
<1>2. cli[p].pc = "unsubmit" /\ submitLock' = NoProcess
      /\ UNCHANGED <<selected, record, services, serviceLock, dispatched, counters>>
      /\ IF cli[p].then = "idle" THEN Ends(p) ELSE Goto(p, cli[p].then)
  BY DEF Unsubmit, At
<1>3. cli' \in [Process -> Command] /\ Others(p) /\ Fits(p)' /\ ~Announced(p)'
  <2>1. CASE cli[p].then = "idle"
    BY <1>2, <2>1, EndsForm
  <2>2. CASE cli[p].then # "idle"
    <3>1. cli[p].then \in {"mark", "submit", "send"}
      BY <1>1, <2>2, CommandFields
    <3>2. Goes(p, cli[p].then)
      BY <1>2, <2>2, <3>1, PlaceSets, GotoForm, Here DEF Outer
    <3>3. cli' \in [Process -> Command] /\ Others(p) /\ Shape(cli'[p])
          /\ cli'[p].pc \in Outer \ {"both"}
      BY <1>1, <1>2, <3>1, <3>2 DEF Goes, Moves, Others, Outer, Fits, Shape,
         Starting, Switching
    <3>. QED
      BY <3>3, OuterFitsNext DEF OuterFit
  <2>. QED
    BY <2>1, <2>2
<1>4. Mine(p)
  BY <1>1, <1>2, PlaceSets DEF Mine, Fits, Excluded, Inside
<1>5. /\ serviceLock' \in Process \cup {NoProcess}
      /\ submitLock' \in Process \cup {NoProcess} /\ pending' \in Pending
  BY <1>1, <1>2 DEF TypeOK, selected
<1>. QED
  BY <1>2, <1>3, <1>4, <1>5, CommandStep DEF selected

LEMMA TakeServiceLockSound ==
  ASSUME SelectionAssumption, Sound, NEW p \in Process, TakeServiceLock(p)
  PROVE  Sound'
<1>1. Fits(p) /\ TypeOK /\ cli[p] \in Command
  BY Here
<1>2. cli[p].pc = "service"
      /\ UNCHANGED <<selected, record, services, submitLock, dispatched, counters>>
  BY DEF TakeServiceLock, At
<1>3. CASE serviceLock = NoProcess
  <2>1. PICK place : place = CASE cli[p].name = "start" -> "inspect"
                               [] cli[p].name = "queue" -> "write"
                               [] cli[p].name = "drop" -> "unlink"
                               [] OTHER -> "both"
    OBVIOUS
  <2>2. serviceLock' = p /\ Goto(p, place)
    BY <1>3, <2>1, Zenon DEF TakeServiceLock
  <2>3. /\ place \in {"inspect", "write", "unlink", "both"}
        /\ place = "inspect" <=> cli[p].name = "start"
        /\ place = "both" => cli[p].name \in {"stop", "switch", "apply"}
    BY <1>1, <1>2, <2>1 DEF Fits, Shape
  <2>4. Goes(p, place)
    BY <2>2, <2>3, PlaceSets, GotoForm, Here
  <2>5. Shape(cli'[p])
    BY <1>1, <1>2, <2>3, <2>4 DEF Goes, Moves, Fits, Shape, Starting, Switching
  <2>6. Excluded(p)'
    BY <1>1, <1>2, <2>2, <2>3, <2>4, PlaceSets DEF Goes, Moves, Excluded, Inside
  <2>7. Quiet(p)' /\ Launched(p)' /\ Carded(p)' /\ Replacing(p)' /\ ~Announced(p)'
    BY <1>1, <2>3, <2>4 DEF Goes, Moves, Quiet, Changing, Launched, Carded,
       Replacing, Announced, Starting, Fits, Shape
  <2>8. Mine(p) /\ Others(p) /\ Fits(p)' /\ cli' \in [Process -> Command]
    BY <1>2, <1>3, <2>2, <2>4, <2>5, <2>6, <2>7 DEF Goes, Moves, Mine, Others, Fits
  <2>9. /\ serviceLock' \in Process \cup {NoProcess}
        /\ submitLock' \in Process \cup {NoProcess} /\ pending' \in Pending
    BY <1>1, <1>2, <2>2 DEF TypeOK, selected
  <2>. QED
    BY <1>2, <2>7, <2>8, <2>9, CommandStep DEF selected
<1>4. CASE serviceLock # NoProcess
  <2>1. Ends(p) /\ UNCHANGED serviceLock
    BY <1>4 DEF TakeServiceLock
  <2>2. /\ serviceLock' \in Process \cup {NoProcess} /\ Mine(p)
        /\ submitLock' \in Process \cup {NoProcess} /\ pending' \in Pending
    BY <1>1, <1>2, <2>1 DEF TypeOK, selected, Mine
  <2>. QED
    BY <1>2, <2>1, <2>2, EndsForm, CommandStep DEF selected
<1>. QED
  BY <1>3, <1>4

LEMMA TakeSubmitLockSound ==
  ASSUME SelectionAssumption, Sound, NEW p \in Process, TakeSubmitLock(p)
  PROVE  Sound'
<1>1. Fits(p) /\ TypeOK /\ cli[p] \in Command
  BY Here
<1>2. cli[p].pc \in {"both", "submit"}
      /\ UNCHANGED <<selected, record, services, serviceLock, dispatched, counters>>
  BY DEF TakeSubmitLock
<1>3. CASE submitLock = NoProcess
  <2>1. PICK place : place = IF cli[p].pc = "both" THEN "check" ELSE "preflight"
    OBVIOUS
  <2>2. submitLock' = p /\ Goto(p, place) /\ place \in {"check", "preflight"}
    BY <1>3, <2>1 DEF TakeSubmitLock, At
  <2>3. place = "check" <=> cli[p].pc = "both"
    BY <2>1
  <2>4. Goes(p, place)
    BY <2>2, PlaceSets, GotoForm, Here
  <2>5. Shape(cli'[p])
    BY <1>1, <1>2, <2>2, <2>3, <2>4 DEF Goes, Moves, Fits, Shape, Starting, Switching
  <2>6. Excluded(p)'
    BY <1>1, <1>2, <2>2, <2>3, <2>4, PlaceSets DEF Goes, Moves, Fits, Excluded, Inside
  <2>7. Quiet(p)' /\ Launched(p)' /\ Carded(p)' /\ Replacing(p)' /\ ~Announced(p)'
    BY <2>2, <2>4 DEF Goes, Moves, Quiet, Changing, Launched, Carded,
       Replacing, Announced, Starting
  <2>8. Mine(p) /\ Others(p) /\ Fits(p)' /\ cli' \in [Process -> Command]
    BY <1>2, <1>3, <2>4, <2>5, <2>6, <2>7 DEF Goes, Moves, Mine, Others, Fits
  <2>9. /\ serviceLock' \in Process \cup {NoProcess}
        /\ submitLock' \in Process \cup {NoProcess} /\ pending' \in Pending
    BY <1>1, <1>2, <2>2 DEF TypeOK, selected
  <2>. QED
    BY <1>2, <2>7, <2>8, <2>9, CommandStep DEF selected
<1>4. CASE submitLock # NoProcess
  <2>1. /\ UNCHANGED submitLock
        /\ IF cli[p].pc = "both" THEN Leaves(p, "idle") ELSE Ends(p)
    BY <1>4 DEF TakeSubmitLock, At
  <2>2. /\ serviceLock' \in Process \cup {NoProcess} /\ Mine(p)
        /\ submitLock' \in Process \cup {NoProcess} /\ pending' \in Pending
    BY <1>1, <1>2, <2>1 DEF TypeOK, selected, Mine
  <2>3. cli' \in [Process -> Command] /\ Others(p) /\ Fits(p)' /\ ~Announced(p)'
    <3>1. CASE cli[p].pc = "both"
      BY <1>2, <2>1, <3>1, LeavesFits, PlaceSets
    <3>2. CASE cli[p].pc # "both"
      BY <2>1, <3>2, EndsForm
    <3>. QED
      BY <3>1, <3>2
  <2>. QED
    BY <1>2, <2>2, <2>3, CommandStep DEF selected
<1>. QED
  BY <1>3, <1>4

\* The steps that write the queued request under service.lock.
LEMMA RequestSound ==
  ASSUME SelectionAssumption, Sound, NEW p \in Process,
         WriteRequest(p) \/ DropRequest(p) \/ Dequeue(p)
  PROVE  Sound'
<1>1. Fits(p) /\ TypeOK /\ cli[p] \in Command
  BY Here
<1>2. /\ cli[p].pc \in {"write", "unlink", "dequeue"}
      /\ pending' \in {cli[p].asked, NoRequest}
      /\ UNCHANGED <<server, record, services, locks, dispatched, counters>>
  BY DEF WriteRequest, DropRequest, Dequeue, At
<1>3. PICK then \in {"idle", cli[p].then} : Leaves(p, then)
  BY DEF WriteRequest, DropRequest, Dequeue
<1>4. then \in {"idle", "mark", "submit", "send"}
      /\ (then = "mark" => cli[p].name = "apply")
  BY <1>1, <1>3, CommandFields DEF Fits, Shape
<1>5. cli' \in [Process -> Command] /\ Others(p) /\ Fits(p)' /\ ~Announced(p)'
  BY <1>2, <1>3, <1>4, PlaceSets, LeavesFits DEF locks
<1>6. /\ serviceLock' \in Process \cup {NoProcess} /\ Mine(p)
      /\ submitLock' \in Process \cup {NoProcess}
  BY <1>1, <1>2 DEF TypeOK, locks, Mine
<1>7. pending' \in Pending
  BY <1>1, <1>2, CommandFields DEF Pending
<1>. QED
  BY <1>2, <1>5, <1>6, <1>7, CommandStep

LEMMA MarkFailedSound ==
  ASSUME SelectionAssumption, Sound, NEW p \in Process, MarkFailed(p)
  PROVE  Sound'
<1>1. Fits(p) /\ TypeOK /\ cli[p] \in Command
  BY Here
<1>2. /\ cli[p].pc = "mark" /\ Ends(p)
      /\ pending' = [cli[p].asked EXCEPT !.failed = TRUE]
      /\ UNCHANGED <<server, record, services, locks, dispatched, counters>>
  BY DEF MarkFailed, At
<1>3. cli[p].asked \in Pending /\ cli[p].asked # NoRequest
  BY <1>1, <1>2, CommandFields DEF Fits, Shape
<1>4. pending' \in Pending
  BY <1>2, <1>3 DEF Pending
<1>5. /\ serviceLock' \in Process \cup {NoProcess} /\ Mine(p)
      /\ submitLock' \in Process \cup {NoProcess}
  BY <1>1, <1>2 DEF TypeOK, locks, Mine
<1>. QED
  BY <1>2, <1>4, <1>5, EndsForm, CommandStep

\* cmd_switch, cmd_queue and apply_pending: up to the first change.
LEMMA CheckSwitchSound ==
  ASSUME SelectionAssumption, Sound, NEW p \in Process, CheckSwitch(p)
  PROVE  Sound'
<1>1. Fits(p) /\ TypeOK /\ cli[p] \in Command
  BY Here
<1>2. /\ cli[p].pc = "check" /\ cli[p].name \in {"switch", "apply"}
      /\ UNCHANGED <<selected, record, services, locks, dispatched, counters>>
  BY DEF CheckSwitch, At
<1>3. /\ serviceLock' \in Process \cup {NoProcess} /\ Mine(p)
      /\ submitLock' \in Process \cup {NoProcess} /\ pending' \in Pending
  BY <1>1, <1>2 DEF TypeOK, locks, Mine, selected
<1>4. ASSUME NEW then \in {"idle", "mark"}, Leaves(p, then),
             then = "mark" => cli[p].name = "apply"
      PROVE  Sound'
  <2>1. cli' \in [Process -> Command] /\ Others(p) /\ Fits(p)' /\ ~Announced(p)'
    BY <1>2, <1>4, PlaceSets, LeavesFits DEF locks
  <2>. QED
    BY <1>2, <1>3, <2>1, CommandStep DEF selected
<1>5. CASE Goto(p, "dequeue")
  <2>1. Goes(p, "dequeue")
    BY <1>5, PlaceSets, GotoForm, Here
  <2>2. Shape(cli'[p])
    BY <1>1, <1>2, <2>1 DEF Goes, Moves, Fits, Shape, Starting, Switching
  <2>3. Excluded(p)'
    BY <1>1, <1>2, <2>1, PlaceSets DEF Goes, Moves, Fits, Excluded, Inside, locks
  <2>4. Quiet(p)' /\ Launched(p)' /\ Carded(p)' /\ Replacing(p)' /\ ~Announced(p)'
    BY <2>1 DEF Goes, Moves, Quiet, Changing, Launched, Carded, Replacing,
       Announced, Starting
  <2>. QED
    BY <1>2, <1>3, <2>1, <2>2, <2>3, <2>4, CommandStep
       DEF Goes, Moves, Others, Fits, selected
<1>6. ASSUME NEW place \in {"stop", "publish"}, NEW phase \in {"start", "new"},
             ~Unresolved, Candidate(p, place, phase),
             place = "stop" <=> phase = "new",
             ~Denials /\ place = "publish" => ~Running
      PROVE  Sound'
  <2>1. server \in Identity
    BY <1>1 DEF TypeOK
  <2>2. Moves(p, place, phase, cli[p].then, server, cli[p].identity, cli[p].child)
    <3>1. place \in Places /\ phase \in {"start", "new", "old"}
          /\ cli \in [Process -> Command]
      BY PlaceSets, Here
    <3>. QED
      BY <1>6, <2>1, <3>1, CandidateForm
  <2>3. Shape(cli'[p])
    BY <1>1, <1>2, <1>6, <2>1, <2>2 DEF Moves, Fits, Shape, Starting, Switching
  <2>4. Excluded(p)'
    BY <1>1, <1>2, <2>2, PlaceSets DEF Moves, Fits, Excluded, Inside, locks
  <2>5. Quiet(p)'
    BY <1>2, <1>6 DEF Quiet, Unresolved, dispatched
  <2>6. Launched(p)' /\ Carded(p)' /\ ~Announced(p)'
    BY <1>6, <2>2 DEF Moves, Launched, Carded, Announced
  <2>7. ~Denials => Replacing(p)'
    BY <1>2, <1>6, <2>2 DEF Moves, Replacing, Running, Alive
  <2>. QED
    BY <1>2, <1>3, <2>2, <2>3, <2>4, <2>5, <2>6, <2>7, CommandStep
       DEF Moves, Others, Fits, selected
<1>. QED
  BY <1>2, <1>4, <1>5, <1>6, Zenon DEF CheckSwitch, Fails

-----------------------------------------------------------------------------
(* The steps that change the service, under service.lock.                  *)

ServicesType ==
  services \in [Service -> [state : ServiceStates,
                            identity : Identity \cup {NoSelection}]]

LEMMA StoppedForm ==
  ASSUME ServicesType, NEW s, services' = Stopped(s)
  PROVE  /\ ServicesType'
         /\ \A t \in Service \ {s} : services'[t] = services[t]
         /\ s \in Service => /\ services'[s].state = "gone"
                             /\ services'[s].identity = NoSelection
<1>1. Gone \in [state : ServiceStates, identity : Identity \cup {NoSelection}]
      /\ Gone.state = "gone" /\ Gone.identity = NoSelection
  BY DEF Gone, ServiceStates
<1>. QED
  BY <1>1 DEF ServicesType, Stopped

LEMMA StuckForm ==
  ASSUME ServicesType, NEW s, services' = Stuck(s)
  PROVE  /\ ServicesType'
         /\ \A t \in Service \ {s} : services'[t] = services[t]
         /\ s \in Service => /\ services'[s].state = "stuck"
                             /\ services'[s].identity = services[s].identity
  BY DEF ServicesType, Stuck, ServiceStates

\* A launched process has read nothing yet.
LEMMA LaunchForm ==
  ASSUME ServicesType, NEW s \in Service,
         services' = [services EXCEPT ![s].state = "starting"]
  PROVE  /\ ServicesType'
         /\ \A t \in Service \ {s} : services'[t] = services[t]
         /\ services'[s].state = "starting"
         /\ services'[s].identity = services[s].identity
  BY DEF ServicesType, ServiceStates

\* Nobody else is at work on the service.
LEMMA Alone ==
  ASSUME SelectionAssumption, Sound, NEW p \in Process, cli[p].pc \in Serving
  PROVE  /\ serviceLock = p
         /\ \A q \in Process \ {p} : cli[q].pc \notin Serving
         /\ Inside(cli[p]) =>
              \A q \in Process \ {p} : ~Inside(cli[q]) /\ ~Announced(q)
  BY PlaceSets DEF Sound, Fits, Excluded, Announced, Inside

LEMMA OthersFit ==
  ASSUME SelectionAssumption, Sound, NEW p \in Process, Others(p),
         cli[p].pc \in Serving, UNCHANGED <<locks, outstanding, work>>,
         server' = server \/ Inside(cli[p])
  PROVE  \A q \in Process \ {p} :
           /\ Fits(q)' /\ cli'[q].pc # "record"
           /\ Announced(q)' => Announced(q) /\ server' = server
<1>. SUFFICES ASSUME NEW q \in Process \ {p}
              PROVE  /\ Fits(q)' /\ cli'[q].pc # "record"
                     /\ Announced(q)' => Announced(q) /\ server' = server
  OBVIOUS
<1>1. cli'[q] = cli[q] /\ Fits(q) /\ cli[q].pc \notin Serving
      /\ (server' = server \/ ~Announced(q))
  BY Alone DEF Others, Sound
<1>2. Excluded(q)' /\ Shape(cli'[q])
  BY <1>1 DEF Fits, Excluded, locks
<1>3. Quiet(q)' /\ Launched(q)' /\ Replacing(q)'
  BY <1>1, PlaceSets DEF Quiet, Changing, Launched, Replacing
<1>4. Carded(q)'
  BY <1>1 DEF Fits, Carded, Announced
<1>. QED
  BY <1>1, <1>2, <1>3, <1>4, PlaceSets DEF Fits, Announced

\* While no command was killed the service on record is the only one that may
\* answer, except where one has just been launched.
LEMMA OnRecord ==
  ASSUME SelectionAssumption, Sound, crashes = 0, NEW p \in Process,
         cli[p].pc \in Serving, NEW s \in Service, Serves(s)
  PROVE  s = IF cli[p].pc = "record" THEN cli[p].child ELSE record
<1>1. Known /\ Fits(p)
  BY DEF Sound
<1>2. \A q \in Process \ {p} : cli[q].pc # "record"
  BY Alone, PlaceSets
<1>3. cli[p].pc = "record" => s # record
  BY <1>1 DEF Fits, Launched, Service, SelectionAssumption
<1>. QED
  BY <1>1, <1>2, <1>3 DEF Known

\* A step on the service, by what becomes of it.
LEMMA ServiceStep ==
  ASSUME SelectionAssumption, Sound, NEW p \in Process, Others(p),
         cli[p].pc \in Serving,
         cli' \in [Process -> Command], server' \in Identity,
         record' \in 0..MaxStarts, ServicesType',
         UNCHANGED <<pending, locks, dispatched, counters>>,
         server' = server \/ (Inside(cli[p]) /\ Changing(cli[p])),
         Fits(p)', ~Announced(p)', Loaded', crashes = 0 => Known',
         \A s \in Service : Serves(s)' =>
           OfSelection(s)' \/ (Serves(s) /\ services'[s] = services[s]),
         ~Denials => RecordSelected'
  PROVE  Sound'
<1>1. TypeOK'
  BY Here DEF TypeOK, ServicesType, locks, dispatched, counters
<1>2. /\ \A q \in Process : Fits(q)'
      /\ \A q \in Process : Announced(q)' => Announced(q) /\ server' = server
  BY OthersFit DEF dispatched, locks
<1>3. server' = server \/ (outstanding = NoRun /\ work = NoWork)
  BY Here DEF Fits, Quiet
<1>4. outstanding' # NoRun => outstanding'.identity = server'
  BY <1>3 DEF Sound, dispatched
<1>5. crashes' = 0 => Pins'
  <2>. SUFFICES ASSUME crashes = 0 PROVE Pins'
    BY DEF counters
  <2>1. Pins
    BY DEF Sound
  <2>2. work'.at = "open" => work'.identity = server'
    BY <1>3, <2>1 DEF Pins, NoWork, dispatched
  <2>3. ASSUME outstanding' # NoRun \/ \E q \in Process : Announced(q)',
               NEW s \in Service, Serves(s)'
        PROVE  OfSelection(s)'
    <3>1. outstanding # NoRun \/ \E q \in Process : Announced(q)
      BY <1>2, <2>3 DEF dispatched
    <3>2. server' = server
      BY <1>2, <1>3, <2>3 DEF dispatched
    <3>. QED
      BY <2>1, <2>3, <3>1, <3>2 DEF Pins, OfSelection
  <2>. QED
    BY <2>2, <2>3 DEF Pins
<1>6. crashes' = 0 => Known'
  BY DEF counters
<1>. QED
  BY <1>1, <1>2, <1>4, <1>5, <1>6 DEF Sound

LEMMA CheckStopSound ==
  ASSUME SelectionAssumption, Sound, NEW p \in Process, CheckStop(p)
  PROVE  Sound'
<1>1. Fits(p) /\ TypeOK /\ cli[p] \in Command /\ cli[p].pc \in Serving
  BY Here, PlaceSets DEF CheckStop, At
<1>2. /\ cli[p].pc = "check" /\ cli[p].name = "stop"
      /\ UNCHANGED <<selected, services, locks, dispatched, counters>>
  BY DEF CheckStop, At
<1>3. /\ serviceLock' \in Process \cup {NoProcess} /\ Mine(p)
      /\ submitLock' \in Process \cup {NoProcess} /\ pending' \in Pending
  BY <1>1, <1>2 DEF TypeOK, locks, Mine, selected
<1>4. Leaves(p, "idle") =>
        cli' \in [Process -> Command] /\ Others(p) /\ Fits(p)' /\ ~Announced(p)'
        /\ cli'[p].pc # "record"
  BY <1>1, <1>2, LeavesFits DEF locks
<1>5. CASE Leaves(p, "idle") /\ UNCHANGED record
  BY <1>2, <1>3, <1>4, <1>5, CommandStep DEF selected
<1>6. CASE ~Unresolved /\ Running /\ Goto(p, "stop") /\ UNCHANGED record
  <2>1. Goes(p, "stop")
    BY <1>6, PlaceSets, GotoForm, Here
  <2>2. Shape(cli'[p])
    BY <1>1, <1>2, <2>1 DEF Goes, Moves, Fits, Shape, Starting, Switching
  <2>3. Excluded(p)'
    BY <1>1, <1>2, <2>1, PlaceSets DEF Goes, Moves, Fits, Excluded, Inside, locks
  <2>4. Launched(p)' /\ Carded(p)' /\ Replacing(p)' /\ ~Announced(p)'
    BY <2>1 DEF Goes, Moves, Launched, Carded, Replacing, Announced
  <2>5. Quiet(p)'
    BY <1>2, <1>6 DEF Quiet, Unresolved, dispatched
  <2>. QED
    BY <1>2, <1>3, <1>6, <2>1, <2>2, <2>3, <2>4, <2>5, CommandStep
       DEF Goes, Moves, Others, Fits, selected
<1>7. CASE ~Running /\ record' = 0 /\ Leaves(p, "idle")
  <2>1. Loaded' /\ ServicesType'
    BY <1>1, <1>2 DEF Sound, Loaded, TypeOK, ServicesType
  <2>2. crashes = 0 => Known'
    <3>. SUFFICES ASSUME crashes = 0, NEW s \in Service, Serves(s)' PROVE FALSE
      BY DEF Known
    <3>1. s = record /\ Serves(s)
      BY <1>1, <1>2, OnRecord DEF Serves
    <3>. QED
      BY <1>7, <3>1, SelectionAssumption DEF Running, Alive, Service, Serves
  <2>3. \A s \in Service : Serves(s)' => Serves(s) /\ services'[s] = services[s]
    BY <1>2 DEF Serves
  <2>4. RecordSelected'
    BY <1>7 DEF RecordSelected
  <2>5. server' = server /\ server' \in Identity /\ record' \in 0..MaxStarts
    BY <1>1, <1>2, <1>7, SelectionAssumption DEF TypeOK, selected,
       SelectionAssumption
  <2>6. UNCHANGED <<pending, locks, dispatched, counters>>
    BY <1>2 DEF selected
  <2>7. cli' \in [Process -> Command] /\ Others(p) /\ Fits(p)' /\ ~Announced(p)'
    BY <1>4, <1>7
  <2>. QED
    BY <1>1, <2>1, <2>2, <2>3, <2>4, <2>5, <2>6, <2>7, ServiceStep
<1>. QED
  BY <1>5, <1>6, <1>7 DEF CheckStop

LEMMA StopServiceSound ==
  ASSUME SelectionAssumption, Sound, NEW p \in Process, StopService(p)
  PROVE  Sound'
<1>1. Fits(p) /\ TypeOK /\ cli[p] \in Command /\ cli[p].pc \in Serving /\ Loaded
  BY Here, PlaceSets DEF StopService, At, Sound
<1>2. /\ cli[p].pc = "stop"
      /\ UNCHANGED <<selected, locks, dispatched, counters>>
      /\ server' = server /\ server' \in Identity /\ pending' = pending
  BY <1>1 DEF StopService, At, selected, TypeOK
<1>3. Leaves(p, "idle") =>
        cli' \in [Process -> Command] /\ Others(p) /\ Fits(p)' /\ ~Announced(p)'
        /\ cli'[p].pc # "record"
  BY <1>1, <1>2, LeavesFits DEF locks
<1>4. PICK r : r = record
  OBVIOUS
<1>5. ServicesType
  BY <1>1 DEF TypeOK, ServicesType
<1>6. CASE /\ services' = Stopped(record) /\ record' = 0
           /\ IF cli[p].name = "stop" THEN Leaves(p, "idle") ELSE Goto(p, "publish")
  <2>1. /\ ServicesType'
        /\ \A t \in Service \ {r} : services'[t] = services[t]
        /\ r \in Service => services'[r].state = "gone" /\ services'[r].identity = NoSelection
    BY <1>4, <1>5, <1>6, StoppedForm
  <2>2. Loaded'
    BY <1>1, <2>1 DEF Loaded
  <2>3. \A s \in Service : Serves(s)' => Serves(s) /\ s # r /\ services'[s] = services[s]
    BY <2>1 DEF Serves
  <2>4. crashes = 0 => Known'
    BY <1>1, <1>2, <1>4, <2>3, OnRecord DEF Known
  <2>5. RecordSelected' /\ record' \in 0..MaxStarts
    BY <1>6 DEF RecordSelected, SelectionAssumption
  <2>6. cli' \in [Process -> Command] /\ Others(p) /\ Fits(p)' /\ ~Announced(p)'
    <3>1. CASE cli[p].name # "stop"
      <4>1. Goes(p, "publish")
        BY <1>6, <3>1, PlaceSets, GotoForm, Here
      <4>2. Shape(cli'[p])
        BY <1>1, <1>2, <3>1, <4>1 DEF Goes, Moves, Fits, Shape, Starting, Switching
      <4>3. Excluded(p)'
        BY <1>1, <1>2, <4>1, PlaceSets DEF Goes, Moves, Fits, Excluded, Inside, locks
      <4>4. Launched(p)' /\ Carded(p)' /\ Replacing(p)' /\ ~Announced(p)'
        BY <1>6, <4>1 DEF Goes, Moves, Launched, Carded, Replacing, Announced
      <4>5. Quiet(p)'
        BY <1>1, <1>2 DEF Fits, Quiet, Changing, dispatched
      <4>. QED
        BY <4>1, <4>2, <4>3, <4>4, <4>5 DEF Goes, Moves, Others, Fits
    <3>. QED
      BY <1>3, <1>6, <3>1
  <2>7. UNCHANGED <<pending, locks, dispatched, counters>>
    BY <1>2
  <2>8. \A s \in Service : Serves(s)' => Serves(s) /\ services'[s] = services[s]
    BY <2>3
  <2>. QED
    BY <1>1, <1>2, <2>1, <2>2, <2>4, <2>5, <2>6, <2>7, <2>8, ServiceStep
<1>7. CASE Alive(record) /\ services' = Stuck(record) /\ Leaves(p, "idle") /\ UNCHANGED record
  <2>1. /\ ServicesType'
        /\ \A t \in Service \ {r} : services'[t] = services[t]
        /\ r \in Service => /\ services'[r].state = "stuck"
                            /\ services'[r].identity = services[r].identity
    BY <1>4, <1>5, <1>7, StuckForm
  <2>2. Loaded'
    BY <1>1, <2>1 DEF Loaded
  <2>3. \A s \in Service : Serves(s)' => Serves(s) /\ s # r /\ services'[s] = services[s]
    BY <2>1 DEF Serves
  <2>4. crashes = 0 => Known'
    BY <1>1, <1>2, <1>4, <2>3, OnRecord DEF Known
  <2>5. RecordSelected' /\ record' \in 0..MaxStarts
    BY <1>1, <1>4, <1>7, <2>1 DEF RecordSelected, TypeOK, Service, SelectionAssumption
  <2>6. UNCHANGED <<pending, locks, dispatched, counters>>
    BY <1>2
  <2>7. cli' \in [Process -> Command] /\ Others(p) /\ Fits(p)' /\ ~Announced(p)'
    BY <1>3, <1>7
  <2>8. \A s \in Service : Serves(s)' => Serves(s) /\ services'[s] = services[s]
    BY <2>3
  <2>. QED
    BY <1>1, <1>2, <2>1, <2>2, <2>4, <2>5, <2>6, <2>7, <2>8, ServiceStep
<1>. QED
  BY <1>6, <1>7 DEF StopService

\* The configuration of the candidate, or the previous one, is saved.
LEMMA SaveSound ==
  ASSUME SelectionAssumption, Sound, NEW p \in Process, Publish(p) \/ Restore(p)
  PROVE  Sound'
<1>1. Fits(p) /\ TypeOK /\ cli[p] \in Command /\ cli[p].pc \in Serving /\ Loaded
  BY Here, PlaceSets DEF Publish, Restore, At, Sound
<1>2. /\ cli[p].pc \in {"publish", "restore"}
      /\ UNCHANGED <<pending, record, services, locks, dispatched, counters>>
  BY DEF Publish, Restore, At
<1>3. /\ cli[p].previous \in Identity /\ cli[p].selection \in Selection
      /\ cli[p].name \in {"switch", "apply"}
  BY <1>1, <1>2 DEF Fits, Shape
<1>4. server' \in Identity
  BY <1>3 DEF Publish, Restore, Identity
<1>5. Inside(cli[p]) /\ Changing(cli[p])
  BY <1>2, PlaceSets DEF Inside, Changing
<1>6. \E place \in {"inspect", "dequeue"}, phase \in {"start", "new", "old"} :
        /\ Moves(p, place, phase, cli[p].then, cli[p].previous,
                 cli[p].identity, cli[p].child)
        /\ place = "inspect" /\ phase = "new" => cli[p].pc = "publish" /\ cli[p].phase = "new"
  <2>1. CASE Publish(p)
    <3>1. CASE cli[p].phase = "new"
      BY <2>1, <3>1, GotoForm, Here, PlaceSets DEF Publish, Goes, At
    <3>2. CASE cli[p].phase # "new"
      <4>1. Goes(p, "dequeue")
        BY <2>1, <3>2, GotoForm, Here, PlaceSets DEF Publish
      <4>2. cli[p].phase \in {"start", "new", "old"}
        BY <1>1, CommandFields
      <4>. QED
        BY <4>1, <4>2 DEF Goes
    <3>. QED
      BY <3>1, <3>2
  <2>2. CASE Restore(p)
    BY <2>2, PhaseForm, Here, PlaceSets DEF Restore
  <2>. QED
    BY <2>1, <2>2
<1>7. PICK place \in {"inspect", "dequeue"}, phase \in {"start", "new", "old"} :
        /\ Moves(p, place, phase, cli[p].then, cli[p].previous,
                 cli[p].identity, cli[p].child)
        /\ place = "inspect" /\ phase = "new" => cli[p].pc = "publish" /\ cli[p].phase = "new"
  BY <1>6
<1>8. Shape(cli'[p])
  BY <1>1, <1>2, <1>3, <1>7 DEF Moves, Fits, Shape, Starting, Switching
<1>9. Excluded(p)'
  BY <1>1, <1>2, <1>7, PlaceSets DEF Moves, Fits, Excluded, Inside, locks
<1>10. Launched(p)' /\ Carded(p)' /\ ~Announced(p)'
  BY <1>7 DEF Moves, Launched, Carded, Announced
<1>11. Quiet(p)'
  BY <1>1, <1>5, <1>2 DEF Fits, Quiet, dispatched
<1>12. ~Denials => Replacing(p)'
  BY <1>1, <1>2, <1>7 DEF Moves, Fits, Replacing
<1>13. ~Denials => RecordSelected'
  <2>. SUFFICES ASSUME ~Denials, record # 0
                PROVE  OfSelection(record)' \/ services'[record].state = "stuck"
    BY <1>2 DEF RecordSelected
  <2>1. services[record].state \in {"gone", "stuck"} /\ record \in Service
    BY <1>1, <1>2, SelectionAssumption DEF Fits, Replacing, Alive, TypeOK, Service,
       SelectionAssumption
  <2>. QED
    BY <1>1, <1>2, <2>1 DEF Loaded, OfSelection
<1>14. crashes = 0 => Known'
  BY <1>1, <1>2, OnRecord DEF Known, Serves
<1>15. Loaded' /\ ServicesType' /\ record' \in 0..MaxStarts
  BY <1>1, <1>2 DEF Loaded, TypeOK, ServicesType
<1>16. \A s \in Service : Serves(s)' => Serves(s) /\ services'[s] = services[s]
  BY <1>2 DEF Serves
<1>17. Fits(p)' /\ Others(p) /\ cli' \in [Process -> Command]
  BY <1>7, <1>8, <1>9, <1>10, <1>11, <1>12 DEF Fits, Moves, Others
<1>. QED
  BY <1>1, <1>2, <1>4, <1>5, <1>10, <1>13, <1>14, <1>15, <1>16, <1>17, ServiceStep

\* start_locked returns or raises: the command leaves, or the switch goes on.
LEMMA StartFits ==
  ASSUME SelectionAssumption, Sound, NEW p \in Process,
         cli[p].pc \in {"inspect", "await", "giveup"},
         Started(p) \/ NotStarted(p),
         UNCHANGED <<locks, outstanding, work>>,
         ~Denials /\ cli[p].phase = "new" /\ NotStarted(p) =>
           record' = 0 \/ services'[record'].state \in {"gone", "stuck"}
  PROVE  /\ cli' \in [Process -> Command] /\ Others(p) /\ Fits(p)'
         /\ ~Announced(p)' /\ cli'[p].pc # "record"
<1>1. Fits(p) /\ TypeOK /\ cli[p] \in Command /\ cli[p].pc \in Serving
  BY Here, PlaceSets
<1>2. ASSUME NEW then \in {"idle", "mark"}, Leaves(p, then),
             then = "mark" => cli[p].name = "apply"
      PROVE  /\ cli' \in [Process -> Command] /\ Others(p) /\ Fits(p)'
             /\ ~Announced(p)' /\ cli'[p].pc # "record"
  BY <1>1, <1>2, LeavesFits DEF locks
<1>3. ASSUME NEW place \in {"dequeue", "restore"}, Goto(p, place),
             cli[p].phase = "new", place = "restore" => NotStarted(p)
      PROVE  /\ cli' \in [Process -> Command] /\ Others(p) /\ Fits(p)'
             /\ ~Announced(p)' /\ cli'[p].pc # "record"
  <2>1. Goes(p, place)
    BY <1>3, PlaceSets, GotoForm, Here
  <2>2. Shape(cli'[p])
    BY <1>1, <1>3, <2>1 DEF Goes, Moves, Fits, Shape, Starting, Switching
  <2>3. cli[p].name \in {"switch", "apply"}
    BY <1>1, <1>3 DEF Fits, Shape
  <2>4. Excluded(p)'
    BY <1>1, <1>3, <2>1, <2>3, PlaceSets DEF Goes, Moves, Fits, Excluded, Inside, locks
  <2>5. Launched(p)' /\ Carded(p)' /\ ~Announced(p)'
    BY <1>3, <2>1 DEF Goes, Moves, Launched, Carded, Announced
  <2>6. Quiet(p)'
    BY <1>1, <1>3, <2>3, PlaceSets DEF Fits, Quiet, Changing
  <2>7. ~Denials => Replacing(p)'
    BY <1>3, <2>1 DEF Goes, Moves, Replacing
  <2>. QED
    BY <1>3, <2>1, <2>2, <2>4, <2>5, <2>6, <2>7 DEF Goes, Moves, Others, Fits
<1>4. CASE cli[p].phase = "start"
  <2>1. Leaves(p, "idle")
    BY <1>4 DEF Started, NotStarted
  <2>. QED
    BY <1>2, <2>1
<1>5. CASE cli[p].phase = "new"
  <2>1. Goto(p, "dequeue") \/ (Goto(p, "restore") /\ NotStarted(p))
    BY <1>5 DEF Started, NotStarted
  <2>. QED
    BY <1>3, <1>5, <2>1
<1>6. CASE cli[p].phase = "old"
  <2>1. Fails(p)
    BY <1>6 DEF Started, NotStarted
  <2>2. CASE cli[p].name = "apply"
    BY <1>2, <2>1, <2>2 DEF Fails
  <2>3. CASE cli[p].name # "apply"
    BY <1>2, <2>1, <2>3 DEF Fails
  <2>. QED
    BY <2>2, <2>3
<1>. QED
  BY <1>1, <1>4, <1>5, <1>6, CommandFields

LEMMA InspectSound ==
  ASSUME SelectionAssumption, Sound, NEW p \in Process, Inspect(p)
  PROVE  Sound'
<1>1. Fits(p) /\ TypeOK /\ cli[p] \in Command /\ cli[p].pc \in Serving /\ Loaded
  BY Here, PlaceSets DEF Inspect, At, Sound
<1>2. /\ cli[p].pc = "inspect"
      /\ UNCHANGED <<selected, locks, dispatched, counters>>
  BY DEF Inspect, At
<1>3. /\ serviceLock' \in Process \cup {NoProcess} /\ Mine(p)
      /\ submitLock' \in Process \cup {NoProcess} /\ pending' \in Pending
  BY <1>1, <1>2 DEF TypeOK, locks, Mine, selected
<1>4. CASE (Started(p) \/ NotStarted(p)) /\ UNCHANGED <<record, services>>
  <2>1. ~Denials /\ cli[p].phase = "new" /\ NotStarted(p) =>
          record' = 0 \/ services'[record'].state \in {"gone", "stuck"}
    BY <1>1, <1>2, <1>4 DEF Fits, Replacing
  <2>2. /\ cli' \in [Process -> Command] /\ Others(p) /\ Fits(p)'
        /\ ~Announced(p)' /\ cli'[p].pc # "record"
    BY <1>2, <1>4, <2>1, StartFits DEF dispatched
  <2>. QED
    BY <1>2, <1>3, <1>4, <2>2, CommandStep DEF selected
<1>5. ASSUME NEW s \in Service, ~Running, ~Listens, ~Alive(s),
             services' = [services EXCEPT ![s].state = "starting"],
             cli' = [cli EXCEPT ![p].pc = "record", ![p].child = s],
             record' = 0
      PROVE  Sound'
  <2>1. Moves(p, "record", cli[p].phase, cli[p].then, cli[p].previous,
              cli[p].identity, s)
    <3>1. s \in 0..MaxStarts /\ "record" \in Places
      BY SelectionAssumption, PlaceSets DEF Service, SelectionAssumption
    <3>. QED
      BY <1>5, <3>1, ChildForm, Here
  <2>2. Shape(cli'[p])
    BY <1>1, <1>2, <2>1 DEF Moves, Fits, Shape, Starting, Switching
  <2>3. Excluded(p)'
    BY <1>1, <1>2, <2>1, PlaceSets DEF Moves, Fits, Excluded, Inside, locks
  <2>4. Launched(p)' /\ Carded(p)' /\ ~Announced(p)'
    BY <1>5, <2>1 DEF Moves, Launched, Carded, Announced
  <2>5. Quiet(p)'
    BY <1>1, <1>2, <2>1, PlaceSets DEF Moves, Fits, Quiet, Changing, dispatched
  <2>6. ServicesType
    BY <1>1 DEF TypeOK, ServicesType
  <2>7. /\ ServicesType'
        /\ \A t \in Service \ {s} : services'[t] = services[t]
        /\ services'[s].state = "starting"
        /\ services'[s].identity = services[s].identity
    BY <1>5, <2>6, LaunchForm
  <2>8. services[s].identity = NoSelection
    BY <1>1, <1>5 DEF Loaded, Alive
  <2>9. Replacing(p)'
    BY <2>1, <2>7, <2>8 DEF Moves, Replacing, OfSelection
  <2>10. Fits(p)' /\ Others(p) /\ cli' \in [Process -> Command]
    BY <2>1, <2>2, <2>3, <2>4, <2>5, <2>9 DEF Moves, Fits, Others
  <2>11. Loaded'
    BY <1>1, <2>7 DEF Loaded
  <2>12. crashes = 0 => Known'
    <3>. SUFFICES ASSUME crashes = 0, NEW t \in Service, Serves(t)', t # s
                  PROVE  FALSE
      BY <2>1 DEF Known, Moves
    <3>1. Serves(t)
      BY <2>7 DEF Serves
    <3>2. t = record
      BY <1>1, <1>2, <3>1, OnRecord
    <3>. QED
      BY <1>5, <3>1, <3>2, SelectionAssumption DEF Running, Alive, Service, Serves
  <2>13. \A t \in Service : Serves(t)' =>
           OfSelection(t)' \/ (Serves(t) /\ services'[t] = services[t])
    BY <2>7, <2>8 DEF Serves, OfSelection
  <2>14. RecordSelected' /\ record' \in 0..MaxStarts
    BY <1>5 DEF RecordSelected, SelectionAssumption
  <2>15. server' = server /\ server' \in Identity
         /\ UNCHANGED <<pending, locks, dispatched, counters>>
    BY <1>1, <1>2 DEF TypeOK, selected
  <2>. QED
    BY <1>1, <2>4, <2>7, <2>10, <2>11, <2>12, <2>13, <2>14, <2>15, ServiceStep
<1>. QED
  BY <1>4, <1>5 DEF Inspect

LEMMA RecordProcessSound ==
  ASSUME SelectionAssumption, Sound, NEW p \in Process, RecordProcess(p)
  PROVE  Sound'
<1>1. Fits(p) /\ TypeOK /\ cli[p] \in Command /\ cli[p].pc \in Serving /\ Loaded
  BY Here, PlaceSets DEF RecordProcess, At, Sound
<1>2. /\ cli[p].pc = "record" /\ record' = cli[p].child /\ Goto(p, "await")
      /\ UNCHANGED <<selected, services, locks, dispatched, counters>>
  BY DEF RecordProcess, At
<1>3. Goes(p, "await")
  BY <1>2, GotoForm, Here, PlaceSets
<1>4. Shape(cli'[p])
  BY <1>1, <1>2, <1>3 DEF Goes, Moves, Fits, Shape, Starting, Switching
<1>5. Excluded(p)'
  BY <1>1, <1>2, <1>3, PlaceSets DEF Goes, Moves, Fits, Excluded, Inside, locks
<1>6. Carded(p)' /\ ~Announced(p)' /\ Replacing(p)'
  BY <1>3 DEF Goes, Moves, Carded, Announced, Replacing
<1>7. Launched(p)' /\ record' \in 0..MaxStarts
  BY <1>1, <1>2, <1>3, CommandFields DEF Goes, Moves, Fits, Launched
<1>8. Quiet(p)'
  BY <1>1, <1>2, <1>3, PlaceSets DEF Goes, Moves, Fits, Quiet, Changing, dispatched
<1>9. Fits(p)' /\ Others(p) /\ cli' \in [Process -> Command]
  BY <1>3, <1>4, <1>5, <1>6, <1>7, <1>8 DEF Goes, Moves, Fits, Others
<1>10. Loaded' /\ ServicesType'
  BY <1>1, <1>2 DEF Loaded, TypeOK, ServicesType
<1>11. crashes = 0 => Known'
  BY <1>1, <1>2, OnRecord DEF Known, Serves
<1>12. \A s \in Service : Serves(s)' => Serves(s) /\ services'[s] = services[s]
  BY <1>2 DEF Serves
<1>13. ~Denials => RecordSelected'
  BY <1>1, <1>2 DEF Fits, Replacing, RecordSelected, OfSelection, selected
<1>14. server' = server /\ server' \in Identity
       /\ UNCHANGED <<pending, locks, dispatched, counters>>
  BY <1>1, <1>2 DEF TypeOK, selected
<1>. QED
  BY <1>1, <1>6, <1>7, <1>9, <1>10, <1>11, <1>12, <1>13, <1>14, ServiceStep

LEMMA AwaitServiceSound ==
  ASSUME SelectionAssumption, Sound, NEW p \in Process, AwaitService(p)
  PROVE  Sound'
<1>1. Fits(p) /\ TypeOK /\ cli[p] \in Command /\ cli[p].pc \in Serving
  BY Here, PlaceSets DEF AwaitService, At
<1>2. /\ cli[p].pc = "await"
      /\ UNCHANGED <<selected, record, services, locks, dispatched, counters>>
  BY DEF AwaitService, At
<1>3. /\ serviceLock' \in Process \cup {NoProcess} /\ Mine(p)
      /\ submitLock' \in Process \cup {NoProcess} /\ pending' \in Pending
  BY <1>1, <1>2 DEF TypeOK, locks, Mine, selected
<1>4. CASE Started(p)
  <2>1. ~(cli[p].phase = "new" /\ NotStarted(p))
    <3>. SUFFICES ASSUME cli[p].phase = "new", NotStarted(p) PROVE FALSE
      OBVIOUS
    <3>1. Goto(p, "restore") /\ Goto(p, "dequeue")
      BY <1>4 DEF Started, NotStarted
    <3>2. Goes(p, "restore") /\ Goes(p, "dequeue")
      BY <3>1, GotoForm, Here, PlaceSets
    <3>. QED
      BY <3>2 DEF Goes, Moves
  <2>. QED
    BY <1>2, <1>3, <1>4, <2>1, StartFits, CommandStep DEF selected, dispatched
<1>5. CASE Goto(p, "giveup")
  <2>1. Goes(p, "giveup")
    BY <1>5, GotoForm, Here, PlaceSets
  <2>2. Shape(cli'[p])
    BY <1>1, <1>2, <2>1 DEF Goes, Moves, Fits, Shape, Starting, Switching
  <2>3. Excluded(p)'
    BY <1>1, <1>2, <2>1, PlaceSets DEF Goes, Moves, Fits, Excluded, Inside, locks
  <2>4. Carded(p)' /\ ~Announced(p)' /\ Replacing(p)'
    BY <2>1 DEF Goes, Moves, Carded, Announced, Replacing
  <2>5. Launched(p)'
    BY <1>1, <1>2, <2>1 DEF Goes, Moves, Fits, Launched
  <2>6. Quiet(p)'
    BY <1>1, <1>2, <2>1, PlaceSets DEF Goes, Moves, Fits, Quiet, Changing, dispatched
  <2>. QED
    BY <1>2, <1>3, <2>1, <2>2, <2>3, <2>4, <2>5, <2>6, CommandStep
       DEF Goes, Moves, Others, Fits, selected
<1>. QED
  BY <1>4, <1>5 DEF AwaitService

LEMMA GiveUpSound ==
  ASSUME SelectionAssumption, Sound, NEW p \in Process, GiveUp(p)
  PROVE  Sound'
<1>1. Fits(p) /\ TypeOK /\ cli[p] \in Command /\ cli[p].pc \in Serving /\ Loaded
  BY Here, PlaceSets DEF GiveUp, At, Sound
<1>2. /\ cli[p].pc = "giveup" /\ NotStarted(p)
      /\ UNCHANGED <<selected, locks, dispatched, counters>>
  BY DEF GiveUp, At
<1>3. PICK c \in Service : c = cli[p].child /\ c = record
  BY <1>1, <1>2 DEF Fits, Launched
<1>4. ServicesType
  BY <1>1 DEF TypeOK, ServicesType
<1>5. \/ services' = Stopped(c) /\ record' = 0
      \/ services' = Stuck(c) /\ record' = record
  BY <1>3 DEF GiveUp
<1>6. /\ ServicesType'
      /\ \A t \in Service \ {c} : services'[t] = services[t]
      /\ \/ /\ services'[c].state = "gone" /\ services'[c].identity = NoSelection
            /\ record' = 0
         \/ /\ services'[c].state = "stuck" /\ record' = c
            /\ services'[c].identity = services[c].identity
  BY <1>3, <1>4, <1>5, StoppedForm, StuckForm
<1>7. record' = 0 \/ services'[record'].state \in {"gone", "stuck"}
  BY <1>6
<1>8. /\ cli' \in [Process -> Command] /\ Others(p) /\ Fits(p)' /\ ~Announced(p)'
  BY <1>2, <1>7, StartFits DEF dispatched
<1>9. Loaded'
  BY <1>1, <1>6 DEF Loaded
<1>10. \A s \in Service : Serves(s)' => s # c /\ Serves(s) /\ services'[s] = services[s]
  BY <1>6 DEF Serves
<1>11. crashes = 0 => Known'
  BY <1>1, <1>2, <1>3, <1>10, OnRecord DEF Known
<1>12. RecordSelected' /\ record' \in 0..MaxStarts
  BY <1>1, <1>6, SelectionAssumption DEF RecordSelected, Service, SelectionAssumption
<1>13. server' = server /\ server' \in Identity
       /\ UNCHANGED <<pending, locks, dispatched, counters>>
  BY <1>1, <1>2 DEF TypeOK, selected
<1>. QED
  BY <1>1, <1>6, <1>8, <1>9, <1>10, <1>11, <1>12, <1>13, ServiceStep

-----------------------------------------------------------------------------
(* The steps of the submission and of the run.                             *)

Untouched(q) ==
  /\ cli'[q] = cli[q]
  /\ Changing(cli[q]) => outstanding' = NoRun /\ work' = NoWork

\* A step that changes the run, and perhaps one command.
LEMMA RunStep ==
  ASSUME SelectionAssumption, Sound,
         UNCHANGED <<selected, record, services, locks, counters>>,
         cli' \in [Process -> Command], outstanding' \in Outstanding,
         work' \in Work, runs' \in 0..MaxRuns,
         \A q \in Process :
           \/ Untouched(q)
           \/ Fits(q)' /\ ~Announced(q)' /\ cli[q].pc # "record",
         outstanding' # NoRun => outstanding'.identity = server,
         crashes = 0 /\ outstanding' # NoRun =>
           outstanding # NoRun \/ \E q \in Process : Announced(q),
         crashes = 0 /\ work'.at = "open" => work'.identity = server
  PROVE  Sound'
<1>1. TypeOK'
  BY Here DEF Sound, TypeOK, selected, locks, counters
<1>2. ASSUME NEW q \in Process PROVE Fits(q)'
  <2>1. CASE Untouched(q)
    <3>1. Fits(q)
      BY DEF Sound
    <3>. QED
      BY <2>1, <3>1 DEF Untouched, Fits, Excluded, Quiet, Launched, Carded,
         Announced, Replacing, OfSelection, Alive, selected, locks
  <2>. QED
    BY <2>1
<1>3. Loaded'
  BY DEF Sound, Loaded
<1>4. crashes' = 0 => Known'
  <2>. SUFFICES ASSUME crashes = 0, NEW s \in Service, Serves(s), s # record
                PROVE  \E q \in Process : cli'[q].pc = "record" /\ cli'[q].child = s
    BY DEF Known, Serves, counters
  <2>1. PICK q \in Process : cli[q].pc = "record" /\ cli[q].child = s
    BY DEF Sound, Known
  <2>. QED
    BY <2>1 DEF Untouched
<1>5. crashes' = 0 => Pins'
  <2>. SUFFICES ASSUME crashes = 0 PROVE Pins'
    BY DEF counters
  <2>1. ASSUME NEW q \in Process, Announced(q)' PROVE Announced(q)
    BY <2>1 DEF Announced, Untouched
  <2>2. outstanding' # NoRun \/ (\E q \in Process : Announced(q)') =>
          \A s \in Service : Serves(s) => OfSelection(s)
    BY <2>1 DEF Sound, Pins
  <2>3. \A s \in Service : /\ Serves(s)' <=> Serves(s)
                           /\ OfSelection(s)' <=> OfSelection(s)
    BY DEF Serves, OfSelection, selected
  <2>4. work'.at = "open" => work'.identity = server'
    BY DEF selected
  <2>. QED
    BY <2>2, <2>3, <2>4 DEF Pins
<1>6. ~Denials => RecordSelected'
  BY DEF Sound, RecordSelected, OfSelection, selected
<1>7. outstanding' # NoRun => outstanding'.identity = server'
  BY DEF selected
<1>. QED
  BY <1>1, <1>2, <1>3, <1>4, <1>5, <1>6, <1>7 DEF Sound

\* The run arrives only while no command is changing the service.
LEMMA Arrived ==
  ASSUME SelectionAssumption, Sound, Arrives
  PROVE  /\ outstanding' \in Outstanding /\ outstanding'.identity = server
         /\ work' \in Work /\ runs' \in 0..MaxRuns /\ outstanding # NoRun
         /\ crashes = 0 /\ work'.at = "open" => work'.identity = server
         /\ \A q \in Process : ~Changing(cli[q])
<1>1. TypeOK /\ Loaded /\ outstanding # NoRun /\ outstanding \in Outstanding
  BY DEF Sound, Arrives, TypeOK
<1>2. outstanding.identity = server
  BY <1>1 DEF Sound
<1>3. outstanding \in [identity : Identity, sent : BOOLEAN]
  BY <1>1 DEF Outstanding
<1>4. outstanding' = [outstanding EXCEPT !.sent = TRUE] /\ runs' = runs
  BY DEF Arrives
<1>5. outstanding' \in Outstanding /\ outstanding'.identity = server
  BY <1>2, <1>3, <1>4 DEF Outstanding
<1>6. PICK s \in Service :
        /\ Listening(s)
        /\ work' = IF work = NoWork
                   THEN [at |-> "open", identity |-> services[s].identity]
                   ELSE work
  BY DEF Arrives
<1>7. services[s].identity \in Identity
  BY <1>1, <1>6 DEF TypeOK, Loaded, Listening
<1>8. work' \in Work
  BY <1>1, <1>6, <1>7 DEF Work, TypeOK
<1>9. crashes = 0 => services[s].identity = server
  BY <1>1, <1>6, <1>7 DEF Sound, Pins, Loaded, Listening, Serves, OfSelection
<1>10. crashes = 0 /\ work'.at = "open" => work'.identity = server
  BY <1>6, <1>9 DEF Sound, Pins
<1>11. \A q \in Process : ~Changing(cli[q])
  BY <1>1 DEF Sound, Fits, Quiet
<1>. QED
  BY <1>1, <1>4, <1>5, <1>8, <1>10, <1>11 DEF TypeOK

LEMMA SendSound ==
  ASSUME SelectionAssumption, Sound, NEW p \in Process, Send(p)
  PROVE  Sound'
<1>1. TypeOK /\ cli[p].pc = "send" /\ Ends(p)
      /\ UNCHANGED <<selected, record, services, locks, counters>>
  BY Here DEF Send, At
<1>2. /\ cli' \in [Process -> Command] /\ Others(p) /\ Fits(p)' /\ ~Announced(p)'
  BY <1>1, EndsForm
<1>3. CASE Arrives
  <2>1. \A q \in Process :
          \/ Untouched(q)
          \/ Fits(q)' /\ ~Announced(q)' /\ cli[q].pc # "record"
    BY <1>1, <1>2, <1>3, Arrived DEF Untouched, Others
  <2>. QED
    BY <1>1, <1>2, <1>3, <2>1, Arrived, RunStep
<1>4. CASE UNCHANGED dispatched
  <2>1. /\ serviceLock' \in Process \cup {NoProcess} /\ Mine(p)
        /\ submitLock' \in Process \cup {NoProcess} /\ pending' \in Pending
    BY <1>1 DEF TypeOK, locks, Mine, selected
  <2>. QED
    BY <1>1, <1>2, <1>4, <2>1, CommandStep DEF selected
<1>. QED
  BY <1>3, <1>4 DEF Send

\* The environment's steps on the run.
LEMMA WorkSound ==
  ASSUME SelectionAssumption, Sound,
         Resend \/ WorkEnds \/ WorkUnlocks \/ Reconcile
  PROVE  Sound'
<1>1. TypeOK /\ UNCHANGED <<selected, record, services, locks, counters, cli>>
  BY DEF Sound, Resend, WorkEnds, WorkUnlocks, Reconcile
<1>2. CASE Resend
  <2>1. Arrives
    BY <1>2 DEF Resend
  <2>2. \A q \in Process : Untouched(q)
    BY <1>1, <2>1, Arrived DEF Untouched
  <2>. QED
    BY <1>1, <2>1, <2>2, Arrived, RunStep DEF TypeOK
<1>3. CASE WorkEnds
  <2>1. /\ work.at = "open" /\ work' = [work EXCEPT !.at = "over"]
        /\ UNCHANGED <<outstanding, runs>>
    BY <1>3 DEF WorkEnds
  <2>2. work' \in Work /\ work'.at = "over" /\ work # NoWork
    BY <1>1, <2>1 DEF TypeOK, Work, NoWork
  <2>3. \A q \in Process : Untouched(q)
    BY <1>1, <2>1, <2>2 DEF Sound, Fits, Quiet, Untouched
  <2>. QED
    BY <1>1, <2>1, <2>2, <2>3, RunStep DEF TypeOK, Sound
<1>4. CASE WorkUnlocks
  <2>1. work' = NoWork /\ UNCHANGED <<outstanding, runs>>
    BY <1>4 DEF WorkUnlocks
  <2>2. work' \in Work /\ work'.at = "none"
    BY <2>1 DEF Work, NoWork
  <2>3. \A q \in Process : Untouched(q)
    BY <1>1, <2>1 DEF Sound, Fits, Quiet, Untouched
  <2>. QED
    BY <1>1, <2>1, <2>2, <2>3, RunStep DEF TypeOK, Sound
<1>5. CASE Reconcile
  <2>1. outstanding' = NoRun /\ UNCHANGED <<work, runs>> /\ work.at # "open"
    BY <1>5 DEF Reconcile
  <2>2. outstanding' \in Outstanding
    BY <2>1 DEF Outstanding
  <2>3. \A q \in Process : Untouched(q)
    BY <1>1, <2>1 DEF Sound, Fits, Quiet, Untouched
  <2>. QED
    BY <1>1, <2>1, <2>2, <2>3, RunStep DEF TypeOK
<1>. QED
  BY <1>2, <1>3, <1>4, <1>5

\* The second check of a submission.
LEMMA AnnounceSound ==
  ASSUME SelectionAssumption, Sound, NEW p \in Process, Announce(p)
  PROVE  Sound'
<1>1. Fits(p) /\ TypeOK /\ cli[p] \in Command
  BY Here
<1>2. /\ cli[p].pc = "announce" /\ work' = work
      /\ UNCHANGED <<selected, record, services, locks, counters>>
  BY DEF Announce, At
<1>3. PICK then \in {"idle", "send"} :
        cli' = [cli EXCEPT ![p].pc = "unsubmit", ![p].then = then]
  BY DEF Announce, Refused
<1>4. Moves(p, "unsubmit", cli[p].phase, then, cli[p].previous,
            cli[p].identity, cli[p].child)
  <2>1. then \in {"idle", "mark", "submit", "send"} /\ "unsubmit" \in Places
        /\ cli \in [Process -> Command]
    BY PlaceSets, Here
  <2>. QED
    BY <1>3, <2>1, ThenForm
<1>5. Shape(cli'[p])
  BY <1>1, <1>2, <1>4 DEF Moves, Fits, Shape, Starting, Switching
<1>6. Excluded(p)'
  BY <1>1, <1>2, <1>4, PlaceSets DEF Moves, Fits, Excluded, Inside, locks
<1>7. Quiet(p)' /\ Launched(p)' /\ Carded(p)' /\ Replacing(p)' /\ ~Announced(p)'
  BY <1>4 DEF Moves, Quiet, Changing, Launched, Carded, Replacing, Announced,
     Starting
<1>8. Fits(p)' /\ Others(p) /\ cli' \in [Process -> Command]
  BY <1>4, <1>5, <1>6, <1>7 DEF Moves, Fits, Others
<1>9. \A q \in Process \ {p} : ~Inside(cli[q]) /\ ~Changing(cli[q])
  BY <1>1, <1>2, PlaceSets DEF Sound, Fits, Excluded, Inside, Changing
<1>10. \A q \in Process :
         \/ Untouched(q)
         \/ Fits(q)' /\ ~Announced(q)' /\ cli[q].pc # "record"
  BY <1>2, <1>7, <1>8, <1>9 DEF Untouched, Others
<1>11. Announced(p) /\ cli[p].identity = server /\ cli[p].identity \in Identity
  BY <1>1, <1>2 DEF Fits, Shape, Carded, Announced
<1>12. CASE /\ runs < MaxRuns /\ runs' = runs + 1
            /\ outstanding' = [identity |-> cli[p].identity, sent |-> FALSE]
  <2>1. outstanding' \in Outstanding /\ outstanding'.identity = server
    BY <1>11, <1>12 DEF Outstanding
  <2>2. runs' \in 0..MaxRuns
    BY <1>1, <1>12 DEF TypeOK, SelectionAssumption
  <2>3. work' \in Work
    BY <1>1, <1>2 DEF TypeOK
  <2>4. crashes = 0 /\ work'.at = "open" => work'.identity = server
    BY <1>2 DEF Sound, Pins
  <2>. QED
    BY <1>2, <1>8, <1>10, <1>11, <2>1, <2>2, <2>3, <2>4, RunStep
<1>13. CASE UNCHANGED <<outstanding, runs>>
  <2>1. crashes = 0 /\ work'.at = "open" => work'.identity = server
    BY <1>2 DEF Sound, Pins
  <2>2. outstanding' # NoRun => outstanding'.identity = server
    BY <1>13 DEF Sound
  <2>3. outstanding' \in Outstanding /\ work' \in Work /\ runs' \in 0..MaxRuns
    BY <1>1, <1>2, <1>13 DEF TypeOK
  <2>4. outstanding' # NoRun => outstanding # NoRun
    BY <1>13
  <2>. QED
    BY <1>2, <1>8, <1>10, <2>1, <2>2, <2>3, <2>4, RunStep
<1>. QED
  BY <1>12, <1>13 DEF Announce

\* The first check: the service on record answers with the configuration.
LEMMA PreflightSound ==
  ASSUME SelectionAssumption, Sound, NEW p \in Process, Preflight(p)
  PROVE  Sound'
<1>1. Fits(p) /\ TypeOK /\ cli[p] \in Command /\ Loaded
  BY Here DEF Sound
<1>2. /\ cli[p].pc = "preflight"
      /\ UNCHANGED <<selected, record, services, locks, dispatched, counters>>
  BY DEF Preflight, At
<1>3. /\ serviceLock' \in Process \cup {NoProcess} /\ Mine(p)
      /\ submitLock' \in Process \cup {NoProcess} /\ pending' \in Pending
  BY <1>1, <1>2 DEF TypeOK, locks, Mine, selected
<1>4. CASE Refused(p)
  <2>1. /\ "idle" \in {"idle", "mark", "submit", "send"} /\ "unsubmit" \in Places
        /\ cli \in [Process -> Command]
    BY PlaceSets, Here
  <2>2. Moves(p, "unsubmit", cli[p].phase, "idle", cli[p].previous,
              cli[p].identity, cli[p].child)
    BY <1>4, <2>1, ThenForm DEF Refused
  <2>3. Shape(cli'[p])
    BY <1>1, <1>2, <2>2 DEF Moves, Fits, Shape, Starting, Switching
  <2>4. Excluded(p)'
    BY <1>1, <1>2, <2>2, PlaceSets DEF Moves, Fits, Excluded, Inside, locks
  <2>5. Quiet(p)' /\ Launched(p)' /\ Carded(p)' /\ Replacing(p)' /\ ~Announced(p)'
    BY <2>2 DEF Moves, Quiet, Changing, Launched, Carded, Replacing, Announced,
       Starting
  <2>. QED
    BY <1>2, <1>3, <2>2, <2>3, <2>4, <2>5, CommandStep
       DEF Moves, Others, Fits, selected
<1>5. ASSUME outstanding = NoRun, Running,
             NEW s \in Service, Listening(s), services[s].identity = server,
             cli' = [cli EXCEPT ![p].pc = "announce",
                                ![p].identity = services[s].identity]
      PROVE  Sound'
  <2>1. PICK now \in Identity : now = server
    BY <1>1 DEF TypeOK
  <2>2. cli' = [cli EXCEPT ![p].pc = "announce", ![p].identity = now]
    BY <1>5, <2>1
  <2>3. "announce" \in Places /\ cli \in [Process -> Command]
    BY PlaceSets, Here
  <2>4. Moves(p, "announce", cli[p].phase, cli[p].then, cli[p].previous, now,
              cli[p].child)
    BY <2>2, <2>3, CardForm
  <2>5. Shape(cli'[p])
    BY <1>1, <1>2, <2>4 DEF Moves, Fits, Shape, Starting, Switching
  <2>6. Excluded(p)'
    BY <1>1, <1>2, <2>4, PlaceSets DEF Moves, Fits, Excluded, Inside, locks
  <2>7. Quiet(p)' /\ Launched(p)' /\ Replacing(p)'
    BY <2>4 DEF Moves, Quiet, Changing, Launched, Replacing, Starting
  <2>8. Carded(p)'
    BY <1>2, <2>1, <2>4 DEF Moves, Carded, selected
  <2>9. ASSUME NEW q \in Process PROVE Fits(q)'
    <3>1. CASE q # p
      <4>1. Fits(q) /\ cli'[q] = cli[q]
        BY <2>4, <3>1 DEF Sound, Moves
      <4>. QED
        BY <1>2, <4>1 DEF Fits, Excluded, Quiet, Launched, Carded, Announced,
           Replacing, OfSelection, Alive, selected, locks, dispatched
    <3>. QED
      BY <2>5, <2>6, <2>7, <2>8, <3>1 DEF Fits
  <2>10. TypeOK'
    BY <1>1, <1>2, <2>4 DEF Moves, TypeOK, selected, locks, dispatched, counters
  <2>11. \A q \in Process : cli[q].pc # "record"
    BY <1>5 DEF Running, Sound, Fits, Launched
  <2>12. crashes = 0 => \A t \in Service : Serves(t) => t = record
    BY <2>11 DEF Sound, Known
  <2>13. crashes = 0 => Known'
    BY <1>2, <2>12 DEF Known, Serves
  <2>14. crashes = 0 => \A t \in Service : Serves(t) => OfSelection(t)
    BY <1>5, <2>12 DEF Serves, Listening, OfSelection
  <2>15. crashes = 0 => Pins'
    BY <1>2, <2>14 DEF Sound, Pins, Serves, OfSelection, selected, dispatched
  <2>16. Loaded' /\ (~Denials => RecordSelected')
    BY <1>1, <1>2 DEF Loaded, Sound, RecordSelected, OfSelection, selected
  <2>17. outstanding' # NoRun => outstanding'.identity = server'
    BY <1>2, <1>5 DEF dispatched
  <2>. QED
    BY <1>2, <2>9, <2>10, <2>13, <2>15, <2>16, <2>17 DEF Sound, counters
<1>. QED
  BY <1>4, <1>5 DEF Preflight

-----------------------------------------------------------------------------
(* The steps of the services, of a kill and of the human.                  *)

LEMMA ServicesSound ==
  ASSUME SelectionAssumption, Sound, NEW s \in Service,
         ServiceLoads(s) \/ ServiceReady(s) \/ ServiceExits(s)
  PROVE  Sound'
<1>1. TypeOK /\ Loaded /\ server \in Identity
      /\ UNCHANGED <<selected, record, locks, dispatched, cli, counters>>
  BY DEF Sound, TypeOK, ServiceLoads, ServiceReady, ServiceExits
<1>2. ServicesType
  BY <1>1 DEF TypeOK, ServicesType
<1>3. /\ ServicesType' /\ \A t \in Service \ {s} : services'[t] = services[t]
      /\ \/ /\ services[s].state = "starting" /\ services'[s].state = "starting"
            /\ services'[s].identity = server
         \/ /\ services[s].state = "starting" /\ services'[s].state = "ready"
            /\ services'[s].identity = services[s].identity
            /\ services[s].identity # NoSelection
         \/ services'[s].state = "gone" /\ services'[s].identity = NoSelection
  <2>1. CASE ServiceLoads(s)
    BY <1>1, <1>2, <2>1 DEF ServiceLoads, ServicesType
  <2>2. CASE ServiceReady(s)
    BY <1>1, <1>2, <2>2 DEF ServiceReady, ServicesType, ServiceStates
  <2>3. CASE ServiceExits(s)
    BY <1>2, <2>3, StoppedForm DEF ServiceExits
  <2>. QED
    BY <2>1, <2>2, <2>3
<1>4. /\ \A t \in Service : Serves(t)' => Serves(t)
      /\ \A t \in Service : OfSelection(t) => OfSelection(t)'
  BY <1>1, <1>3 DEF Serves, OfSelection, selected
<1>5. Loaded'
  BY <1>1, <1>3 DEF Loaded
<1>6. ASSUME NEW q \in Process PROVE Fits(q)'
  <2>1. Fits(q)
    BY DEF Sound
  <2>2. ~Denials => Replacing(q)'
    <3>. SUFFICES ASSUME ~Denials PROVE Replacing(q)'
      OBVIOUS
    <3>1. Replacing(q) /\ Launched(q)
      BY <2>1 DEF Fits
    <3>2. cli[q].pc = "record" => OfSelection(cli[q].child)'
      <4>. SUFFICES ASSUME cli[q].pc = "record" PROVE OfSelection(cli[q].child)'
        OBVIOUS
      <4>1. PICK c \in Service : c = cli[q].child /\ c = cli'[q].child
        BY <1>1, <3>1 DEF Launched
      <4>2. OfSelection(c)
        BY <3>1, <4>1 DEF Replacing, OfSelection
      <4>3. OfSelection(c)'
        BY <1>4, <4>2
      <4>. QED
        BY <4>1, <4>3 DEF OfSelection
    <3>3. record = 0 \/ record \in Service
      BY <1>1 DEF TypeOK, Service, SelectionAssumption
    <3>4. cli[q].pc = "publish" => record = 0 \/ ~Alive(record)'
      BY <1>1, <1>3, <3>1, <3>3 DEF Replacing, Alive
    <3>5. cli[q].pc = "restore" =>
            record = 0 \/ services'[record].state \in {"gone", "stuck"}
      BY <1>1, <1>3, <3>1, <3>3 DEF Replacing
    <3>. QED
      BY <1>1, <3>1, <3>2, <3>4, <3>5 DEF Replacing, OfSelection, Alive
  <2>. QED
    BY <1>1, <2>1, <2>2 DEF Fits, Excluded, Quiet, Launched, Carded, Announced,
       selected, locks, dispatched
<1>7. TypeOK'
  BY <1>1, <1>3 DEF TypeOK, ServicesType, selected, locks, dispatched, counters
<1>8. crashes = 0 => Known'
  BY <1>1, <1>4 DEF Sound, Known
<1>9. crashes = 0 => Pins'
  <2>. SUFFICES ASSUME crashes = 0 PROVE Pins'
    OBVIOUS
  <2>1. Pins
    BY DEF Sound
  <2>2. /\ \A q \in Process : Announced(q)' <=> Announced(q)
        /\ server' = server /\ outstanding' = outstanding /\ work' = work
    BY <1>1 DEF Announced, selected, dispatched
  <2>3. outstanding # NoRun \/ (\E q \in Process : Announced(q)) =>
          \A t \in Service : Serves(t)' => OfSelection(t)'
    BY <1>4, <2>1 DEF Pins
  <2>. QED
    BY <2>1, <2>2, <2>3 DEF Pins
<1>10. ~Denials => RecordSelected'
  <2>. SUFFICES ASSUME ~Denials, record # 0
                PROVE  OfSelection(record)' \/ services'[record].state = "stuck"
    BY <1>1 DEF RecordSelected
  <2>1. record \in Service
    BY <1>1 DEF TypeOK, Service, SelectionAssumption
  <2>2. OfSelection(record) \/ services[record].state = "stuck"
    BY DEF Sound, RecordSelected
  <2>3. PICK r \in Service : r = record /\ r = record'
    BY <1>1, <2>1
  <2>4. OfSelection(r)' \/ services'[r].state = "stuck"
    <3>1. OfSelection(r) \/ services[r].state = "stuck"
      BY <2>2, <2>3 DEF OfSelection
    <3>2. OfSelection(r) => OfSelection(r)'
      BY <1>4
    <3>3. services[r].state = "stuck" =>
            services'[r].state = "stuck" \/ services'[r].identity = NoSelection
      BY <1>3
    <3>. QED
      BY <3>1, <3>2, <3>3 DEF OfSelection
  <2>. QED
    BY <2>3, <2>4 DEF OfSelection
<1>11. outstanding' # NoRun => outstanding'.identity = server'
  BY <1>1 DEF Sound, selected, dispatched
<1>. QED
  BY <1>1, <1>5, <1>6, <1>7, <1>8, <1>9, <1>10, <1>11 DEF Sound, counters

LEMMA KillSound ==
  ASSUME SelectionAssumption, Sound, NEW p \in Process, Kill(p)
  PROVE  Sound'
<1>1. TypeOK /\ Ends(p) /\ crashes < MaxCrashes /\ crashes' = crashes + 1
      /\ UNCHANGED <<selected, record, services, dispatched, given>>
  BY DEF Sound, Kill
<1>2. /\ cli' \in [Process -> Command] /\ Others(p) /\ Fits(p)' /\ ~Announced(p)'
      /\ cli'[p] = Done
  BY <1>1, EndsForm
<1>3. crashes' \in 0..MaxCrashes /\ crashes' # 0
  BY <1>1 DEF TypeOK, SelectionAssumption
<1>4. /\ serviceLock' = serviceLock \/ (HoldsService(p) /\ serviceLock' = NoProcess)
      /\ submitLock' = submitLock \/ (HoldsSubmit(p) /\ submitLock' = NoProcess)
  BY DEF Kill
<1>5. Mine(p)
  BY <1>4 DEF Mine, HoldsService, HoldsSubmit
<1>6. ASSUME NEW q \in Process PROVE Fits(q)'
  <2>1. CASE q # p
    <3>1. Fits(q) /\ cli'[q] = cli[q]
      BY <1>2, <2>1 DEF Sound, Others
    <3>2. Excluded(q)'
      BY <1>5, <2>1, <3>1 DEF Fits, Excluded, Mine, SelectionAssumption
    <3>. QED
      BY <1>1, <3>1, <3>2 DEF Fits, Quiet, Launched, Carded, Announced, Replacing,
         OfSelection, Alive, selected, dispatched
  <2>. QED
    BY <1>2, <2>1
<1>7. TypeOK'
  BY <1>1, <1>2, <1>3, <1>4 DEF TypeOK, selected, dispatched
<1>8. Loaded' /\ (~Denials => RecordSelected')
  BY <1>1 DEF Loaded, Sound, RecordSelected, OfSelection, selected
<1>9. outstanding' # NoRun => outstanding'.identity = server'
  BY <1>1 DEF Sound, selected, dispatched
<1>. QED
  BY <1>3, <1>6, <1>7, <1>8, <1>9 DEF Sound

\* The human removes a lock nobody is inside of.
LEMMA RemoveLockSound ==
  ASSUME SelectionAssumption, Sound, RemoveServiceLock \/ RemoveSubmitLock
  PROVE  Sound'
<1>1. TypeOK /\ UNCHANGED <<selected, record, services, dispatched, cli, counters>>
  BY DEF Sound, RemoveServiceLock, RemoveSubmitLock
<1>2. /\ serviceLock' = serviceLock \/ (ServiceLockLeft /\ serviceLock' = NoProcess)
      /\ submitLock' = submitLock \/ (SubmitLockLeft /\ submitLock' = NoProcess)
  BY DEF RemoveServiceLock, RemoveSubmitLock
<1>3. ASSUME NEW q \in Process PROVE Fits(q)'
  <2>1. Fits(q)
    BY DEF Sound
  <2>2. Excluded(q)'
    BY <1>1, <1>2, <2>1 DEF Fits, Excluded, ServiceLockLeft, SubmitLockLeft,
       HoldsService, HoldsSubmit, Inside
  <2>. QED
    BY <1>1, <2>1, <2>2 DEF Fits, Quiet, Launched, Carded, Announced, Replacing,
       OfSelection, Alive, selected, dispatched
<1>4. TypeOK'
  BY <1>1, <1>2 DEF TypeOK, selected, dispatched, counters
<1>5. Loaded' /\ (~Denials => RecordSelected')
  BY <1>1 DEF Loaded, Sound, RecordSelected, OfSelection, selected
<1>6. crashes = 0 => Known' /\ Pins'
  BY <1>1 DEF Sound, Known, Pins, Serves, OfSelection, Announced, selected,
     dispatched
<1>7. outstanding' # NoRun => outstanding'.identity = server'
  BY <1>1 DEF Sound, selected, dispatched
<1>. QED
  BY <1>1, <1>3, <1>4, <1>5, <1>6, <1>7 DEF Sound, counters

-----------------------------------------------------------------------------
(* The invariant and the theorems.                                         *)

LEMMA SoundInit == Init => Sound
<1>. SUFFICES ASSUME Init PROVE Sound
  OBVIOUS
<1>. USE SelectionAssumption
<1>1. server \in Identity
  BY DEF Init, Identity
<1>2. Gone \in [state : ServiceStates, identity : Identity \cup {NoSelection}]
      /\ Gone.state = "gone" /\ Gone.identity = NoSelection
  BY DEF Gone, ServiceStates
<1>3. cli \in [Process -> Command] /\ \A p \in Process : cli[p] = Done
  BY DoneCommand DEF Init
<1>4. TypeOK
  BY <1>1, <1>2, <1>3 DEF Init, TypeOK, Pending, Outstanding, Work,
     SelectionAssumption
<1>5. \A s \in Service : services[s].state = "gone"
                         /\ services[s].identity = NoSelection
  BY <1>2 DEF Init
<1>6. ASSUME NEW p \in Process PROVE Fits(p) /\ ~Announced(p)
  <2>1. Shape(Done)
    BY DoneFields DEF Shape, Starting, Switching
  <2>. QED
    BY <1>3, <2>1, DoneFields, OuterFits DEF OuterFit, Outer
<1>7. Loaded /\ Known /\ Pins /\ RecordSelected
  BY <1>5, <1>6 DEF Init, Loaded, Known, Pins, Serves, RecordSelected, NoWork
<1>. QED
  BY <1>4, <1>6, <1>7 DEF Sound, Init

LEMMA StepSound ==
  ASSUME SelectionAssumption, Sound, NEW p \in Process, Step(p)
  PROVE  Sound'
  BY GivesBack, UnsubmitSound, TakeServiceLockSound, TakeSubmitLockSound,
     RequestSound, MarkFailedSound, CheckSwitchSound, CheckStopSound,
     StopServiceSound, SaveSound, InspectSound, RecordProcessSound,
     AwaitServiceSound, GiveUpSound, SendSound, AnnounceSound, PreflightSound
     DEF Step

LEMMA SoundStep == Sound /\ [Next]_vars => Sound'
<1>. SUFFICES ASSUME Sound, [Next]_vars PROVE Sound'
  OBVIOUS
<1>. USE SelectionAssumption
<1>1. CASE Environment
  BY <1>1, ServicesSound, WorkSound, RemoveLockSound DEF Environment
<1>2. ASSUME NEW p \in Process, Begin(p) \/ Step(p) \/ Kill(p) PROVE Sound'
  BY <1>2, BeginSound, StepSound, KillSound
<1>3. CASE UNCHANGED vars
  <2>1. UNCHANGED <<server, pending, record, services, serviceLock, submitLock,
                    outstanding, work, runs, cli, given, crashes>>
    BY <1>3 DEF vars, selected, locks, dispatched, counters
  <2>2. \A p \in Process : Fits(p)'
    BY <2>1 DEF Sound, Fits, Excluded, Quiet, Launched, Carded, Announced,
       Replacing, OfSelection, Alive
  <2>3. TypeOK' /\ Loaded' /\ (~Denials => RecordSelected')
    BY <2>1 DEF Sound, TypeOK, Loaded, RecordSelected, OfSelection
  <2>4. crashes = 0 => Known' /\ Pins'
    BY <2>1 DEF Sound, Known, Pins, Serves, OfSelection, Announced
  <2>. QED
    BY <2>1, <2>2, <2>3, <2>4 DEF Sound
<1>. QED
  BY <1>1, <1>2, <1>3 DEF Next

LEMMA AlwaysSound == Spec => []Sound
  BY SoundInit, SoundStep, PTL DEF Spec

\* The values stay in their types: what is queued, recorded, saved and carried
\* from place to place (service.py, selection.py).
THEOREM TypeCorrect == Spec => []TypeOK
<1>1. Sound => TypeOK
  BY DEF Sound
<1>. QED
  BY <1>1, AlwaysSound, PTL

\* `server stop' and a switch stop a service only while nothing is outstanding
\* and the server has nothing unresolved: submit.lock keeps every submission out
\* from the check to the stop, and no run arrives that was not announced
\* (stop_locked, switch_locked, unresolved).  It says nothing of a start that
\* gives up on its own child (service.py:499).
THEOREM StopIdleHolds == Spec => []StopIdle
<1>1. Sound => StopIdle
  BY DEF Sound, Fits, Quiet, Changing, StopIdle, At
<1>. QED
  BY <1>1, AlwaysSound, PTL

\* A run keeps the Executor it was submitted to, whatever commands and services
\* come and go; no killed command can change what outstanding.json is compared
\* with (verify_managed_card, switch_locked).
THEOREM RunPinnedHolds == Spec => []RunPinned
<1>1. Sound => RunPinned
  BY DEF Sound, Pins, RunPinned
<1>. QED
  BY <1>1, AlwaysSound, PTL

\* Where no sandbox denies the probes of a command, the recorded service is of
\* the selection in server.json, or has resisted its stop, even after kills
\* (switch_locked, start_locked).
THEOREM RunningIsSelectedHolds ==
  ASSUME ~Denials
  PROVE  Spec => []RunningIsSelected
<1>1. Sound => RunningIsSelected
  BY DEF Sound, RecordSelected, OfSelection, RunningIsSelected, Running
<1>. QED
  BY <1>1, AlwaysSound, PTL
=============================================================================
