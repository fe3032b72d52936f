---------------------------- MODULE OwnedProcess ----------------------------
(***************************************************************************)
(* A worker as a POSIX process group (processes.py): a leader with its pid *)
(* and recorded start identity, and what the leader forks.  stop_owned     *)
(* probes, signals, waits and escalates in one thread while wait_owned     *)
(* polls in another; the worker forks and exits, its parent reaps it, and  *)
(* the system may then give its pid to a stranger.  Every probe is a step  *)
(* of its own.                                                             *)
(***************************************************************************)
CONSTANT Descendant   \* processes the leader's group may hold beside it

VARIABLES
  leader,      \* the process that was started: running, zombie, gone
  members,     \* its descendants that run
  doomed,      \* those of the group that have got a SIGKILL
  stranger,    \* who has the leader's pid now, leading a session or not
  origin,      \* how the group is known, see Origin
  call,        \* what each caller is doing
  met,         \* has the stranger had the pid since before the stop?
  harmed       \* has the stop sent the stranger a signal?

vars == <<leader, members, doomed, stranger, origin, call, met, harmed>>
group == <<leader, members, doomed>>
world == <<leader, members, doomed, stranger, origin>>
ghosts == <<met, harmed>>

\* child: by a Popen, so that its parent is this process, or from a record.
\* sandboxed: ps, /proc and kill may be refused.  stamped: the identity could
\* be read at the start, and is not the placeholder "pid:unknown".
Origin == [child : BOOLEAN, sandboxed : BOOLEAN, stamped : BOOLEAN]

Caller == {"stop", "wait"}

\* Places of stop_owned and wait_owned, and of is_owned_alive, which both call.
Stopping == {"exists", "identity", "term", "grace", "kill", "killed"}
Probing == {"alive", "match", "again", "group"}
Places == Stopping \cup Probing \cup {"idle", "poll", "reap", "done"}

\* What is_owned_alive is asked for, and what stop or wait has returned.
Checks == {"none", "first", "grace", "killed", "last", "wait"}
Answers == {"none", "yes", "no"}

Begin(place, check) == [pc |-> place, check |-> check, answer |-> "none"]

At(c, place) == call[c].pc = place
Goto(c, place) == call' = [call EXCEPT ![c].pc = place]
Check(c, check) ==
  call' = [call EXCEPT ![c].pc = "alive", ![c].check = check]
Returns(c, answer) ==
  call' = [call EXCEPT ![c] = [pc |-> "done", check |-> "none",
                               answer |-> answer]]

Init ==
  /\ origin \in Origin
  /\ leader \in IF origin.child THEN {"running"}
                ELSE {"running", "zombie", "gone"}
  /\ members \in IF leader = "running" THEN {{}} ELSE SUBSET Descendant
  /\ doomed = {}
  /\ stranger = "none"
  /\ call = [c \in Caller |-> Begin("idle", "none")]
  /\ met = FALSE /\ harmed = FALSE

-----------------------------------------------------------------------------
(* The system.                                                             *)

Empty == leader # "running" /\ members = {}

\* A descendant forked by one that has not been killed.
Fork ==
  /\ \/ leader = "running" /\ "leader" \notin doomed
     \/ members \ doomed # {}
  /\ \E d \in Descendant \ members : members' = members \cup {d}
  /\ UNCHANGED <<leader, doomed, stranger, origin, call, ghosts>>

LeaderExits ==
  /\ leader = "running"
  /\ leader' = "zombie"
  /\ doomed' = doomed \ {"leader"}
  /\ UNCHANGED <<members, stranger, origin, call, ghosts>>

MemberExits(d) ==
  /\ d \in members
  /\ members' = members \ {d}
  /\ doomed' = doomed \ {d}
  /\ UNCHANGED <<leader, stranger, origin, call, ghosts>>

\* SIGKILL takes its time.
Dies ==
  \/ "leader" \in doomed /\ LeaderExits
  \/ \E d \in doomed : MemberExits(d)

\* A recorded worker is a child of init.
InitReaps ==
  /\ leader = "zombie" /\ ~origin.child
  /\ leader' = "gone"
  /\ UNCHANGED <<members, doomed, stranger, origin, call, ghosts>>

\* A pid is free once its process is reaped and its group is empty.
Recycle ==
  /\ leader = "gone" /\ members = {} /\ stranger = "none"
  /\ stranger' \in {"session", "member"}
  /\ met' = (call["stop"].pc \in {"idle", "done"}) /\ harmed' = FALSE
  /\ UNCHANGED <<group, origin, call>>

StrangerEnds ==
  /\ stranger # "none"
  /\ stranger' = "none"
  /\ met' = FALSE /\ harmed' = FALSE
  /\ UNCHANGED <<group, origin, call>>

-----------------------------------------------------------------------------
(* Probes: what each may answer.                                           *)

\* A refused kill counts as a process; a refused ps does not show a zombie.
pid_exists ==
  {leader = "running" \/ stranger # "none"}
    \cup IF origin.sandboxed /\ leader = "zombie" THEN {TRUE} ELSE {}

\* An identity that was never read matches nothing.
process_liveness ==
  {IF leader = "running" /\ origin.stamped THEN "alive" ELSE "dead"}
    \cup (IF origin.sandboxed /\ (leader # "gone" \/ stranger # "none")
          THEN {"unknown"} ELSE {})
    \cup (IF origin.sandboxed /\ leader = "zombie" /\ origin.stamped
          THEN {"alive"} ELSE {})

identity_matches == {liveness = "alive" : liveness \in process_liveness}

\* The members of the group that ps lists; nothing when ps is refused.
group_pids ==
  {leader = "running" \/ members # {} \/ stranger = "session"}
    \cup IF origin.sandboxed THEN {FALSE} ELSE {}

-----------------------------------------------------------------------------
(* is_owned_alive, probe by probe.                                         *)

IsAlive(c) ==
  \/ call[c].check = "first" /\ Goto(c, "term")
  \/ call[c].check \in {"grace", "killed"} /\ Goto(c, call[c].check)
  \/ call[c].check = "last" /\ Returns(c, "no")
  \/ call[c].check = "wait" /\ Goto(c, "poll")

NotAlive(c) ==
  IF call[c].check = "last" THEN Returns(c, "yes") ELSE Goto(c, "reap")

\* A pid that exists without matching counts as alive: pid_exists ...
ProbeExists(c) ==
  /\ At(c, "alive")
  /\ \E exists \in pid_exists : Goto(c, IF exists THEN "match" ELSE "again")
  /\ UNCHANGED <<world, ghosts>>

ProbeMatch(c) ==
  /\ At(c, "match")
  /\ \E matches \in identity_matches :
       IF matches THEN Goto(c, "again") ELSE IsAlive(c)
  /\ UNCHANGED <<world, ghosts>>

\* ... then the identity once more, then the group.
ProbeAgain(c) ==
  /\ At(c, "again")
  /\ \E matches \in identity_matches :
       IF matches THEN IsAlive(c) ELSE Goto(c, "group")
  /\ UNCHANGED <<world, ghosts>>

\* Deviant: descendants are forgotten.
ProbeLeader(c) ==
  /\ At(c, "group")
  /\ NotAlive(c)
  /\ UNCHANGED <<world, ghosts>>

ProbeGroup(c) ==
  /\ At(c, "group")
  /\ \E some \in group_pids : IF some THEN IsAlive(c) ELSE NotAlive(c)
  /\ UNCHANGED <<world, ghosts>>

\* _reap: only the parent can.
Reap(c) ==
  /\ At(c, "reap")
  /\ leader' = IF leader = "zombie" /\ origin.child THEN "gone" ELSE leader
  /\ Returns(c, "yes")
  /\ UNCHANGED <<members, doomed, stranger, origin, ghosts>>

-----------------------------------------------------------------------------
(* stop_owned                                                              *)

StopOwned ==
  /\ call["stop"].pc \in {"idle", "done"} /\ call["stop"].answer # "yes"
  /\ call' = [call EXCEPT !["stop"] = Begin("exists", "none")]
  /\ met' = (stranger # "none") /\ harmed' = FALSE
  /\ UNCHANGED world

\* Deviant: whose pid it is is not asked.
StopUnasked ==
  /\ At("stop", "exists")
  /\ Check("stop", "first")
  /\ UNCHANGED <<world, ghosts>>

\* A live pid whose identity does not match is left alone.
StopExists ==
  /\ At("stop", "exists")
  /\ \E exists \in pid_exists :
       IF exists THEN Goto("stop", "identity") ELSE Check("stop", "first")
  /\ UNCHANGED <<world, ghosts>>

StopIdentity ==
  /\ At("stop", "identity")
  /\ \E matches \in identity_matches :
       IF matches THEN Check("stop", "first") ELSE Returns("stop", "no")
  /\ UNCHANGED <<world, ghosts>>

\* Deviant: the leader's pid is signaled, whether it still runs or not.
SignalsPid(kill, place) ==
  \/ /\ doomed' = IF kill THEN members \cup {"leader"} ELSE doomed
     /\ harmed' = (harmed \/ stranger # "none")
     /\ Goto("stop", place)
  \/ /\ origin.sandboxed
     /\ Check("stop", "last")
     /\ UNCHANGED <<doomed, harmed>>

\* killpg reaches whoever is in a group of that number; without one it has no
\* effect, and when it is refused the last look decides.
Signals(kill, place) ==
  \/ /\ doomed' = IF kill THEN members \cup (IF leader = "running"
                                             THEN {"leader"} ELSE {})
                  ELSE doomed
     /\ harmed' = (harmed \/ stranger = "session")
     /\ Goto("stop", place)
  \/ /\ origin.sandboxed
     /\ Check("stop", "last")
     /\ UNCHANGED <<doomed, harmed>>

Terminate ==
  /\ At("stop", "term")
  /\ Signals(FALSE, "grace")
  /\ UNCHANGED <<leader, members, stranger, origin, met>>

\* The polls of the grace period and after SIGKILL ...
Poll ==
  /\ call["stop"].pc \in {"grace", "killed"}
  /\ Check("stop", call["stop"].pc)
  /\ UNCHANGED <<world, ghosts>>

\* ... until the time is over.
GraceOver ==
  /\ At("stop", "grace")
  /\ Goto("stop", "kill")
  /\ UNCHANGED <<world, ghosts>>

\* Deviant: SIGTERM again.
TerminateAgain ==
  /\ At("stop", "kill")
  /\ Signals(FALSE, "killed")
  /\ UNCHANGED <<leader, members, stranger, origin, met>>

Kill ==
  /\ At("stop", "kill")
  /\ Signals(TRUE, "killed")
  /\ UNCHANGED <<leader, members, stranger, origin, met>>

\* _reap, and the last look.
KillOver ==
  /\ At("stop", "killed")
  /\ leader' = IF leader = "zombie" /\ origin.child THEN "gone" ELSE leader
  /\ Check("stop", "last")
  /\ UNCHANGED <<members, doomed, stranger, origin, ghosts>>

-----------------------------------------------------------------------------
(* wait_owned, of the server that has launched the worker.                 *)

WaitOwned ==
  /\ origin.child /\ At("wait", "idle")
  /\ call' = [call EXCEPT !["wait"] = Begin("poll", "wait")]
  /\ UNCHANGED <<world, ghosts>>

\* Popen.poll reaps an ended leader, whose pid may then be used again.
PollChild ==
  /\ At("wait", "poll")
  /\ leader' = IF leader = "zombie" THEN "gone" ELSE leader
  /\ Goto("wait", "alive")
  /\ UNCHANGED <<members, doomed, stranger, origin, ghosts>>

\* execution_timeout_s
WaitOver ==
  /\ At("wait", "poll")
  /\ Returns("wait", "no")
  /\ UNCHANGED <<world, ghosts>>

-----------------------------------------------------------------------------

Probe(c) ==
  ProbeExists(c) \/ ProbeMatch(c) \/ ProbeAgain(c) \/ ProbeGroup(c) \/ Reap(c)

StopStep ==
  Probe("stop") \/ StopExists \/ StopIdentity \/ Terminate \/ Poll \/ Kill

WaitStep == Probe("wait") \/ PollChild

System ==
  \/ Fork \/ LeaderExits \/ InitReaps \/ Recycle \/ StrangerEnds
  \/ \E d \in Descendant : MemberExits(d)

Next ==
  \/ System
  \/ StopOwned \/ StopStep \/ GraceOver \/ KillOver
  \/ WaitOwned \/ WaitStep \/ WaitOver

Spec == Init /\ [][Next]_vars

\* Threads go on, deadlines pass, and what got a SIGKILL ends.
Fairness ==
  /\ WF_vars(StopStep) /\ SF_vars(GraceOver) /\ SF_vars(KillOver)
  /\ WF_vars(Dies)

FairSpec == Spec /\ Fairness

-----------------------------------------------------------------------------

TypeOK ==
  /\ leader \in {"running", "zombie", "gone"}
  /\ members \subseteq Descendant
  /\ doomed \subseteq members \cup (IF leader = "running" THEN {"leader"} ELSE {})
  /\ stranger \in {"none", "session", "member"} /\ origin \in Origin
  /\ call \in [Caller -> [pc : Places, check : Checks, answer : Answers]]
  /\ met \in BOOLEAN /\ harmed \in BOOLEAN

\* Where probes are permitted, a stop that returns True and a wait that returns
\* an exit code leave no process of the group, whatever it forks meanwhile and
\* however stop and wait interleave (stop_owned, wait_owned).
Emptied ==
  ~origin.sandboxed =>
    \A c \in Caller : call[c].answer = "yes" => Empty

\* A process that has had the pid since before the stop gets no signal, with
\* or without refused probes (stop_owned, process_start_identity).
StrangerSpared == ~(met /\ harmed)

\* A stop that has begun to signal ends the whole group, also one that ignores
\* SIGTERM and keeps forking, unless signals are refused.
StopEmpties ==
  At("stop", "term") /\ ~origin.sandboxed ~> Empty
=============================================================================
