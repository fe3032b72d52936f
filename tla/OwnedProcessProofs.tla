------------------------- MODULE OwnedProcessProofs -------------------------
(***************************************************************************)
(* Theorems about OwnedProcess, for every set of descendants: every state  *)
(* is well typed, no process of the group is left behind an answer of stop *)
(* or wait where probes are permitted, and nobody else's process is        *)
(* signaled, whatever the probes answer.                                   *)
(***************************************************************************)
EXTENDS OwnedProcess, TLAPS

-----------------------------------------------------------------------------
(* Type correctness, with one part for the group and one for the callers.  *)

GroupType ==
  /\ leader \in {"running", "zombie", "gone"}
  /\ members \subseteq Descendant
  /\ doomed \subseteq members \cup (IF leader = "running" THEN {"leader"} ELSE {})
  /\ stranger \in {"none", "session", "member"} /\ origin \in Origin
  /\ met \in BOOLEAN /\ harmed \in BOOLEAN

CallType == call \in [Caller -> [pc : Places, check : Checks, answer : Answers]]

LEMMA TypeParts ==
  (TypeOK <=> GroupType /\ CallType) /\ (TypeOK' <=> GroupType' /\ CallType')
BY DEF TypeOK, GroupType, CallType

\* What a caller may do next keeps the callers well typed.
LEMMA GotoTyped ==
  ASSUME CallType, NEW c \in Caller, NEW place \in Places, Goto(c, place)
  PROVE  CallType'
BY DEF CallType, Goto

LEMMA CheckTyped ==
  ASSUME CallType, NEW c \in Caller, NEW check \in Checks, Check(c, check)
  PROVE  CallType'
BY DEF CallType, Check, Places, Probing

LEMMA ReturnsTyped ==
  ASSUME CallType, NEW c \in Caller, NEW answer \in Answers, Returns(c, answer)
  PROVE  CallType'
BY DEF CallType, Returns, Places, Checks

LEMMA AliveTyped ==
  ASSUME CallType, NEW c \in Caller, IsAlive(c)
  PROVE  CallType'
<1>1. {"term", "grace", "killed", "poll"} \subseteq Places /\ "no" \in Answers
  BY DEF Places, Stopping, Answers
<1>. QED
  BY <1>1, GotoTyped, ReturnsTyped DEF IsAlive

LEMMA NotAliveTyped ==
  ASSUME CallType, NEW c \in Caller, NotAlive(c)
  PROVE  CallType'
<1>1. "reap" \in Places /\ "yes" \in Answers
  BY DEF Places, Answers
<1>. QED
  BY <1>1, GotoTyped, ReturnsTyped DEF NotAlive

\* A signal is sent, or it is refused and the last look follows.
LEMMA SignalsTyped ==
  ASSUME TypeOK, NEW kill \in BOOLEAN, NEW place \in Places,
         Signals(kill, place), UNCHANGED <<leader, members, stranger, origin, met>>
  PROVE  TypeOK'
<1>1. CallType'
  <2>1. "stop" \in Caller /\ "last" \in Checks
    BY DEF Caller, Checks
  <2>. QED
    BY <2>1, TypeParts, GotoTyped, CheckTyped DEF Signals
<1>2. GroupType'
  BY DEF Signals, TypeOK, GroupType
<1>. QED
  BY <1>1, <1>2, TypeParts

LEMMA InitTyped == Init => TypeOK
<1>. SUFFICES ASSUME Init
              PROVE  TypeOK
  OBVIOUS
<1>1. GroupType
  BY DEF Init, GroupType, Origin
<1>2. CallType
  BY DEF Init, CallType, Begin, Places, Checks, Answers
<1>. QED
  BY <1>1, <1>2, TypeParts

\* A probe moves only its caller; only _reap touches the group.
LEMMA ProbeTyped ==
  ASSUME TypeOK, NEW c \in Caller, Probe(c)
  PROVE  TypeOK'
<1>. USE TypeParts
<1>1. CallType'
  <2>0. Probing \subseteq Places
    BY DEF Places
  <2>1. CASE ProbeExists(c)
    BY <2>0, <2>1, GotoTyped DEF ProbeExists, Probing
  <2>2. CASE ProbeMatch(c)
    BY <2>0, <2>2, GotoTyped, AliveTyped DEF ProbeMatch, Probing
  <2>3. CASE ProbeAgain(c)
    BY <2>0, <2>3, GotoTyped, AliveTyped DEF ProbeAgain, Probing
  <2>4. CASE ProbeGroup(c)
    BY <2>4, AliveTyped, NotAliveTyped DEF ProbeGroup
  <2>5. CASE Reap(c)
    BY <2>5, ReturnsTyped DEF Reap, Answers
  <2>. QED
    BY <2>1, <2>2, <2>3, <2>4, <2>5 DEF Probe
<1>2. GroupType'
  BY DEF Probe, ProbeExists, ProbeMatch, ProbeAgain, ProbeGroup, Reap, world,
         ghosts, GroupType
<1>. QED
  BY <1>1, <1>2

LEMMA StepTyped == TypeOK /\ [Next]_vars => TypeOK'
<1>. SUFFICES ASSUME TypeOK, [Next]_vars
              PROVE  TypeOK'
  OBVIOUS
<1>0. /\ GroupType /\ CallType
      /\ GroupType' /\ CallType' => TypeOK'
      /\ "stop" \in Caller /\ "wait" \in Caller
  BY TypeParts DEF Caller
<1>1. CASE System
  <2>1. CallType'
    BY <1>0, <1>1 DEF System, Fork, LeaderExits, InitReaps, Recycle,
       StrangerEnds, MemberExits, CallType
  <2>2. GroupType'
    <3>1. CASE Fork
      BY <1>0, <3>1 DEF Fork, GroupType, ghosts
    <3>2. CASE LeaderExits
      BY <1>0, <3>2 DEF LeaderExits, GroupType, ghosts
    <3>3. CASE InitReaps
      BY <1>0, <3>3 DEF InitReaps, GroupType, ghosts
    <3>4. CASE Recycle
      <4>1. met' \in BOOLEAN
        <5>1. met' = (call["stop"].pc \in {"idle", "done"})
          BY <3>4 DEF Recycle
        <5>2. (call["stop"].pc \in {"idle", "done"}) \in BOOLEAN
          OBVIOUS
        <5>. QED
          BY <5>1, <5>2
      <4>2. harmed' \in BOOLEAN
        BY <3>4 DEF Recycle
      <4>. QED
        BY <1>0, <3>4, <4>1, <4>2 DEF Recycle, GroupType, group
    <3>5. CASE StrangerEnds
      BY <1>0, <3>5 DEF StrangerEnds, GroupType, group
    <3>6. ASSUME NEW d \in Descendant, MemberExits(d)
          PROVE  GroupType'
      BY <1>0, <3>6 DEF MemberExits, GroupType, ghosts
    <3>. QED
      BY <1>1, <3>1, <3>2, <3>3, <3>4, <3>5, <3>6 DEF System
  <2>. QED
    BY <1>0, <2>1, <2>2
<1>2. CASE StopOwned
  <2>1. CallType'
    BY <1>0, <1>2 DEF StopOwned, CallType, Begin, Places, Stopping, Checks,
       Answers
  <2>2. GroupType'
    BY <1>0, <1>2 DEF StopOwned, GroupType, world
  <2>. QED
    BY <1>0, <2>1, <2>2
<1>3. ASSUME NEW c \in Caller, Probe(c)
      PROVE  TypeOK'
  BY <1>3, ProbeTyped
<1>4. CASE StopExists \/ StopIdentity \/ Poll \/ GraceOver
  <2>1. CallType'
    <3>1. /\ {"identity", "kill"} \subseteq Places
          /\ {"first", "grace", "killed"} \subseteq Checks /\ "no" \in Answers
      BY DEF Places, Stopping, Checks, Answers
    <3>2. CASE StopExists
      BY <1>0, <3>1, <3>2, GotoTyped, CheckTyped DEF StopExists
    <3>3. CASE StopIdentity
      BY <1>0, <3>1, <3>3, ReturnsTyped, CheckTyped DEF StopIdentity
    <3>4. CASE Poll
      BY <1>0, <3>1, <3>4, CheckTyped DEF Poll
    <3>5. CASE GraceOver
      BY <1>0, <3>1, <3>5, GotoTyped DEF GraceOver
    <3>. QED
      BY <1>4, <3>2, <3>3, <3>4, <3>5
  <2>2. GroupType'
    BY <1>0, <1>4 DEF StopExists, StopIdentity, Poll, GraceOver, GroupType,
       world, ghosts
  <2>. QED
    BY <1>0, <2>1, <2>2
<1>5. CASE Terminate \/ Kill
  <2>1. {"grace", "killed"} \subseteq Places
    BY DEF Places, Stopping
  <2>. QED
    BY <1>5, <2>1, SignalsTyped DEF Terminate, Kill
<1>6. CASE KillOver
  <2>1. CallType'
    BY <1>0, <1>6, CheckTyped DEF KillOver, Checks
  <2>2. GroupType'
    BY <1>0, <1>6 DEF KillOver, GroupType, ghosts
  <2>. QED
    BY <1>0, <2>1, <2>2
<1>7. CASE WaitOwned \/ PollChild \/ WaitOver
  <2>1. CallType'
    <3>1. CASE WaitOwned
      BY <1>0, <3>1 DEF WaitOwned, CallType, Begin, Places, Checks, Answers
    <3>2. CASE PollChild
      BY <1>0, <3>2, GotoTyped DEF PollChild, Places, Probing
    <3>3. CASE WaitOver
      BY <1>0, <3>3, ReturnsTyped DEF WaitOver, Answers
    <3>. QED
      BY <1>7, <3>1, <3>2, <3>3
  <2>2. GroupType'
    BY <1>0, <1>7 DEF WaitOwned, PollChild, WaitOver, GroupType, world, ghosts
  <2>. QED
    BY <1>0, <2>1, <2>2
<1>8. CASE UNCHANGED vars
  BY <1>0, <1>8 DEF vars, GroupType, CallType
<1>. QED
  BY <1>0, <1>1, <1>2, <1>3, <1>4, <1>5, <1>6, <1>7, <1>8
  DEF Next, StopStep, WaitStep

\* Every reachable state is well typed; what has got a SIGKILL is still of the
\* group.
THEOREM TypeCorrect == Spec => []TypeOK
<1>. QED
  BY InitTyped, StepTyped, PTL DEF Spec

-----------------------------------------------------------------------------
(* An empty group stays empty: only a running member forks.  So a caller    *)
(* that has seen it empty, and is about to reap or has answered, is right.  *)

Seen(c) == call[c].pc = "reap" \/ call[c].answer = "yes"

EmptySeen == ~origin.sandboxed => \A c \in Caller : Seen(c) => Empty

\* No step fills an empty group.
LEMMA EmptyStays == TypeOK /\ Empty /\ [Next]_vars => Empty'
<1>. SUFFICES ASSUME TypeOK, Empty, [Next]_vars
              PROVE  Empty'
  OBVIOUS
<1>. USE DEF Empty
<1>1. CASE System
  BY <1>1 DEF System, Fork, LeaderExits, InitReaps, Recycle, StrangerEnds,
     MemberExits, group
<1>2. ASSUME NEW c \in Caller, Probe(c)
      PROVE  Empty'
  BY <1>2 DEF Probe, ProbeExists, ProbeMatch, ProbeAgain, ProbeGroup, Reap,
     world
<1>3. CASE StopOwned \/ StopStep \/ GraceOver \/ KillOver
  BY <1>2, <1>3 DEF StopOwned, StopStep, StopExists, StopIdentity, Terminate,
     Poll, Kill, GraceOver, KillOver, world, Caller
<1>4. CASE WaitOwned \/ WaitStep \/ WaitOver
  BY <1>2, <1>4 DEF WaitOwned, WaitStep, PollChild, WaitOver, world, Caller
<1>5. CASE UNCHANGED vars
  BY <1>5 DEF vars
<1>. QED
  BY <1>1, <1>3, <1>4, <1>5 DEF Next

\* Who comes to have seen the group empty has just found it so; the others
\* had seen it before.
LEMMA SeenIsTrue ==
  ASSUME TypeOK, EmptySeen, [Next]_vars, ~origin.sandboxed,
         NEW d \in Caller, Seen(d)'
  PROVE  Empty \/ Empty'
<1>. SUFFICES ASSUME ~Empty
              PROVE  FALSE
  BY EmptyStays
<1>0. /\ call \in [Caller -> [pc : Places, check : Checks, answer : Answers]]
      /\ \A c \in Caller : call[c].pc # "reap" /\ call[c].answer # "yes"
      /\ call'[d].pc = "reap" \/ call'[d].answer = "yes"
  BY DEF TypeOK, EmptySeen, Seen
<1>1. CASE UNCHANGED call
  BY <1>0, <1>1
<1>2. \A c \in Caller : \A place \in Places \ {"reap"} : ~Goto(c, place)
  BY <1>0 DEF Goto
<1>3. \A c \in Caller : \A check \in Checks : ~Check(c, check)
  BY <1>0 DEF Check
<1>4. \A c \in Caller : ~Returns(c, "no")
  BY <1>0 DEF Returns
<1>5. /\ Places = Stopping \cup Probing \cup {"idle", "poll", "reap", "done"}
      /\ "stop" \in Caller /\ "wait" \in Caller
  BY DEF Places, Caller
<1>6. ASSUME NEW c \in Caller, Probe(c)
      PROVE  FALSE
  <2>1. ~IsAlive(c)
    BY <1>2, <1>4 DEF IsAlive, Places, Stopping
  <2>2. CASE ProbeExists(c)
    BY <1>2, <2>2 DEF ProbeExists, Places, Probing
  <2>3. CASE ProbeMatch(c)
    BY <1>2, <2>1, <2>3 DEF ProbeMatch, Places, Probing
  <2>4. CASE ProbeAgain(c)
    BY <1>2, <2>1, <2>4 DEF ProbeAgain, Places, Probing
  <2>5. CASE ProbeGroup(c)
    BY <2>1, <2>5 DEF ProbeGroup, group_pids, Empty
  <2>6. CASE Reap(c)
    BY <1>0, <2>6 DEF Reap, At
  <2>. QED
    BY <1>6, <2>2, <2>3, <2>4, <2>5, <2>6 DEF Probe
<1>7. CASE System
  BY <1>1, <1>7 DEF System, Fork, LeaderExits, InitReaps, Recycle,
     StrangerEnds, MemberExits
<1>8. CASE StopOwned \/ WaitOwned
  BY <1>0, <1>8 DEF StopOwned, WaitOwned, Begin, Caller
<1>9. CASE StopExists \/ StopIdentity \/ Poll \/ KillOver
  BY <1>2, <1>3, <1>4, <1>5, <1>9 DEF StopExists, StopIdentity, Poll, KillOver,
     Stopping, Checks
<1>10. CASE Terminate \/ Kill \/ GraceOver
  BY <1>2, <1>3, <1>5, <1>10 DEF Terminate, Kill, GraceOver, Signals, Stopping,
     Checks
<1>11. CASE PollChild \/ WaitOver
  BY <1>2, <1>4, <1>5, <1>11 DEF PollChild, WaitOver, Probing
<1>12. CASE UNCHANGED vars
  BY <1>1, <1>12 DEF vars
<1>. QED
  BY <1>5, <1>6, <1>7, <1>8, <1>9, <1>10, <1>11, <1>12
  DEF Next, StopStep, WaitStep

LEMMA EmptySeenStep ==
  TypeOK /\ EmptySeen /\ [Next]_vars => EmptySeen'
<1>. SUFFICES ASSUME TypeOK, EmptySeen, [Next]_vars, ~origin'.sandboxed,
                     NEW d \in Caller, Seen(d)'
              PROVE  Empty'
  BY DEF EmptySeen
<1>1. origin' = origin
  BY DEF Next, System, Fork, LeaderExits, InitReaps, Recycle, StrangerEnds,
     MemberExits, StopOwned, StopStep, StopExists, StopIdentity, Terminate,
     Poll, Kill, GraceOver, KillOver, WaitOwned, WaitStep, PollChild, WaitOver,
     Probe, ProbeExists, ProbeMatch, ProbeAgain, ProbeGroup, Reap, world, vars
<1>2. Empty \/ Empty'
  BY <1>1, SeenIsTrue
<1>. QED
  BY <1>2, EmptyStays

\* Where probes are permitted, a stop that returns True and a wait that returns
\* an exit code leave no process of the group (stop_owned, wait_owned), for any
\* number of descendants.
THEOREM EmptiedHolds == Spec => []Emptied
<1>1. Init => EmptySeen
  BY DEF Init, EmptySeen, Seen, Begin
<1>2. EmptySeen => Emptied
  BY DEF EmptySeen, Emptied, Seen
<1>. QED
  BY <1>1, <1>2, EmptySeenStep, TypeCorrect, PTL DEF Spec

-----------------------------------------------------------------------------
(* A stop that began when a stranger already had the pid never signals: the *)
(* identity of the recorded process matches nothing any more.               *)

Unsignaled ==
  /\ stranger # "none" => leader = "gone"
  /\ met => /\ stranger # "none" /\ ~harmed
            /\ call["stop"].pc \in {"idle", "done", "exists", "identity"}

LEMMA UnsignaledStep ==
  TypeOK /\ Unsignaled /\ [Next]_vars => Unsignaled'
<1>. SUFFICES ASSUME TypeOK, Unsignaled, [Next]_vars
              PROVE  Unsignaled'
  OBVIOUS
<1>0. /\ call \in [Caller -> [pc : Places, check : Checks, answer : Answers]]
      /\ "stop" \in Caller /\ "wait" \in Caller
  BY DEF TypeOK, Caller
<1>. USE DEF Unsignaled
<1>1. CASE System
  <2>1. CASE Recycle
    <3>1. /\ leader' = "gone" /\ stranger' # "none" /\ ~harmed'
          /\ call' = call /\ met' = (call["stop"].pc \in {"idle", "done"})
      BY <2>1 DEF Recycle, group
    <3>. QED
      BY <3>1
  <2>2. CASE StrangerEnds
    BY <2>2 DEF StrangerEnds, group
  <2>3. CASE UNCHANGED <<stranger, call, ghosts>> /\ leader' = leader
    BY <2>3 DEF ghosts
  <2>4. CASE LeaderExits \/ InitReaps
    BY <2>4 DEF LeaderExits, InitReaps, ghosts
  <2>. QED
    BY <1>1, <2>1, <2>2, <2>3, <2>4 DEF System, Fork, MemberExits
<1>2. ASSUME NEW c \in Caller, Probe(c)
      PROVE  Unsignaled'
  <2>1. c = "stop" => ~met
    BY <1>2 DEF Probe, ProbeExists, ProbeMatch, ProbeAgain, ProbeGroup, Reap, At
  <2>2. c = "wait" => call'["stop"] = call["stop"]
    BY <1>0, <1>2 DEF Probe, ProbeExists, ProbeMatch, ProbeAgain, ProbeGroup,
       Reap, IsAlive, NotAlive, Goto, Returns
  <2>3. UNCHANGED <<stranger, ghosts>> /\ (leader' = leader \/ leader' = "gone")
    BY <1>2 DEF Probe, ProbeExists, ProbeMatch, ProbeAgain, ProbeGroup, Reap,
       world, ghosts
  <2>. QED
    BY <2>1, <2>2, <2>3 DEF Caller, ghosts
<1>3. CASE StopOwned
  BY <1>0, <1>3 DEF StopOwned, Begin, world
<1>4. CASE StopExists
  <2>1. met => call'["stop"].pc = "identity"
    BY <1>0, <1>4 DEF StopExists, pid_exists, Goto
  <2>. QED
    BY <1>4, <2>1 DEF StopExists, world, ghosts
<1>5. CASE StopIdentity
  <2>1. met => \A liveness \in process_liveness : liveness # "alive"
    BY DEF process_liveness
  <2>2. ASSUME met
        PROVE  call'["stop"].pc = "done"
    <3>1. PICK matches \in identity_matches :
             IF matches THEN Check("stop", "first") ELSE Returns("stop", "no")
      BY <1>5 DEF StopIdentity
    <3>2. PICK liveness \in process_liveness : matches = (liveness = "alive")
      BY <3>1 DEF identity_matches
    <3>3. ~matches
      BY <2>1, <2>2, <3>2
    <3>. QED
      BY <1>0, <3>1, <3>3 DEF Returns
  <2>. QED
    BY <1>5, <2>2 DEF StopIdentity, world, ghosts
<1>6. CASE Terminate \/ Poll \/ Kill \/ GraceOver \/ KillOver
  <2>1. ~met /\ UNCHANGED <<met, stranger>>
    BY <1>6 DEF Terminate, Poll, Kill, GraceOver, KillOver, At, ghosts, world
  <2>2. leader' = leader \/ leader' = "gone"
    BY <1>6 DEF Terminate, Poll, Kill, GraceOver, KillOver, world
  <2>. QED
    BY <2>1, <2>2
<1>7. CASE WaitOwned \/ PollChild \/ WaitOver
  <2>1. call'["stop"] = call["stop"] /\ UNCHANGED <<stranger, ghosts>>
    BY <1>0, <1>7 DEF WaitOwned, PollChild, WaitOver, Goto, Returns, world
  <2>2. leader' = leader \/ leader' = "gone"
    BY <1>7 DEF WaitOwned, PollChild, WaitOver, world
  <2>. QED
    BY <2>1, <2>2 DEF ghosts
<1>8. CASE UNCHANGED vars
  BY <1>8 DEF vars
<1>. QED
  BY <1>0, <1>1, <1>2, <1>3, <1>4, <1>5, <1>6, <1>7, <1>8
  DEF Next, StopStep, WaitStep

\* A process that has had the pid since before the stop gets no signal, for
\* any number of descendants and with or without refused probes (stop_owned).
THEOREM StrangerSparedHolds == Spec => []StrangerSpared
<1>1. Init => Unsignaled
  BY DEF Init, Unsignaled
<1>2. Unsignaled => StrangerSpared
  BY DEF Unsignaled, StrangerSpared
<1>. QED
  BY <1>1, <1>2, UnsignaledStep, TypeCorrect, PTL DEF Spec
=============================================================================
