----------------------- MODULE ExecutionServerProofs -----------------------
(***************************************************************************)
(* Safety of ExecutionServer for every value of its constants: any number  *)
(* of executions, cancels and kills.  First its types: the type invariant  *)
(* is a conjunction of one part per group of variables, and a step of the  *)
(* proof expands only the parts its action writes.  LaunchProtocol is then *)
(* inductive relative to TypeOK; SettledIsStopped is one of its conjuncts, *)
(* and LaunchedOnce follows from Gated in the one action that launches.    *)
(* The second part proves that executions take turns on the workspace, the *)
(* third that registry and Tasks tell one outcome, which lasts.            *)
(***************************************************************************)
EXTENDS ExecutionServer, TLAPS

-----------------------------------------------------------------------------
(* Types.                                                                  *)

\* What is left of the server after it died is well typed.
LEMMA VolatileType ==
  ASSUME Volatile, crashes' \in 0..MaxCrashes
  PROVE  ServerType' /\ RuntimeType' /\ CoroutineType' /\ FinalizeType'
<1>1. ServerType'
  BY DEF ServerType, Volatile, Idle, Actor
<1>2. RuntimeType'
  BY DEF RuntimeType, Volatile, NewRuntime, Runtime
<1>3. CoroutineType'
  BY DEF CoroutineType, Volatile, NewCoroutine, Coroutine, At, Exit
<1>4. FinalizeType'
  BY DEF FinalizeType, Volatile, FinalizeAt
<1>. QED
  BY <1>1, <1>2, <1>3, <1>4

\* ... and its threads and unsaved events are gone.
LEMMA VolatileProcess ==
  ASSUME Volatile,
         worker' \in [Execution -> {"none", "live", "dead", "recycled"}]
  PROVE  ProcessType'
  BY DEF ProcessType, Volatile, TaskState

\* The runtime updates of finalize keep the type of rt.
LEMMA RuntimeUpdate ==
  ASSUME RuntimeType, NEW e \in Execution
  PROVE  /\ [rt EXCEPT ![e].cleanup = "none"] \in [Execution -> Runtime]
         /\ [rt EXCEPT ![e].final = TRUE, ![e].cleanup = "none"]
              \in [Execution -> Runtime]
         /\ [rt EXCEPT ![e].final = TRUE, ![e].cleanup = "none",
                       ![e].locked = FALSE] \in [Execution -> Runtime]
<1>1. [rt EXCEPT ![e].cleanup = "none"] \in [Execution -> Runtime]
  BY DEF RuntimeType, Runtime
<1>2. [rt EXCEPT ![e].final = TRUE, ![e].cleanup = "none"]
        \in [Execution -> Runtime]
  BY DEF RuntimeType, Runtime
<1>3. [rt EXCEPT ![e].final = TRUE, ![e].cleanup = "none",
                 ![e].locked = FALSE] \in [Execution -> Runtime]
  BY ZenonT(60) DEF RuntimeType, Runtime
<1>. QED
  BY <1>1, <1>2, <1>3

\* The coroutine moves to another await, or leaves its body on one of its ways
\* out.
LEMMA GotoTyped ==
  ASSUME CoroutineType, NEW e \in Execution, NEW at \in At, Goto(e, at)
  PROVE  CoroutineType'
  BY DEF CoroutineType, Goto, Coroutine

LEMMA LeaveTyped ==
  ASSUME CoroutineType, NEW e \in Execution, NEW at \in At, NEW exit \in Exit,
         Leave(e, at, exit)
  PROVE  CoroutineType'
  BY DEF CoroutineType, Leave, Coroutine

LEMMA GateTyped ==
  ASSUME CoroutineType, NEW e \in Execution,
         co' = [co EXCEPT ![e].rel = "gate"]
  PROVE  CoroutineType'
  BY DEF CoroutineType, Coroutine

\* The initial state is well typed.
LEMMA InitTyped == Init => TypeOK
<1>. SUFFICES ASSUME Init
              PROVE  TypeOK
  OBVIOUS
<1>0. StoredType
  BY DEF Init, StoredType, Status, TaskState
<1>1. FileType
  BY DEF Init, FileType
<1>6. ProcessType
  <2>1. worker \in [Execution -> {"none", "live", "dead", "recycled"}]
    BY DEF Init
  <2>2. thread \in [Execution -> {"none", "gate", "launched", "recorded",
                                  "returned", "refused", "raised"}]
    BY DEF Init
  <2>3. cpc \in [Execution -> {"idle", "stop", "stopped", "unstopped"}]
    BY DEF Init
  <2>4. events \in [Execution -> TaskState]
    BY DEF Init, TaskState
  <2>. QED
    BY <2>1, <2>2, <2>3, <2>4 DEF ProcessType
<1>2. ServerType
  <2>1. /\ mode = "serving" /\ todo = {} /\ loop = Idle
        /\ held = FALSE /\ crashes = 0
    BY DEF Init
  <2>2. loop \in (Execution \cup {NoExecution})
                    \X (Actor \cup {"send", "idle"})
    BY <2>1 DEF Idle
  <2>3. crashes \in 0..MaxCrashes
    BY <2>1, ServerAssumption DEF ServerAssumption
  <2>4. todo \in SUBSET Execution
    BY <2>1
  <2>. QED
    BY <2>1, <2>2, <2>3, <2>4 DEF ServerType
<1>3. RuntimeType
  BY DEF Init, RuntimeType, NewRuntime, Runtime
<1>4. CoroutineType
  BY DEF Init, CoroutineType, NewCoroutine, Coroutine, At, Exit
<1>5. FinalizeType
  BY DEF Init, FinalizeType, FinalizeAt
<1>. QED
  BY <1>0, <1>1, <1>2, <1>3, <1>4, <1>5, <1>6 DEF TypeOK

\* Every step keeps the state well typed.
LEMMA StepTyped == TypeOK /\ [Next]_vars => TypeOK'
<1>. SUFFICES ASSUME TypeOK, [Next]_vars
              PROVE  TypeOK'
  OBVIOUS
<1>1. ASSUME NEW e \in Execution, Send(e)
       PROVE  TypeOK'
  <2>1. StoredType'
    BY <1>1 DEF TypeOK, StoredType, Send, Status, NONTERMINAL,
       TERMINAL_EXECUTION, TaskState, TERMINAL_TASK
  <2>2. ServerType'
    BY <1>1 DEF TypeOK, ServerType, Send, Actor, Idle
  <2>. QED
    BY <1>1, <2>1, <2>2 DEF TypeOK, Send, FileType, ProcessType, RuntimeType,
       CoroutineType, FinalizeType, files, coroutines
<1>2. ASSUME NEW e \in Execution, Dispatch(e)
       PROVE  TypeOK'
  <2>1. StoredType'
    BY <1>2 DEF TypeOK, StoredType, Dispatch, Status, NONTERMINAL,
       TERMINAL_EXECUTION
  <2>2. ServerType'
    BY <1>2 DEF TypeOK, ServerType, Dispatch, Actor, Idle
  <2>3. CoroutineType'
    <3>1. Goto(e, "queued") \/ UNCHANGED co
      BY <1>2 DEF Dispatch
    <3>. QED
      BY <3>1, GotoTyped DEF TypeOK, CoroutineType, At
  <2>. QED
    BY <1>2, <2>1, <2>2, <2>3 DEF TypeOK, Dispatch, FileType, ProcessType,
       RuntimeType, FinalizeType, files
<1>3. ASSUME NEW e \in Execution, SaveTask(e)
       PROVE  TypeOK'
  <2>1. StoredType'
    BY <1>3 DEF TypeOK, StoredType, ProcessType, SaveTask
  <2>2. ProcessType'
    BY <1>3 DEF TypeOK, ProcessType, SaveTask, TaskState, TERMINAL_TASK,
       coroutines
  <2>. QED
    BY <1>3, <2>1, <2>2 DEF TypeOK, SaveTask, FileType, ServerType,
       RuntimeType, CoroutineType, FinalizeType, files, coroutines
<1>4. ASSUME NEW e \in Execution, Reject(e)
       PROVE  TypeOK'
  <2>1. StoredType'
    BY <1>4 DEF TypeOK, StoredType, Reject, Status, NONTERMINAL,
       TERMINAL_EXECUTION
  <2>2. ProcessType'
    BY <1>4 DEF TypeOK, ProcessType, Reject, Emitted, TaskState, TERMINAL_TASK
  <2>3. ServerType'
    BY <1>4 DEF TypeOK, ServerType, Reject, Actor, Idle
  <2>4. RuntimeType'
    BY <1>4, ZenonT(60) DEF TypeOK, RuntimeType, Reject, Runtime
  <2>5. CoroutineType'
    BY <1>4, GotoTyped DEF TypeOK, Reject, At
  <2>. QED
    BY <1>4, <2>1, <2>2, <2>3, <2>4, <2>5 DEF TypeOK, Reject, FileType,
       FinalizeType, files
<1>4a. ASSUME NEW e \in Execution, EvidenceFails(e)
        PROVE  TypeOK'
  <2>1. RuntimeType'
    <3>1. rt' = [rt EXCEPT ![e].registered = TRUE]
      BY <1>4a DEF EvidenceFails
    <3>. QED
      BY <3>1 DEF TypeOK, RuntimeType, Runtime
  <2>2. CoroutineType'
    BY <1>4a, LeaveTyped DEF TypeOK, EvidenceFails, At, Exit
  <2>. QED
    BY <1>4a, <2>1, <2>2 DEF TypeOK, EvidenceFails, StoredType, FileType,
       ProcessType, ServerType, FinalizeType, stored, files
<1>5. ASSUME NEW e \in Execution, Prepare(e)
       PROVE  TypeOK'
  <2>1. FileType'
    BY <1>5 DEF TypeOK, FileType, Prepare
  <2>2. ProcessType'
    BY <1>5 DEF TypeOK, ProcessType, Prepare, TaskState, TERMINAL_TASK
  <2>3. ServerType'
    BY <1>5 DEF TypeOK, ServerType, Prepare, Actor, Idle
  <2>4. RuntimeType'
    <3>1. rt' = [rt EXCEPT ![e].registered = TRUE, ![e].locked = TRUE]
      BY <1>5 DEF Prepare
    <3>. QED
      BY <3>1 DEF TypeOK, RuntimeType, Runtime
  <2>5. CoroutineType'
    BY <1>5, GotoTyped DEF TypeOK, Prepare, At
  <2>. QED
    BY <1>5, <2>1, <2>2, <2>3, <2>4, <2>5 DEF TypeOK, Prepare, StoredType,
       FinalizeType, stored
<1>6. ASSUME NEW e \in Execution, PrepareRaises(e)
       PROVE  TypeOK'
  <2>1. FileType'
    BY <1>6 DEF TypeOK, FileType, PrepareRaises
  <2>2. ServerType'
    BY <1>6 DEF TypeOK, ServerType, PrepareRaises, Actor, Idle
  <2>3. RuntimeType'
    <3>1. rt' = [rt EXCEPT ![e].registered = TRUE, ![e].locked = TRUE]
      BY <1>6 DEF PrepareRaises
    <3>. QED
      BY <3>1 DEF TypeOK, RuntimeType, Runtime
  <2>4. CoroutineType'
    BY <1>6, LeaveTyped DEF TypeOK, PrepareRaises, At, Exit
  <2>. QED
    BY <1>6, <2>1, <2>2, <2>3, <2>4 DEF TypeOK, PrepareRaises, StoredType,
       ProcessType, FinalizeType, stored
<1>7. ASSUME NEW e \in Execution, SpawnReturned(e)
       PROVE  TypeOK'
  <2>1. ServerType'
    BY <1>7 DEF TypeOK, ServerType, SpawnReturned, Actor, Idle
  <2>2. CoroutineType'
    <3>1. \/ Goto(e, "waiting") \/ Leave(e, "finally", "return")
          \/ Leave(e, "finally", "raise")
      BY <1>7 DEF SpawnReturned
    <3>. QED
      BY <3>1, GotoTyped, LeaveTyped DEF TypeOK, At, Exit
  <2>. QED
    BY <1>7, <2>1, <2>2 DEF TypeOK, SpawnReturned, StoredType, FileType,
       ProcessType, RuntimeType, FinalizeType, stored, files
<1>8. ASSUME NEW e \in Execution,
             NEW outcome \in {"completed", "failed"}, Deliver(e, outcome)
       PROVE  TypeOK'
  <2>1. StoredType'
    BY <1>8 DEF TypeOK, StoredType, Deliver, TaskStateOf, Status, NONTERMINAL,
       TERMINAL_EXECUTION
  <2>2. ProcessType'
    BY <1>8 DEF TypeOK, ProcessType, Deliver, Emitted, TaskStateOf, TaskState,
       TERMINAL_TASK
  <2>3. ServerType'
    BY <1>8 DEF TypeOK, ServerType, Deliver, Actor, Idle
  <2>4. RuntimeType'
    BY <1>8 DEF TypeOK, RuntimeType, Deliver, Runtime
  <2>5. CoroutineType'
    BY <1>8, LeaveTyped DEF TypeOK, Deliver, At, Exit
  <2>. QED
    BY <1>8, <2>1, <2>2, <2>3, <2>4, <2>5 DEF TypeOK, Deliver, FileType,
       FinalizeType, files
<1>9. ASSUME NEW e \in Execution, DeliverNothing(e)
       PROVE  TypeOK'
  <2>1. ServerType'
    BY <1>9 DEF TypeOK, ServerType, DeliverNothing, Actor, Idle
  <2>2. CoroutineType'
    BY <1>9, LeaveTyped DEF TypeOK, DeliverNothing, At, Exit
  <2>. QED
    BY <1>9, <2>1, <2>2 DEF TypeOK, DeliverNothing, StoredType, FileType,
       ProcessType, RuntimeType, FinalizeType, stored, files
<1>10. ASSUME NEW e \in Execution, Expire(e)
       PROVE  TypeOK'
  <2>1. ServerType'
    BY <1>10 DEF TypeOK, ServerType, Expire, Actor, Idle
  <2>2. CoroutineType'
    BY <1>10, GotoTyped DEF TypeOK, Expire, At
  <2>3. FinalizeType'
    BY <1>10 DEF TypeOK, FinalizeType, Expire, FinalizeAt, Actor
  <2>. QED
    BY <1>10, <2>1, <2>2, <2>3 DEF TypeOK, Expire, StoredType, FileType,
       ProcessType, RuntimeType, stored, files
<1>11. ASSUME NEW e \in Execution, Finally(e)
       PROVE  TypeOK'
  <2>1. ServerType'
    BY <1>11 DEF TypeOK, ServerType, Finally, Actor, Idle
  <2>2. CoroutineType'
    <3>1. co' = [co EXCEPT ![e].rel = "gate"] \/ Goto(e, "except")
      BY <1>11 DEF Finally
    <3>. QED
      BY <3>1, GateTyped, GotoTyped DEF TypeOK, At
  <2>. QED
    BY <1>11, <2>1, <2>2 DEF TypeOK, Finally, StoredType, FileType,
       ProcessType, RuntimeType, FinalizeType, stored, files
<1>12. ASSUME NEW e \in Execution, Except(e)
       PROVE  TypeOK'
  <2>1. StoredType'
    BY <1>12 DEF TypeOK, StoredType, Except, Status, NONTERMINAL,
       TERMINAL_EXECUTION
  <2>2. ProcessType'
    BY <1>12 DEF TypeOK, ProcessType, Except, Emitted, TaskState,
       TERMINAL_TASK
  <2>3. ServerType'
    BY <1>12 DEF TypeOK, ServerType, Except, Actor, Idle
  <2>4. CoroutineType'
    <3>1. \/ Goto(e, "handler") \/ Goto(e, "outer")
          \/ co' = [co EXCEPT ![e].rel = "gate"]
      BY <1>12 DEF Except
    <3>. QED
      BY <3>1, GateTyped, GotoTyped DEF TypeOK, At
  <2>5. FinalizeType'
    BY <1>12 DEF TypeOK, FinalizeType, Except, FinalizeAt, Actor
  <2>. QED
    BY <1>12, <2>1, <2>2, <2>3, <2>4, <2>5 DEF TypeOK, Except, FileType,
       RuntimeType, files
<1>13. ASSUME NEW e \in Execution, Outer(e)
       PROVE  TypeOK'
  <2>1. ServerType'
    BY <1>13 DEF TypeOK, ServerType, Outer, Actor, Idle
  <2>2. CoroutineType'
    <3>1. \/ Goto(e, "drain") \/ Goto(e, "outer_stop") \/ Goto(e, "pop")
          \/ co' = [co EXCEPT ![e].rel = "gate"]
      BY <1>13 DEF Outer
    <3>. QED
      BY <3>1, GateTyped, GotoTyped DEF TypeOK, At
  <2>3. FinalizeType'
    BY <1>13 DEF TypeOK, FinalizeType, Outer, FinalizeAt, Actor
  <2>. QED
    BY <1>13, <2>1, <2>2, <2>3 DEF TypeOK, Outer, StoredType, FileType,
       ProcessType, RuntimeType, stored, files
<1>14. ASSUME NEW e \in Execution, Drained(e)
       PROVE  TypeOK'
  <2>1. ServerType'
    BY <1>14 DEF TypeOK, ServerType, Drained, Actor, Idle
  <2>2. CoroutineType'
    BY <1>14, GotoTyped DEF TypeOK, Drained, At
  <2>. QED
    BY <1>14, <2>1, <2>2 DEF TypeOK, Drained, StoredType, FileType,
       ProcessType, RuntimeType, FinalizeType, stored, files
<1>15. ASSUME NEW e \in Execution, Pop(e)
       PROVE  TypeOK'
  <2>1. ServerType'
    BY <1>15 DEF TypeOK, ServerType, Pop, Actor, Idle
  <2>2. RuntimeType'
    BY <1>15 DEF TypeOK, RuntimeType, Pop, Runtime
  <2>3. CoroutineType'
    BY <1>15, GotoTyped DEF TypeOK, Pop, At
  <2>. QED
    BY <1>15, <2>1, <2>2, <2>3 DEF TypeOK, Pop, StoredType, FileType,
       ProcessType, FinalizeType, stored, files
<1>16. ASSUME NEW e \in Execution, ReleaseIfSafe(e)
       PROVE  TypeOK'
  <2>1. FileType'
    BY <1>16 DEF TypeOK, FileType, ReleaseIfSafe, Unlock, files
  <2>2. ServerType'
    <3>1. held' \in BOOLEAN
      BY <1>16 DEF TypeOK, ServerType, ReleaseIfSafe, Unlock
    <3>2. loop' \in (Execution \cup {NoExecution})
                    \X (Actor \cup {"send", "idle"})
      BY <1>16 DEF ReleaseIfSafe, Idle, Actor
    <3>. QED
      BY <1>16, <3>1, <3>2 DEF TypeOK, ServerType, ReleaseIfSafe
  <2>3. RuntimeType'
    BY <1>16, ZenonT(60) DEF TypeOK, RuntimeType, ReleaseIfSafe, Runtime
  <2>4. CoroutineType'
    BY <1>16 DEF TypeOK, CoroutineType, ReleaseIfSafe, AfterRaise,
       AfterRelease, Coroutine, At, Exit
  <2>. QED
    BY <1>16, <2>1, <2>2, <2>3, <2>4 DEF TypeOK, ReleaseIfSafe, StoredType,
       ProcessType, FinalizeType, stored
<1>17. ASSUME NEW e \in Execution, Interrupted(e)
       PROVE  TypeOK'
  <2>1. ServerType'
    BY <1>17 DEF TypeOK, ServerType, Interrupted, Actor, Idle
  <2>2. RuntimeType'
    BY <1>17 DEF TypeOK, RuntimeType, Interrupted, Runtime, Actor
  <2>3. CoroutineType'
    BY <1>17 DEF TypeOK, CoroutineType, Interrupted, AfterInterrupt,
       Coroutine, At, Exit
  <2>4. FinalizeType'
    BY <1>17 DEF TypeOK, FinalizeType, Interrupted, FinalizeAt, Actor
  <2>. QED
    BY <1>17, <2>1, <2>2, <2>3, <2>4 DEF TypeOK, Interrupted, StoredType,
       FileType, ProcessType, stored, files
<1>18. ASSUME NEW e \in Execution, ExecuteResumes(e)
       PROVE  TypeOK'
  <2>1. CoroutineType'
    <3>1. \/ Leave(e, "finally", "return") \/ Goto(e, "outer")
          \/ Goto(e, "pop")
      BY <1>18 DEF ExecuteResumes
    <3>. QED
      BY <3>1, GotoTyped, LeaveTyped DEF TypeOK, At, Exit
  <2>. QED
    BY <1>18, <2>1 DEF TypeOK, ExecuteResumes, StoredType, FileType,
       ProcessType, ServerType, RuntimeType, FinalizeType, stored, files
<1>19. ASSUME NEW e \in Execution, WaitOwned(e)
       PROVE  TypeOK'
  <2>1. CoroutineType'
    BY <1>19, GotoTyped DEF TypeOK, WaitOwned, At
  <2>. QED
    BY <1>19, <2>1 DEF TypeOK, WaitOwned, StoredType, FileType, ProcessType,
       ServerType, RuntimeType, FinalizeType, stored, files
<1>20. ASSUME NEW e \in Execution, CloseGateForRelease(e)
       PROVE  TypeOK'
  <2>1. RuntimeType'
    BY <1>20 DEF TypeOK, RuntimeType, CloseGateForRelease, Runtime
  <2>2. CoroutineType'
    BY <1>20 DEF TypeOK, CoroutineType, CloseGateForRelease, Coroutine, At,
       Exit
  <2>. QED
    BY <1>20, <2>1, <2>2 DEF TypeOK, CloseGateForRelease, StoredType,
       FileType, ProcessType, ServerType, FinalizeType, stored, files
<1>21. ASSUME NEW e \in Execution, Launch(e)
       PROVE  TypeOK'
  <2>1. ProcessType'
    BY <1>21 DEF TypeOK, ProcessType, Launch, TaskState, TERMINAL_TASK
  <2>2. RuntimeType'
    BY <1>21 DEF TypeOK, RuntimeType, Launch, Runtime
  <2>. QED
    BY <1>21, <2>1, <2>2 DEF TypeOK, Launch, StoredType, FileType, ServerType,
       CoroutineType, FinalizeType, stored, files
<1>22. ASSUME NEW e \in Execution, WriteOwner(e)
       PROVE  TypeOK'
  <2>1. FileType'
    BY <1>22 DEF TypeOK, FileType, WriteOwner
  <2>2. ProcessType'
    BY <1>22 DEF TypeOK, ProcessType, WriteOwner, TaskState, TERMINAL_TASK,
       coroutines
  <2>. QED
    BY <1>22, <2>1, <2>2 DEF TypeOK, WriteOwner, StoredType, ServerType,
       RuntimeType, CoroutineType, FinalizeType, stored, coroutines
<1>23. ASSUME NEW e \in Execution, RecordPid(e)
       PROVE  TypeOK'
  <2>1. StoredType'
    BY <1>23 DEF TypeOK, StoredType, RecordPid, Status, NONTERMINAL,
       TERMINAL_EXECUTION
  <2>2. ProcessType'
    BY <1>23 DEF TypeOK, ProcessType, RecordPid, TaskState, TERMINAL_TASK,
       coroutines
  <2>. QED
    BY <1>23, <2>1, <2>2 DEF TypeOK, RecordPid, FileType, ServerType,
       RuntimeType, CoroutineType, FinalizeType, files, coroutines
<1>24. ASSUME NEW e \in Execution, SpawnRaises(e)
       PROVE  TypeOK'
  <2>1. ProcessType'
    BY <1>24 DEF TypeOK, ProcessType, SpawnRaises, TaskState, TERMINAL_TASK,
       coroutines
  <2>. QED
    BY <1>24, <2>1 DEF TypeOK, SpawnRaises, StoredType, FileType, ServerType,
       RuntimeType, CoroutineType, FinalizeType, stored, files, coroutines
<1>25. ASSUME NEW e \in Execution, NEW a \in Actor, FinalizeEnter(e, a)
       PROVE  TypeOK'
  <2>1. ServerType'
    BY <1>25 DEF TypeOK, ServerType, FinalizeEnter, Actor, Idle
  <2>2. RuntimeType'
    BY <1>25 DEF TypeOK, RuntimeType, FinalizeEnter, Runtime, Actor
  <2>3. FinalizeType'
    BY <1>25 DEF TypeOK, FinalizeType, FinalizeEnter, FinalizeAt, Actor
  <2>. QED
    BY <1>25, <2>1, <2>2, <2>3 DEF TypeOK, FinalizeEnter, StoredType,
       FileType, ProcessType, CoroutineType, stored, files
<1>26. ASSUME NEW e \in Execution, NEW a \in Actor, FinalizeGated(e, a)
       PROVE  TypeOK'
  <2>1. ServerType'
    BY <1>26 DEF TypeOK, ServerType, FinalizeGated, Actor, Idle
  <2>2. FinalizeType'
    BY <1>26 DEF TypeOK, FinalizeType, FinalizeGated, FinalizeAt, Actor
  <2>. QED
    BY <1>26, <2>1, <2>2 DEF TypeOK, FinalizeGated, StoredType, FileType,
       ProcessType, RuntimeType, CoroutineType, stored, files
<1>27. ASSUME NEW e \in Execution, NEW a \in Actor, FinalizeRecovery(e, a)
       PROVE  TypeOK'
  <2>1. StoredType'
    BY <1>27 DEF TypeOK, StoredType, FinalizeRecovery, Persisted, Status,
       NONTERMINAL, TERMINAL_EXECUTION, TaskState, TERMINAL_TASK
  <2>2. ProcessType'
    BY <1>27 DEF TypeOK, ProcessType, FinalizeRecovery, Emitted, TaskState,
       TERMINAL_TASK
  <2>3. ServerType'
    BY <1>27 DEF TypeOK, ServerType, FinalizeRecovery, Actor, Idle
  <2>4. RuntimeType'
    BY <1>27, ZenonT(60)
    DEF TypeOK, RuntimeType, FinalizeRecovery, Runtime, Actor
  <2>5. FinalizeType'
    BY <1>27 DEF TypeOK, FinalizeType, FinalizeRecovery, FinalizeAt, Actor
  <2>. QED
    BY <1>27, <2>1, <2>2, <2>3, <2>4, <2>5 DEF TypeOK, FinalizeRecovery,
       FileType, CoroutineType, files
<1>28. ASSUME NEW e \in Execution, NEW a \in Actor, FinalizeSettle(e, a)
       PROVE  TypeOK'
  <2>1. StoredType'
    BY <1>28 DEF TypeOK, StoredType, FinalizeSettle, Kind, Persisted,
       TaskStateOf, Status, NONTERMINAL, TERMINAL_EXECUTION, TaskState,
       TERMINAL_TASK
  <2>2. FileType'
    BY <1>28 DEF TypeOK, FileType, FinalizeSettle, release_lock_if_owner,
       files
  <2>3. ProcessType'
    BY <1>28 DEF TypeOK, ProcessType, FinalizeSettle, Emitted, Kind,
       TaskStateOf, TaskState, TERMINAL_TASK
  <2>4. ServerType'
    BY <1>28 DEF TypeOK, ServerType, FinalizeSettle, Actor, Idle
  <2>5. RuntimeType'
    BY <1>28, RuntimeUpdate DEF TypeOK, RuntimeType, FinalizeSettle
  <2>6. FinalizeType'
    BY <1>28 DEF TypeOK, FinalizeType, FinalizeSettle, FinalizeAt, Actor
  <2>. QED
    BY <1>28, <2>1, <2>2, <2>3, <2>4, <2>5, <2>6 DEF TypeOK, FinalizeSettle,
       CoroutineType
<1>29. ASSUME NEW e \in Execution, NEW a \in Actor, FinalizeRelease(e, a)
       PROVE  TypeOK'
  <2>1. FileType'
    BY <1>29 DEF TypeOK, FileType, FinalizeRelease, files
  <2>2. ServerType'
    BY <1>29 DEF TypeOK, ServerType, FinalizeRelease, Actor, Idle
  <2>3. RuntimeType'
    BY <1>29, RuntimeUpdate DEF TypeOK, RuntimeType, FinalizeRelease
  <2>4. FinalizeType'
    BY <1>29 DEF TypeOK, FinalizeType, FinalizeRelease, FinalizeAt, Actor
  <2>. QED
    BY <1>29, <2>1, <2>2, <2>3, <2>4 DEF TypeOK, FinalizeRelease, StoredType,
       ProcessType, CoroutineType, stored
<1>30. ASSUME NEW e \in Execution, NEW a \in Actor, FinalizeRaises(e, a)
       PROVE  TypeOK'
  <2>1. UNCHANGED <<stored, files, worker, crashes>>
    BY <1>30 DEF FinalizeRaises
  <2>2. StoredType' /\ FileType'
    BY <2>1 DEF TypeOK, StoredType, FileType, stored, files
  <2>3. CASE Volatile
    <3>1. worker' \in [Execution -> {"none", "live", "dead", "recycled"}]
      BY <2>1 DEF TypeOK, ProcessType
    <3>2. crashes' \in 0..MaxCrashes
      BY <2>1 DEF TypeOK, ServerType
    <3>. QED
      BY <2>2, <2>3, <3>1, <3>2, VolatileType, VolatileProcess DEF TypeOK
  <2>4. CASE ~Volatile
    <3>1. RuntimeType'
      <4>1. rt' = [rt EXCEPT ![e].cleanup = "none"]
        BY <1>30, <2>4 DEF FinalizeRaises
      <4>. QED
        BY <4>1, RuntimeUpdate DEF TypeOK, RuntimeType
    <3>2. CoroutineType'
      <4>1. \/ Leave(e, "finally", "raise") \/ Goto(e, "outer")
            \/ Goto(e, "done") \/ UNCHANGED co
        BY <1>30, <2>4 DEF FinalizeRaises
      <4>. QED
        BY <4>1, GotoTyped, LeaveTyped DEF TypeOK, CoroutineType, At, Exit
    <3>3. FinalizeType'
      BY <1>30, <2>4 DEF TypeOK, FinalizeType, FinalizeRaises, FinalizeAt
    <3>4. ServerType'
      BY <1>30, <2>4 DEF TypeOK, ServerType, FinalizeRaises, Idle, Actor
    <3>5. ProcessType'
      BY <1>30, <2>4 DEF TypeOK, ProcessType, FinalizeRaises
    <3>. QED
      BY <2>2, <3>1, <3>2, <3>3, <3>4, <3>5 DEF TypeOK
  <2>. QED
    BY <2>3, <2>4
<1>31. ASSUME NEW e \in Execution, NEW a \in Actor, FinalizeGate(e, a)
       PROVE  TypeOK'
  <2>1. RuntimeType'
    BY <1>31 DEF TypeOK, RuntimeType, FinalizeGate, Runtime
  <2>2. FinalizeType'
    BY <1>31 DEF TypeOK, FinalizeType, FinalizeGate, FinalizeAt, Actor
  <2>. QED
    BY <1>31, <2>1, <2>2 DEF TypeOK, FinalizeGate, StoredType, FileType,
       ProcessType, ServerType, CoroutineType, stored, files
<1>32. ASSUME NEW e \in Execution, NEW a \in Actor, FinalizeStop(e, a)
       PROVE  TypeOK'
  <2>1. ProcessType'
    BY <1>32 DEF TypeOK, ProcessType, FinalizeStop, TaskState, TERMINAL_TASK
  <2>2. FinalizeType'
    BY <1>32 DEF TypeOK, FinalizeType, FinalizeStop, FinalizeAt, Actor
  <2>. QED
    BY <1>32, <2>1, <2>2 DEF TypeOK, FinalizeStop, StoredType, FileType,
       ServerType, RuntimeType, CoroutineType, stored, files
<1>33. ASSUME NEW e \in Execution, Cancel(e)
       PROVE  TypeOK'
  <2>1. StoredType'
    BY <1>33 DEF TypeOK, StoredType, Cancel, Persisted, Status, NONTERMINAL,
       TERMINAL_EXECUTION, TaskState, TERMINAL_TASK, stored
  <2>2. FileType'
    BY <1>33 DEF TypeOK, FileType, Cancel, release_lock_if_owner, files
  <2>3. ProcessType'
    BY <1>33 DEF TypeOK, ProcessType, Cancel, Emitted, TaskState,
       TERMINAL_TASK
  <2>4. ServerType'
    BY <1>33 DEF TypeOK, ServerType, Cancel, Actor, Idle
  <2>5. CoroutineType'
    <3>1. CASE co[e].at = "queued"
      BY <1>33, <3>1 DEF TypeOK, CoroutineType, Cancel, Disturbed, Coroutine, At
    <3>2. CASE co[e].at \in {"none", "done"}
      BY <1>33, <3>2 DEF TypeOK, CoroutineType, Cancel, Disturbed
    <3>3. CASE co[e].at \notin {"none", "done", "queued"}
      <4>1. co' = [co EXCEPT ![e].interrupted = TRUE]
        BY <1>33, <3>3 DEF Cancel, Disturbed
      <4>. QED
        BY <4>1 DEF TypeOK, CoroutineType, Coroutine
    <3>. QED
      BY <3>1, <3>2, <3>3
  <2>6. FinalizeType'
    BY <1>33 DEF TypeOK, FinalizeType, Cancel, FinalizeAt, Actor
  <2>. QED
    BY <1>33, <2>1, <2>2, <2>3, <2>4, <2>5, <2>6 DEF TypeOK, Cancel,
       RuntimeType
<1>34. ASSUME NEW e \in Execution, CancelStop(e)
       PROVE  TypeOK'
  <2>1. ProcessType'
    BY <1>34 DEF TypeOK, ProcessType, CancelStop, TaskState, TERMINAL_TASK
  <2>. QED
    BY <1>34, <2>1 DEF TypeOK, CancelStop, StoredType, FileType, ServerType,
       RuntimeType, CoroutineType, FinalizeType, stored, files
<1>35. ASSUME NEW e \in Execution, CancelAnswer(e)
       PROVE  TypeOK'
  <2>1. StoredType'
    BY <1>35 DEF TypeOK, StoredType, CancelAnswer, Persisted, Status,
       NONTERMINAL, TERMINAL_EXECUTION, TaskState, TERMINAL_TASK
  <2>2. FileType'
    BY <1>35 DEF TypeOK, FileType, CancelAnswer, release_lock_if_owner, files
  <2>3. ProcessType'
    BY <1>35 DEF TypeOK, ProcessType, CancelAnswer, Emitted, TaskState,
       TERMINAL_TASK
  <2>. QED
    BY <1>35, <2>1, <2>2, <2>3 DEF TypeOK, CancelAnswer, ServerType,
       RuntimeType, CoroutineType, FinalizeType
<1>36. ASSUME NEW e \in Execution, CancelReturns(e)
       PROVE  TypeOK'
  <2>1. ServerType'
    BY <1>36 DEF TypeOK, ServerType, CancelReturns, Actor, Idle
  <2>. QED
    BY <1>36, <2>1 DEF TypeOK, CancelReturns, StoredType, FileType,
       ProcessType, RuntimeType, CoroutineType, FinalizeType, stored, files,
       coroutines
<1>37. ASSUME NEW e \in Execution, ShutdownFinalize(e)
       PROVE  TypeOK'
  <2>1. ServerType'
    BY <1>37 DEF TypeOK, ServerType, ShutdownFinalize, Actor, Idle
  <2>2. FinalizeType'
    BY <1>37 DEF TypeOK, FinalizeType, ShutdownFinalize, FinalizeAt, Actor
  <2>. QED
    BY <1>37, <2>1, <2>2 DEF TypeOK, ShutdownFinalize, StoredType, FileType,
       ProcessType, RuntimeType, CoroutineType, stored, files
<1>38. ASSUME NEW e \in Execution, CrashBetween(e)
       PROVE  TypeOK'
  <2>1. Volatile
    BY <1>38 DEF CrashBetween
  <2>2. crashes' \in 0..MaxCrashes
    BY <1>38, ServerAssumption DEF TypeOK, ServerType, CrashBetween
  <2>3. StoredType'
    BY <1>38
    DEF TypeOK, StoredType, CrashBetween, Persisted, Kind, TaskStateOf, stored,
        Status, NONTERMINAL, TERMINAL_EXECUTION, TaskState, TERMINAL_TASK
  <2>4. FileType'
    BY <1>38 DEF TypeOK, FileType, CrashBetween, files
  <2>5. worker' \in [Execution -> {"none", "live", "dead", "recycled"}]
    BY <1>38 DEF TypeOK, ProcessType, CrashBetween, StoppedWorker
  <2>. QED
    BY <2>1, <2>2, <2>3, <2>4, <2>5, VolatileType, VolatileProcess DEF TypeOK
<1>39. ASSUME NEW e \in Execution, WorkerExits(e)
       PROVE  TypeOK'
  <2>1. ProcessType'
    BY <1>39 DEF TypeOK, ProcessType, WorkerExits, TaskState, TERMINAL_TASK,
       coroutines
  <2>. QED
    BY <1>39, <2>1 DEF TypeOK, WorkerExits, StoredType, FileType, ServerType,
       RuntimeType, CoroutineType, FinalizeType, stored, files, coroutines
<1>40. ASSUME NEW e \in Execution, PidRecycled(e)
       PROVE  TypeOK'
  <2>1. ProcessType'
    BY <1>40 DEF TypeOK, ProcessType, PidRecycled, TaskState, TERMINAL_TASK,
       coroutines
  <2>. QED
    BY <1>40, <2>1 DEF TypeOK, PidRecycled, StoredType, FileType, ServerType,
       RuntimeType, CoroutineType, FinalizeType, stored, files, coroutines
<1>41. ASSUME NEW e \in Execution, StrangerExits(e)
       PROVE  TypeOK'
  <2>1. ProcessType'
    BY <1>41 DEF TypeOK, ProcessType, StrangerExits, TaskState, TERMINAL_TASK,
       coroutines
  <2>. QED
    BY <1>41, <2>1 DEF TypeOK, StrangerExits, StoredType, FileType,
       ServerType, RuntimeType, CoroutineType, FinalizeType, stored, files,
       coroutines
<1>42. ASSUME NEW e \in Execution, ReconcileFailed(e)
       PROVE  TypeOK'
  <2>1. StoredType'
    BY <1>42 DEF TypeOK, StoredType, ReconcileFailed, Persisted, Status,
       NONTERMINAL, TERMINAL_EXECUTION, TaskState, TERMINAL_TASK
  <2>2. FileType'
    BY <1>42 DEF TypeOK, FileType, ReconcileFailed, release_lock_if_owner
  <2>3. ProcessType'
    BY <1>42 DEF TypeOK, ProcessType, ReconcileFailed, StoppedWorker,
       TaskState, TERMINAL_TASK, coroutines
  <2>4. ServerType'
    BY <1>42 DEF TypeOK, ServerType, ReconcileFailed, Actor, Idle
  <2>. QED
    BY <1>42, <2>1, <2>2, <2>3, <2>4 DEF TypeOK, ReconcileFailed, RuntimeType,
       CoroutineType, FinalizeType, coroutines
<1>43. ASSUME NEW e \in Execution, ReconcileRecovery(e)
       PROVE  TypeOK'
  <2>1. StoredType'
    BY <1>43 DEF TypeOK, StoredType, ReconcileRecovery, Persisted, Status,
       NONTERMINAL, TERMINAL_EXECUTION, TaskState, TERMINAL_TASK
  <2>2. ServerType'
    BY <1>43 DEF TypeOK, ServerType, ReconcileRecovery, Actor, Idle
  <2>. QED
    BY <1>43, <2>1, <2>2 DEF TypeOK, ReconcileRecovery, FileType, ProcessType,
       RuntimeType, CoroutineType, FinalizeType, files, coroutines
<1>44. ASSUME NEW e \in Execution, ReconcileRaises(e)
       PROVE  TypeOK'
  <2>1. StoredType'
    BY <1>44 DEF TypeOK, StoredType, ReconcileRaises, Persisted, Status,
       NONTERMINAL, TERMINAL_EXECUTION, TaskState, TERMINAL_TASK
  <2>2. ProcessType'
    BY <1>44 DEF TypeOK, ProcessType, ReconcileRaises, StoppedWorker,
       TaskState, TERMINAL_TASK, coroutines
  <2>3. ServerType'
    BY <1>44 DEF TypeOK, ServerType, ReconcileRaises, Actor, Idle
  <2>. QED
    BY <1>44, <2>1, <2>2, <2>3 DEF TypeOK, ReconcileRaises, FileType,
       RuntimeType, CoroutineType, FinalizeType, files, coroutines
<1>45. CASE Shutdown
  <2>1. ServerType'
    BY <1>45 DEF TypeOK, ServerType, Shutdown, Actor, Idle
  <2>. QED
    BY <1>45, <2>1 DEF TypeOK, Shutdown, StoredType, FileType, ProcessType,
       RuntimeType, CoroutineType, FinalizeType, stored, files, coroutines
<1>46. CASE ShutdownReconcile
  <2>1. ServerType'
    BY <1>46 DEF TypeOK, ServerType, ShutdownReconcile, Actor, Nonterminal
  <2>. QED
    BY <1>46, <2>1 DEF TypeOK, ShutdownReconcile, StoredType, FileType,
       ProcessType, RuntimeType, CoroutineType, FinalizeType, stored, files,
       coroutines
<1>47. CASE Crash
  <2>1. Volatile /\ UNCHANGED <<stored, files, worker>>
    BY <1>47 DEF Crash
  <2>2. crashes' \in 0..MaxCrashes
    BY <1>47, ServerAssumption DEF TypeOK, ServerType, Crash
  <2>3. StoredType' /\ FileType'
    BY <2>1 DEF TypeOK, StoredType, FileType, stored, files
  <2>. QED
    BY <2>1, <2>2, <2>3, VolatileType, VolatileProcess DEF TypeOK, ProcessType
<1>48. CASE Restart
  <2>1. ServerType'
    BY <1>48 DEF TypeOK, ServerType, Restart, Actor, Nonterminal
  <2>. QED
    BY <1>48, <2>1 DEF TypeOK, Restart, StoredType, FileType, ProcessType,
       RuntimeType, CoroutineType, FinalizeType, stored, files, coroutines
<1>49. CASE ReconcileDone
  <2>1. StoredType'
    <3>1. \A e \in Execution : Healed[e] \in TaskState
      BY DEF TypeOK, StoredType, Healed, TaskStateOf, TaskState, TERMINAL_TASK,
             TERMINAL_EXECUTION
    <3>. QED
      BY <1>49, <3>1 DEF TypeOK, StoredType, ReconcileDone, Healed
  <2>2. FileType' /\ UNCHANGED <<worker, crashes>>
    BY <1>49 DEF TypeOK, FileType, ReconcileDone, files
  <2>3. CASE Volatile
    BY <2>1, <2>2, <2>3, VolatileType, VolatileProcess
    DEF TypeOK, ServerType, ProcessType
  <2>4. CASE ~Volatile
    <3>1. /\ mode' = "serving"
          /\ UNCHANGED <<todo, loop, held, coroutines, thread, events>>
      BY <1>49, <2>4 DEF ReconcileDone
    <3>. QED
      BY <2>1, <2>2, <3>1
      DEF TypeOK, ServerType, ProcessType, RuntimeType, CoroutineType,
          FinalizeType, coroutines
  <2>. QED
    BY <2>3, <2>4
<1>50. CASE UNCHANGED vars
  BY <1>50
  DEF TypeOK, StoredType, FileType, ProcessType, ServerType, RuntimeType,
      CoroutineType, FinalizeType, vars
<1>. QED
  BY <1>1, <1>2, <1>3, <1>4, <1>4a, <1>5, <1>6, <1>7, <1>8, <1>9,
     <1>10, <1>11, <1>12, <1>13, <1>14, <1>15, <1>16, <1>17, <1>18, <1>19, <1>20, <1>21,
     <1>22, <1>23, <1>24, <1>25, <1>26, <1>27, <1>28, <1>29, <1>30, <1>31,
     <1>32, <1>33, <1>34, <1>35, <1>36, <1>37, <1>38, <1>39, <1>40, <1>41,
     <1>42, <1>43, <1>44, <1>45, <1>46, <1>47, <1>48, <1>49, <1>50
  DEF Next, SpawnThread, ExecuteStep, FinalizeStep, FinalizeThread, Reconcile

\* Every reachable state is well typed: each field of the registry, of the
\* workspace files and of the coroutines only takes values the code gives it.
THEOREM TypeCorrect == Spec => []TypeOK
<1>. QED
  BY InitTyped, StepTyped, PTL DEF Spec

-----------------------------------------------------------------------------
(* The protocol of a launch.                                               *)

\* The last part of LaunchProtocol for one execution, and all its parts.
Settled(e) ==
  row[e] \in {"completed", "canceled", "rejected"} => worker[e] # "live"
Good(e) ==
  /\ Fresh(e) /\ Scheduled(e) /\ Gated(e)
  /\ Launched(e) /\ Stopping(e) /\ Settled(e)

\* A step that changes nothing of an execution that Good speaks of.
Untouched(e) ==
  /\ UNCHANGED <<row[e], pid[e], worker[e], thread[e], cpc[e]>>
  /\ UNCHANGED <<rt[e], co[e], fz[e]>>
  /\ mode' = mode
  /\ mode = "closing" => todo' \subseteq todo

\* Such a step keeps the execution good.
LEMMA Frame ==
  ASSUME NEW e \in Execution, Good(e), Untouched(e)
  PROVE  Good(e)'
  BY DEF Good, Untouched, Fresh, Scheduled, Gated, Launched, Stopping, Settled

\* A coroutine that moves on past its launch and its wait, while the gate
\* stays as closed as it was, keeps its execution good.
LEMMA Moved ==
  ASSUME NEW e \in Execution, Good(e),
         UNCHANGED <<row[e], pid[e], worker[e], thread[e], cpc[e]>>,
         UNCHANGED <<mode, todo>>,
         rt'[e].registered = rt[e].registered,
         rt'[e].owned = rt[e].owned,
         rt[e].blocked => rt'[e].blocked,
         \A b \in Actor : fz'[e][b] \in {fz[e][b], "idle", "enter", "gate"},
         co[e].at \notin {"none", "queued"},
         co'[e].at = co[e].at
           \/ co'[e].at \notin {"none", "queued", "waiting", "exited"}
  PROVE  Good(e)'
  BY DEF Good, Fresh, Scheduled, Gated, Launched, Stopping, Settled

\* Most steps belong to one execution: it is enough to look at that one.
LEMMA Local ==
  ASSUME LaunchProtocol, NEW e \in Execution, Good(e)',
         \A f \in Execution \ {e} : Untouched(f),
         loop'[2] = "send" => mode' = "serving"
  PROVE  LaunchProtocol'
<1>1. ASSUME NEW f \in Execution PROVE Good(f)'
  <2>1. CASE f = e
    BY <2>1
  <2>2. CASE f # e
    BY <2>2, Frame DEF LaunchProtocol, Good, SettledIsStopped, Settled
  <2>. QED
    BY <2>1, <2>2
<1>. QED
  BY <1>1 DEF LaunchProtocol, Good, SettledIsStopped, Settled

\* After the process has ended only the registry and the workers are left.
LEMMA Died ==
  ASSUME Volatile,
         \A e \in Execution :
           /\ row'[e] \in {"none", "claimed"} =>
                worker'[e] = "none" /\ ~pid'[e]
           /\ Settled(e)'
  PROVE  LaunchProtocol'
<1>1. /\ mode' = "down" /\ todo' = {} /\ loop' = Idle
      /\ \A e \in Execution :
           /\ rt'[e] = NewRuntime /\ co'[e] = NewCoroutine
           /\ fz'[e] = [a \in Actor |-> "idle"]
           /\ cpc'[e] = "idle" /\ thread'[e] = "none"
  BY DEF Volatile
<1>2. \A e \in Execution : Good(e)'
  BY <1>1 DEF Good, Fresh, Scheduled, Gated, Launched, Stopping, NewRuntime,
     NewCoroutine
<1>3. loop'[2] # "send"
  BY <1>1 DEF Idle
<1>. QED
  BY <1>2, <1>3 DEF LaunchProtocol, Good, SettledIsStopped, Settled

\* The first state satisfies the protocol: nothing has been sent.
LEMMA ProtocolInit == Init => LaunchProtocol
<1>. SUFFICES ASSUME Init
              PROVE  LaunchProtocol
  OBVIOUS
<1>1. loop[2] # "send"
  BY DEF Init, Idle
<1>2. \A e \in Execution :
        /\ row[e] = "none" /\ pid[e] = FALSE /\ worker[e] = "none"
        /\ rt[e] = NewRuntime /\ co[e] = NewCoroutine
        /\ fz[e] = [a \in Actor |-> "idle"]
        /\ cpc[e] = "idle" /\ thread[e] = "none"
  BY DEF Init
<1>3. todo = {}
  BY DEF Init
<1>. QED
  BY <1>1, <1>2, <1>3 DEF LaunchProtocol, Fresh, Scheduled, Gated, Launched,
     Stopping, SettledIsStopped, NewRuntime, NewCoroutine

\* Every step keeps the launch protocol.
LEMMA ProtocolStep ==
  TypeOK /\ LaunchProtocol /\ [Next]_vars => LaunchProtocol'
<1>. SUFFICES ASSUME TypeOK, LaunchProtocol, [Next]_vars
              PROVE  LaunchProtocol'
  OBVIOUS
<1>. \A e \in Execution : Good(e)
  BY DEF LaunchProtocol, Good, SettledIsStopped, Settled
<1>1. ASSUME NEW e \in Execution, Send(e)
       PROVE  LaunchProtocol'
  <2>1. \A f \in Execution \ {e} : Untouched(f)
    BY <1>1 DEF Untouched, Send, files, coroutines, TypeOK, StoredType
  <2>2. Good(e)'
    BY <1>1 DEF LaunchProtocol, Good, Fresh, Scheduled, Gated, Launched,
       Stopping, Settled, Send, files, coroutines, Idle, LoopFree, Up, TypeOK,
       CoroutineType, ProcessType, FinalizeType, StoredType, RuntimeType,
       Coroutine, Runtime
  <2>3. loop'[2] = "send" => mode' = "serving"
    BY <1>1 DEF LaunchProtocol, Send, Idle, LoopFree
  <2>. QED
    BY <2>1, <2>2, <2>3, Local
<1>2. ASSUME NEW e \in Execution, Dispatch(e)
       PROVE  LaunchProtocol'
  <2>1. \A f \in Execution \ {e} : Untouched(f)
    BY <1>2 DEF Untouched, Dispatch, files, Goto, TypeOK, CoroutineType,
       StoredType, Coroutine
  <2>2. Good(e)'
    <3>1. Fresh(e)'
      BY <1>2 DEF LaunchProtocol, Good, Fresh, Scheduled, Gated, Launched,
         Stopping, Settled, Dispatch, files, Goto, Idle, Runs, try_dispatch,
         TypeOK, CoroutineType, StoredType, ProcessType, Coroutine
    <3>2. Scheduled(e)'
      <4>1. UNCHANGED <<pid, worker, thread, rt, fz, mode, todo>>
        BY <1>2 DEF Dispatch
      <4>2. CASE ~try_dispatch(e)
        BY <1>2, <4>1, <4>2 DEF Dispatch, Good, Scheduled
      <4>3. CASE try_dispatch(e)
        <5>1. row'[e] = "running" /\ co'[e] = [co[e] EXCEPT !.at = "queued"]
          BY <1>2, <4>3
          DEF TypeOK, StoredType, CoroutineType, Dispatch, Goto
        <5>2. mode = "serving"
          BY <1>2 DEF LaunchProtocol, Dispatch, Runs
        <5>3. co[e].at = "none" /\ worker[e] = "none" /\ ~pid[e]
          BY <4>3 DEF try_dispatch, Good, Fresh
        <5>4. /\ co'[e].at = "queued" /\ co'[e].rel = co[e].rel
              /\ co'[e].interrupted = co[e].interrupted
          BY <5>1 DEF TypeOK, CoroutineType, Coroutine
        <5>. QED
          BY <4>1, <5>1, <5>2, <5>3, <5>4 DEF Good, Scheduled
      <4>. QED
        BY <4>2, <4>3
    <3>3. Gated(e)'
      BY <1>2 DEF LaunchProtocol, Good, Fresh, Scheduled, Gated, Launched,
         Stopping, Settled, Dispatch, files, Goto, Idle, Runs, try_dispatch,
         TypeOK, StoredType, RuntimeType, ProcessType, Runtime
    <3>4. Launched(e)'
      BY <1>2 DEF LaunchProtocol, Good, Fresh, Scheduled, Gated, Launched,
         Stopping, Settled, Dispatch, files, Goto, Idle, Runs, try_dispatch,
         TypeOK, CoroutineType, RuntimeType, ProcessType, Coroutine, Runtime
    <3>5. Settled(e)'
      BY <1>2 DEF LaunchProtocol, Good, Fresh, Scheduled, Gated, Launched,
         Stopping, Settled, Dispatch, files, Goto, Idle, Runs, try_dispatch,
         TypeOK, StoredType, ProcessType
    <3>. QED
      BY <1>2, <3>1, <3>2, <3>3, <3>4, <3>5 DEF LaunchProtocol, Good,
         Stopping, Dispatch, files
  <2>3. loop'[2] = "send" => mode' = "serving"
    BY <1>2 DEF LaunchProtocol, Dispatch, Idle, Runs
  <2>. QED
    BY <2>1, <2>2, <2>3, Local
<1>3. ASSUME NEW e \in Execution, SaveTask(e)
       PROVE  LaunchProtocol'
  <2>1. \A f \in Execution \ {e} : Untouched(f)
    BY <1>3 DEF Untouched, SaveTask, files, coroutines
  <2>2. Good(e)'
    BY <1>3 DEF LaunchProtocol, Good, Fresh, Scheduled, Gated, Launched,
       Stopping, Settled, SaveTask, files, coroutines, Idle, LoopFree, Up,
       TypeOK, CoroutineType, ProcessType, FinalizeType, StoredType,
       RuntimeType, Coroutine, Runtime
  <2>3. loop'[2] = "send" => mode' = "serving"
    BY <1>3 DEF LaunchProtocol, SaveTask, Idle, LoopFree
  <2>. QED
    BY <2>1, <2>2, <2>3, Local
<1>4. ASSUME NEW e \in Execution, Reject(e)
       PROVE  LaunchProtocol'
  <2>1. \A f \in Execution \ {e} : Untouched(f)
    BY <1>4 DEF Untouched, Reject, files, Goto, TypeOK, CoroutineType,
       StoredType, RuntimeType, Coroutine, Runtime
  <2>2. Good(e)'
    BY <1>4 DEF LaunchProtocol, Good, Fresh, Scheduled, Gated, Launched,
       Stopping, Settled, Reject, files, Goto, Idle, LoopFree, Resumes, Up,
       TypeOK, CoroutineType, ProcessType, FinalizeType, StoredType,
       RuntimeType, Coroutine, Runtime
  <2>3. loop'[2] = "send" => mode' = "serving"
    BY <1>4 DEF LaunchProtocol, Reject, Idle, LoopFree
  <2>. QED
    BY <2>1, <2>2, <2>3, Local
<1>4a. ASSUME NEW e \in Execution, EvidenceFails(e)
        PROVE  LaunchProtocol'
  <2>1. \A f \in Execution \ {e} : Untouched(f)
    BY <1>4a DEF Untouched, EvidenceFails, stored, files, Leave, TypeOK,
       CoroutineType, RuntimeType, Coroutine, Runtime
  <2>2. Good(e)'
    BY <1>4a DEF LaunchProtocol, Good, Fresh, Scheduled, Gated, Launched,
       Stopping, Settled, EvidenceFails, stored, files, Idle, Leave, LoopFree,
       Resumes, Up, TypeOK, CoroutineType, ProcessType, FinalizeType,
       StoredType, RuntimeType, Coroutine, Runtime
  <2>3. loop'[2] = "send" => mode' = "serving"
    BY <1>4a DEF LaunchProtocol, EvidenceFails
  <2>. QED
    BY <2>1, <2>2, <2>3, Local
<1>5. ASSUME NEW e \in Execution, Prepare(e)
       PROVE  LaunchProtocol'
  <2>1. \A f \in Execution \ {e} : Untouched(f)
    BY <1>5 DEF Untouched, Prepare, stored, Goto, TypeOK, CoroutineType,
       RuntimeType, ProcessType, Coroutine, Runtime
  <2>2. Good(e)'
    BY <1>5 DEF LaunchProtocol, Good, Fresh, Scheduled, Gated, Launched,
       Stopping, Settled, Prepare, stored, Goto, Idle, LoopFree, Resumes, Up,
       TypeOK, CoroutineType, ProcessType, FinalizeType, StoredType,
       RuntimeType, Coroutine, Runtime
  <2>3. loop'[2] = "send" => mode' = "serving"
    BY <1>5 DEF LaunchProtocol, Prepare, Idle, LoopFree
  <2>. QED
    BY <2>1, <2>2, <2>3, Local
<1>6. ASSUME NEW e \in Execution, PrepareRaises(e)
       PROVE  LaunchProtocol'
  <2>1. \A f \in Execution \ {e} : Untouched(f)
    BY <1>6 DEF Untouched, PrepareRaises, stored, Leave, TypeOK,
       CoroutineType, RuntimeType, Coroutine, Runtime
  <2>2. Good(e)'
    BY <1>6 DEF LaunchProtocol, Good, Fresh, Scheduled, Gated, Launched,
       Stopping, Settled, PrepareRaises, stored, Idle, Leave, LoopFree,
       Resumes, Up, TypeOK, CoroutineType, ProcessType, FinalizeType,
       StoredType, RuntimeType, Coroutine, Runtime
  <2>3. loop'[2] = "send" => mode' = "serving"
    BY <1>6 DEF LaunchProtocol, PrepareRaises, Idle, LoopFree
  <2>. QED
    BY <2>1, <2>2, <2>3, Local
<1>7. ASSUME NEW e \in Execution, SpawnReturned(e)
       PROVE  LaunchProtocol'
  <2>1. \A f \in Execution \ {e} : Untouched(f)
    BY <1>7 DEF Untouched, SpawnReturned, stored, files, Goto, Leave, TypeOK,
       CoroutineType, Coroutine
  <2>2. Good(e)'
    BY <1>7 DEF LaunchProtocol, Good, Fresh, Scheduled, Gated, Launched,
       Stopping, Settled, SpawnReturned, stored, files, Goto, Idle, Leave,
       LoopFree, Resumes, Up, TypeOK, CoroutineType, ProcessType,
       FinalizeType, StoredType, RuntimeType, Coroutine, Runtime
  <2>3. loop'[2] = "send" => mode' = "serving"
    BY <1>7 DEF LaunchProtocol, SpawnReturned, Idle, LoopFree
  <2>. QED
    BY <2>1, <2>2, <2>3, Local
<1>8. ASSUME NEW e \in Execution,
             NEW outcome \in {"completed", "failed"}, Deliver(e, outcome)
       PROVE  LaunchProtocol'
  <2>1. \A f \in Execution \ {e} : Untouched(f)
    BY <1>8 DEF Untouched, Deliver, files, Leave, TypeOK, CoroutineType,
       StoredType, RuntimeType, Coroutine, Runtime
  <2>2. Good(e)'
    BY <1>8 DEF LaunchProtocol, Good, Fresh, Scheduled, Gated, Launched,
       Stopping, Settled, Deliver, files, Idle, Leave, LoopFree, Resumes, Up,
       TypeOK, CoroutineType, ProcessType, FinalizeType, StoredType,
       RuntimeType, Coroutine, Runtime
  <2>3. loop'[2] = "send" => mode' = "serving"
    BY <1>8 DEF LaunchProtocol, Deliver, Idle, LoopFree
  <2>. QED
    BY <2>1, <2>2, <2>3, Local
<1>9. ASSUME NEW e \in Execution, DeliverNothing(e)
       PROVE  LaunchProtocol'
  <2>1. \A f \in Execution \ {e} : Untouched(f)
    BY <1>9 DEF Untouched, DeliverNothing, stored, files, Leave, TypeOK,
       CoroutineType, Coroutine
  <2>2. Good(e)'
    BY <1>9 DEF LaunchProtocol, Good, Fresh, Scheduled, Gated, Launched,
       Stopping, Settled, DeliverNothing, stored, files, Idle, Leave,
       LoopFree, Resumes, Up, TypeOK, CoroutineType, ProcessType,
       FinalizeType, StoredType, RuntimeType, Coroutine, Runtime
  <2>3. loop'[2] = "send" => mode' = "serving"
    BY <1>9 DEF LaunchProtocol, DeliverNothing, Idle, LoopFree
  <2>. QED
    BY <2>1, <2>2, <2>3, Local
<1>10. ASSUME NEW e \in Execution, Expire(e)
       PROVE  LaunchProtocol'
  <2>1. \A f \in Execution \ {e} : Untouched(f)
    BY <1>10 DEF Untouched, Expire, stored, files, Goto, TypeOK,
       CoroutineType, FinalizeType, Coroutine
  <2>2. Good(e)'
    BY <1>10 DEF LaunchProtocol, Good, Fresh, Scheduled, Gated, Launched,
       Stopping, Settled, Expire, stored, files, Goto, Idle, LoopFree,
       Resumes, Up, TypeOK, CoroutineType, ProcessType, FinalizeType,
       StoredType, RuntimeType, Coroutine, Runtime
  <2>3. loop'[2] = "send" => mode' = "serving"
    BY <1>10 DEF LaunchProtocol, Expire, Idle, LoopFree
  <2>. QED
    BY <2>1, <2>2, <2>3, Local
<1>11. ASSUME NEW e \in Execution, Finally(e)
       PROVE  LaunchProtocol'
  <2>1. \A f \in Execution \ {e} : Untouched(f)
    BY <1>11 DEF Untouched, Finally, stored, files, Goto, TypeOK,
       CoroutineType, Coroutine
  <2>2. Good(e)'
    BY <1>11 DEF LaunchProtocol, Good, Fresh, Scheduled, Gated, Launched,
       Stopping, Settled, Finally, stored, files, Goto, Idle, OwnedAlive,
       Runs, is_owned_alive, TypeOK, CoroutineType, ProcessType, FinalizeType,
       StoredType, RuntimeType, Coroutine, Runtime
  <2>3. loop'[2] = "send" => mode' = "serving"
    BY <1>11 DEF LaunchProtocol, Finally, Idle, Runs
  <2>. QED
    BY <2>1, <2>2, <2>3, Local
<1>12. ASSUME NEW e \in Execution, Except(e)
       PROVE  LaunchProtocol'
  <2>1. \A f \in Execution \ {e} : Untouched(f)
    BY <1>12 DEF Untouched, Except, files, Goto, TypeOK, CoroutineType,
       FinalizeType, StoredType, Coroutine
  <2>2. Good(e)'
    BY <1>12 DEF LaunchProtocol, Good, Fresh, Scheduled, Gated, Launched,
       Stopping, Settled, Except, files, Goto, Idle, Runs, TypeOK,
       CoroutineType, ProcessType, FinalizeType, StoredType, RuntimeType,
       Coroutine, Runtime
  <2>3. loop'[2] = "send" => mode' = "serving"
    BY <1>12 DEF LaunchProtocol, Except, Idle, Runs
  <2>. QED
    BY <2>1, <2>2, <2>3, Local
<1>13. ASSUME NEW e \in Execution, Outer(e)
       PROVE  LaunchProtocol'
  <2>1. \A f \in Execution \ {e} : Untouched(f)
    BY <1>13 DEF Untouched, Outer, stored, files, Goto, TypeOK, CoroutineType,
       FinalizeType, Coroutine
  <2>2. Good(e)'
    BY <1>13 DEF LaunchProtocol, Good, Fresh, Scheduled, Gated, Launched,
       Stopping, Settled, Outer, stored, files, Goto, Idle, OwnedAlive, Runs,
       is_owned_alive, TypeOK, CoroutineType, ProcessType, FinalizeType,
       StoredType, RuntimeType, Coroutine, Runtime
  <2>3. loop'[2] = "send" => mode' = "serving"
    BY <1>13 DEF LaunchProtocol, Outer, Idle, Runs
  <2>. QED
    BY <2>1, <2>2, <2>3, Local
<1>14. ASSUME NEW e \in Execution, Drained(e)
       PROVE  LaunchProtocol'
  <2>1. \A f \in Execution \ {e} : Untouched(f)
    BY <1>14 DEF Untouched, Drained, stored, files, Goto, TypeOK,
       CoroutineType, Coroutine
  <2>2. Good(e)'
    BY <1>14 DEF LaunchProtocol, Good, Fresh, Scheduled, Gated, Launched,
       Stopping, Settled, Drained, stored, files, Goto, Idle, LoopFree,
       Resumes, Up, TypeOK, CoroutineType, ProcessType, FinalizeType,
       StoredType, RuntimeType, Coroutine, Runtime
  <2>3. loop'[2] = "send" => mode' = "serving"
    BY <1>14 DEF LaunchProtocol, Drained, Idle, LoopFree
  <2>. QED
    BY <2>1, <2>2, <2>3, Local
<1>15. ASSUME NEW e \in Execution, Pop(e)
       PROVE  LaunchProtocol'
  <2>1. \A f \in Execution \ {e} : Untouched(f)
    BY <1>15 DEF Untouched, Pop, stored, files, Goto, TypeOK, CoroutineType,
       RuntimeType, Coroutine, Runtime
  <2>2. Good(e)'
    BY <1>15 DEF LaunchProtocol, Good, Fresh, Scheduled, Gated, Launched,
       Stopping, Settled, Pop, stored, files, Goto, Idle, Runs, TypeOK,
       CoroutineType, ProcessType, FinalizeType, StoredType, RuntimeType,
       Coroutine, Runtime
  <2>3. loop'[2] = "send" => mode' = "serving"
    BY <1>15 DEF LaunchProtocol, Pop, Idle, Runs
  <2>. QED
    BY <2>1, <2>2, <2>3, Local
<1>16. ASSUME NEW e \in Execution, ReleaseIfSafe(e)
       PROVE  LaunchProtocol'
  <2>1. \A f \in Execution \ {e} : Untouched(f)
    BY <1>16 DEF Untouched, ReleaseIfSafe, stored, files, TypeOK,
       CoroutineType, RuntimeType, Coroutine, Runtime
  <2>2. Good(e)'
    <3>1. /\ UNCHANGED <<row[e], pid[e], worker[e], thread[e], cpc[e]>>
          /\ UNCHANGED <<mode, todo>>
      BY <1>16 DEF ReleaseIfSafe, stored, files
    <3>2. /\ rt'[e].registered = rt[e].registered
          /\ rt'[e].owned = rt[e].owned
          /\ rt[e].blocked => rt'[e].blocked
      BY <1>16 DEF TypeOK, RuntimeType, Runtime, ReleaseIfSafe
    <3>3. \A b \in Actor : fz'[e][b] \in {fz[e][b], "idle", "enter", "gate"}
      BY <1>16 DEF TypeOK, FinalizeType, ReleaseIfSafe
    <3>4. co[e].at \notin {"none", "queued"}
      BY <1>16 DEF Good, Scheduled, ReleaseIfSafe
    <3>5. co'[e].at = co[e].at
          \/ co'[e].at \notin {"none", "queued", "waiting", "exited"}
      BY <1>16 DEF TypeOK, CoroutineType, Coroutine, ReleaseIfSafe,
         AfterRelease, AfterRaise
    <3>. QED
      BY <3>1, <3>2, <3>3, <3>4, <3>5, Moved
  <2>3. loop'[2] = "send" => mode' = "serving"
    BY <1>16 DEF LaunchProtocol, ReleaseIfSafe, Idle, LoopFree
  <2>. QED
    BY <2>1, <2>2, <2>3, Local
<1>17. ASSUME NEW e \in Execution, Interrupted(e)
       PROVE  LaunchProtocol'
  <2>1. \A f \in Execution \ {e} : Untouched(f)
    BY <1>17 DEF Untouched, Interrupted, stored, files, TypeOK, CoroutineType,
       FinalizeType, RuntimeType, Coroutine, Runtime
  <2>2. Good(e)'
    <3>1. /\ UNCHANGED <<row[e], pid[e], worker[e], thread[e], cpc[e]>>
          /\ UNCHANGED <<mode, todo>>
      BY <1>17 DEF Interrupted, stored, files
    <3>2. /\ rt'[e].registered = rt[e].registered
          /\ rt'[e].owned = rt[e].owned
          /\ rt[e].blocked => rt'[e].blocked
      BY <1>17 DEF TypeOK, RuntimeType, Runtime, Interrupted
    <3>3. \A b \in Actor : fz'[e][b] \in {fz[e][b], "idle", "enter", "gate"}
      BY <1>17 DEF TypeOK, FinalizeType, Interrupted
    <3>4. co[e].at \notin {"none", "queued"}
      BY <1>17 DEF Good, Scheduled, Interrupted
    <3>5. co'[e].at = co[e].at
          \/ co'[e].at \notin {"none", "queued", "waiting", "exited"}
      BY <1>17 DEF TypeOK, CoroutineType, Coroutine, Interrupted, AfterInterrupt
    <3>. QED
      BY <3>1, <3>2, <3>3, <3>4, <3>5, Moved
  <2>3. loop'[2] = "send" => mode' = "serving"
    BY <1>17 DEF LaunchProtocol, Interrupted, Idle, LoopFree
  <2>. QED
    BY <2>1, <2>2, <2>3, Local
<1>18. ASSUME NEW e \in Execution, ExecuteResumes(e)
       PROVE  LaunchProtocol'
  <2>1. \A f \in Execution \ {e} : Untouched(f)
    BY <1>18 DEF Untouched, ExecuteResumes, stored, files, Goto, Leave,
       TypeOK, CoroutineType, Coroutine
  <2>2. Good(e)'
    BY <1>18 DEF LaunchProtocol, Good, Fresh, Scheduled, Gated, Launched,
       Stopping, Settled, ExecuteResumes, stored, files, Goto, Leave, Runs,
       TypeOK, CoroutineType, ProcessType, FinalizeType, StoredType,
       RuntimeType, Coroutine, Runtime
  <2>3. loop'[2] = "send" => mode' = "serving"
    BY <1>18 DEF LaunchProtocol, ExecuteResumes, Runs
  <2>. QED
    BY <2>1, <2>2, <2>3, Local
<1>19. ASSUME NEW e \in Execution, WaitOwned(e)
       PROVE  LaunchProtocol'
  <2>1. \A f \in Execution \ {e} : Untouched(f)
    BY <1>19 DEF Untouched, WaitOwned, stored, files, Goto, TypeOK,
       CoroutineType, Coroutine
  <2>2. Good(e)'
    BY <1>19 DEF LaunchProtocol, Good, Fresh, Scheduled, Gated, Launched,
       Stopping, Settled, WaitOwned, stored, files, Goto, is_owned_alive,
       TypeOK, CoroutineType, ProcessType, FinalizeType, StoredType,
       RuntimeType, Coroutine, Runtime
  <2>3. loop'[2] = "send" => mode' = "serving"
    BY <1>19 DEF LaunchProtocol, WaitOwned
  <2>. QED
    BY <2>1, <2>2, <2>3, Local
<1>20. ASSUME NEW e \in Execution, CloseGateForRelease(e)
       PROVE  LaunchProtocol'
  <2>1. \A f \in Execution \ {e} : Untouched(f)
    BY <1>20 DEF Untouched, CloseGateForRelease, stored, files, TypeOK,
       CoroutineType, RuntimeType, Coroutine, Runtime
  <2>2. Good(e)'
    BY <1>20 DEF LaunchProtocol, Good, Fresh, Scheduled, Gated, Launched,
       Stopping, Settled, CloseGateForRelease, stored, files, SpawnLockFree,
       TypeOK, CoroutineType, ProcessType, FinalizeType, StoredType,
       RuntimeType, Coroutine, Runtime
  <2>3. loop'[2] = "send" => mode' = "serving"
    BY <1>20 DEF LaunchProtocol, CloseGateForRelease
  <2>. QED
    BY <2>1, <2>2, <2>3, Local
<1>21. ASSUME NEW e \in Execution, Launch(e)
       PROVE  LaunchProtocol'
  <2>1. \A f \in Execution \ {e} : Untouched(f)
    BY <1>21 DEF Untouched, Launch, stored, files, TypeOK, RuntimeType,
       ProcessType, Runtime
  <2>2. Good(e)'
    BY <1>21 DEF LaunchProtocol, Good, Fresh, Scheduled, Gated, Launched,
       Stopping, Settled, Launch, stored, files, SpawnAllowed, TypeOK,
       CoroutineType, ProcessType, FinalizeType, StoredType, RuntimeType,
       Coroutine, Runtime
  <2>3. loop'[2] = "send" => mode' = "serving"
    BY <1>21 DEF LaunchProtocol, Launch
  <2>. QED
    BY <2>1, <2>2, <2>3, Local
<1>22. ASSUME NEW e \in Execution, WriteOwner(e)
       PROVE  LaunchProtocol'
  <2>1. \A f \in Execution \ {e} : Untouched(f)
    BY <1>22 DEF Untouched, WriteOwner, stored, coroutines, TypeOK,
       ProcessType
  <2>2. Good(e)'
    BY <1>22 DEF LaunchProtocol, Good, Fresh, Scheduled, Gated, Launched,
       Stopping, Settled, WriteOwner, stored, coroutines, TypeOK,
       CoroutineType, ProcessType, FinalizeType, StoredType, RuntimeType,
       Coroutine, Runtime
  <2>3. loop'[2] = "send" => mode' = "serving"
    BY <1>22 DEF LaunchProtocol, WriteOwner
  <2>. QED
    BY <2>1, <2>2, <2>3, Local
<1>23. ASSUME NEW e \in Execution, RecordPid(e)
       PROVE  LaunchProtocol'
  <2>1. \A f \in Execution \ {e} : Untouched(f)
    BY <1>23 DEF Untouched, RecordPid, files, coroutines, TypeOK, StoredType,
       ProcessType
  <2>2. Good(e)'
    BY <1>23 DEF LaunchProtocol, Good, Fresh, Scheduled, Gated, Launched,
       Stopping, Settled, RecordPid, files, coroutines, TypeOK, CoroutineType,
       ProcessType, FinalizeType, StoredType, RuntimeType, Coroutine, Runtime
  <2>3. loop'[2] = "send" => mode' = "serving"
    BY <1>23 DEF LaunchProtocol, RecordPid
  <2>. QED
    BY <2>1, <2>2, <2>3, Local
<1>24. ASSUME NEW e \in Execution, SpawnRaises(e)
       PROVE  LaunchProtocol'
  <2>1. \A f \in Execution \ {e} : Untouched(f)
    BY <1>24 DEF Untouched, SpawnRaises, stored, files, coroutines, TypeOK,
       ProcessType
  <2>2. Good(e)'
    BY <1>24 DEF LaunchProtocol, Good, Fresh, Scheduled, Gated, Launched,
       Stopping, Settled, SpawnRaises, stored, files, coroutines,
       SpawnAllowed, TypeOK, CoroutineType, ProcessType, FinalizeType,
       StoredType, RuntimeType, Coroutine, Runtime
  <2>3. loop'[2] = "send" => mode' = "serving"
    BY <1>24 DEF LaunchProtocol, SpawnRaises
  <2>. QED
    BY <2>1, <2>2, <2>3, Local
<1>25. ASSUME NEW e \in Execution, NEW a \in Actor, FinalizeEnter(e, a)
       PROVE  LaunchProtocol'
  <2>1. \A f \in Execution \ {e} : Untouched(f)
    BY <1>25 DEF Untouched, FinalizeEnter, stored, files, TypeOK,
       FinalizeType, RuntimeType, Runtime
  <2>2. Good(e)'
    <3>1. /\ UNCHANGED <<row[e], pid[e], worker[e], thread[e], cpc[e]>>
          /\ UNCHANGED <<mode, todo>>
      BY <1>25 DEF FinalizeEnter, stored, files
    <3>2. /\ rt'[e].registered = rt[e].registered
          /\ rt'[e].owned = rt[e].owned
          /\ rt[e].blocked => rt'[e].blocked
      BY <1>25 DEF TypeOK, RuntimeType, Runtime, FinalizeEnter
    <3>3. \A b \in Actor : fz'[e][b] \in {fz[e][b], "idle", "enter", "gate"}
      BY <1>25 DEF TypeOK, FinalizeType, FinalizeEnter
    <3>4. co[e].at \notin {"none", "queued"}
      BY <1>25 DEF Good, Scheduled, FinalizeEnter
    <3>5. co'[e].at = co[e].at
          \/ co'[e].at \notin {"none", "queued", "waiting", "exited"}
      BY <1>25 DEF TypeOK, CoroutineType, Coroutine, FinalizeEnter
    <3>. QED
      BY <3>1, <3>2, <3>3, <3>4, <3>5, Moved
  <2>3. loop'[2] = "send" => mode' = "serving"
    BY <1>25 DEF LaunchProtocol, FinalizeEnter, Idle, Runs, Actor
  <2>. QED
    BY <2>1, <2>2, <2>3, Local
<1>26. ASSUME NEW e \in Execution, NEW a \in Actor, FinalizeGated(e, a)
       PROVE  LaunchProtocol'
  <2>1. \A f \in Execution \ {e} : Untouched(f)
    BY <1>26 DEF Untouched, FinalizeGated, stored, files, TypeOK, FinalizeType
  <2>2. Good(e)'
    BY <1>26 DEF LaunchProtocol, Good, Fresh, Scheduled, Gated, Launched,
       Stopping, Settled, FinalizeGated, stored, files, FinalizeRuns, Idle,
       TypeOK, CoroutineType, ProcessType, FinalizeType, StoredType,
       RuntimeType, Coroutine, Runtime
  <2>3. loop'[2] = "send" => mode' = "serving"
    BY <1>26 DEF LaunchProtocol, FinalizeGated, Idle, Actor
  <2>. QED
    BY <2>1, <2>2, <2>3, Local
<1>27. ASSUME NEW e \in Execution, NEW a \in Actor, FinalizeRecovery(e, a)
       PROVE  LaunchProtocol'
  <2>1. \A f \in Execution \ {e} : Untouched(f)
    BY <1>27 DEF Untouched, FinalizeRecovery, files, TypeOK, FinalizeType,
       StoredType, RuntimeType, Runtime
  <2>2. Good(e)'
    BY <1>27 DEF LaunchProtocol, Good, Fresh, Scheduled, Gated, Launched,
       Stopping, Settled, FinalizeRecovery, files, FinalizeRuns, TypeOK,
       CoroutineType, ProcessType, FinalizeType, StoredType, RuntimeType,
       Coroutine, Runtime
  <2>3. loop'[2] = "send" => mode' = "serving"
    BY <1>27 DEF LaunchProtocol, FinalizeRecovery, Actor
  <2>. QED
    BY <2>1, <2>2, <2>3, Local
<1>28. ASSUME NEW e \in Execution, NEW a \in Actor, FinalizeSettle(e, a)
       PROVE  LaunchProtocol'
  <2>1. \A f \in Execution \ {e} : Untouched(f)
    BY <1>28 DEF Untouched, FinalizeSettle, files, TypeOK, FinalizeType,
       StoredType, RuntimeType, Runtime
  <2>2. Good(e)'
    <3>1. Fresh(e)'
      BY <1>28 DEF LaunchProtocol, Good, Fresh, Scheduled, Gated, Launched,
         Stopping, Settled, FinalizeSettle, files, FinalizeRuns, Idle, Kind,
         TypeOK, CoroutineType, StoredType, ProcessType, Coroutine
    <3>2. Scheduled(e)'
      BY <1>28 DEF LaunchProtocol, Good, Fresh, Scheduled, Gated, Launched,
         Stopping, Settled, FinalizeSettle, files, FinalizeRuns, Idle, Kind,
         TypeOK, CoroutineType, FinalizeType, StoredType, RuntimeType,
         ProcessType, Coroutine, Runtime
    <3>3. Gated(e)'
      BY <1>28, SMTT(30)
      DEF LaunchProtocol, Good, Fresh, Scheduled, Gated, Launched, Stopping,
         Settled, FinalizeSettle, files, FinalizeRuns, Idle, Kind,
         TypeOK, StoredType, RuntimeType, ProcessType, Runtime
    <3>4. Launched(e)'
      BY <1>28 DEF LaunchProtocol, Good, Fresh, Scheduled, Gated, Launched,
         Stopping, Settled, FinalizeSettle, files, FinalizeRuns, Idle, Kind,
         TypeOK, CoroutineType, RuntimeType, ProcessType, Coroutine, Runtime
    <3>5. Stopping(e)'
      <4>1. /\ rt'[e].owned = rt[e].owned
            /\ rt'[e].blocked = rt[e].blocked
        BY <1>28 DEF TypeOK, RuntimeType, Runtime, FinalizeSettle
      <4>2. \A b \in Actor : fz'[e][b] \in {fz[e][b], "idle", "release"}
        BY <1>28 DEF TypeOK, FinalizeType, FinalizeSettle
      <4>3. UNCHANGED <<pid, worker, cpc>>
        BY <1>28 DEF FinalizeSettle
      <4>. QED
        BY <4>1, <4>2, <4>3 DEF Good, Stopping
    <3>6. Settled(e)'
      BY <1>28 DEF LaunchProtocol, Good, Fresh, Scheduled, Gated, Launched,
         Stopping, Settled, FinalizeSettle, files, FinalizeRuns, Idle, Kind,
         TypeOK, StoredType, ProcessType
    <3>. QED
      BY <1>28, <3>1, <3>2, <3>3, <3>4, <3>5, <3>6 DEF LaunchProtocol, Good
  <2>3. loop'[2] = "send" => mode' = "serving"
    BY <1>28 DEF LaunchProtocol, FinalizeSettle, Idle, Actor
  <2>. QED
    BY <2>1, <2>2, <2>3, Local
<1>29. ASSUME NEW e \in Execution, NEW a \in Actor, FinalizeRelease(e, a)
       PROVE  LaunchProtocol'
  <2>1. \A f \in Execution \ {e} : Untouched(f)
    BY <1>29 DEF Untouched, FinalizeRelease, stored, files, TypeOK,
       FinalizeType, RuntimeType, Runtime
  <2>2. Good(e)'
    <3>1. /\ UNCHANGED <<row[e], pid[e], worker[e], thread[e], cpc[e]>>
          /\ UNCHANGED <<mode, todo>>
      BY <1>29 DEF FinalizeRelease, stored, files
    <3>2. /\ rt'[e].registered = rt[e].registered
          /\ rt'[e].owned = rt[e].owned
          /\ rt[e].blocked => rt'[e].blocked
      BY <1>29 DEF TypeOK, RuntimeType, Runtime, FinalizeRelease
    <3>3. \A b \in Actor : fz'[e][b] \in {fz[e][b], "idle", "enter", "gate"}
      BY <1>29 DEF TypeOK, FinalizeType, FinalizeRelease
    <3>4. co[e].at \notin {"none", "queued"}
      BY <1>29 DEF Good, Scheduled, FinalizeRelease
    <3>5. co'[e].at = co[e].at
          \/ co'[e].at \notin {"none", "queued", "waiting", "exited"}
      BY <1>29 DEF TypeOK, CoroutineType, Coroutine, FinalizeRelease
    <3>. QED
      BY <3>1, <3>2, <3>3, <3>4, <3>5, Moved
  <2>3. loop'[2] = "send" => mode' = "serving"
    BY <1>29 DEF LaunchProtocol, FinalizeRelease, Actor
  <2>. QED
    BY <2>1, <2>2, <2>3, Local
<1>30. ASSUME NEW e \in Execution, NEW a \in Actor, FinalizeGate(e, a)
       PROVE  LaunchProtocol'
  <2>1. \A f \in Execution \ {e} : Untouched(f)
    BY <1>30 DEF Untouched, FinalizeGate, stored, files, TypeOK, FinalizeType,
       RuntimeType, Runtime
  <2>2. Good(e)'
    BY <1>30 DEF LaunchProtocol, Good, Fresh, Scheduled, Gated, Launched,
       Stopping, Settled, FinalizeGate, stored, files, SpawnLockFree, TypeOK,
       CoroutineType, ProcessType, FinalizeType, StoredType, RuntimeType,
       Coroutine, Runtime
  <2>3. loop'[2] = "send" => mode' = "serving"
    BY <1>30 DEF LaunchProtocol, FinalizeGate, Actor
  <2>. QED
    BY <2>1, <2>2, <2>3, Local
<1>31. ASSUME NEW e \in Execution, NEW a \in Actor, FinalizeStop(e, a)
       PROVE  LaunchProtocol'
  <2>1. \A f \in Execution \ {e} : Untouched(f)
    BY <1>31 DEF Untouched, FinalizeStop, stored, files, TypeOK, FinalizeType,
       ProcessType
  <2>2. Good(e)'
    BY <1>31 DEF LaunchProtocol, Good, Fresh, Scheduled, Gated, Launched,
       Stopping, Settled, FinalizeStop, stored, files, is_owned_alive, TypeOK,
       CoroutineType, ProcessType, FinalizeType, StoredType, RuntimeType,
       Coroutine, Runtime
  <2>3. loop'[2] = "send" => mode' = "serving"
    BY <1>31 DEF LaunchProtocol, FinalizeStop, Actor
  <2>. QED
    BY <2>1, <2>2, <2>3, Local
<1>32. ASSUME NEW e \in Execution, Cancel(e)
       PROVE  LaunchProtocol'
  <2>1. \A f \in Execution \ {e} : Untouched(f)
    BY <1>32 DEF Untouched, Cancel, stored, files, Disturbed, TypeOK,
       CoroutineType, ProcessType, FinalizeType, StoredType, Coroutine
  <2>2. Good(e)'
    BY <1>32 DEF LaunchProtocol, Good, Fresh, Scheduled, Gated, Launched,
       Stopping, Settled, Cancel, stored, files, CancelFails, Cancels,
       Disturbed, Idle, LoopFree, TERMINAL_EXECUTION, Up, is_owned_alive,
       TypeOK, CoroutineType, ProcessType, FinalizeType, StoredType,
       RuntimeType, Coroutine, Runtime
  <2>3. loop'[2] = "send" => mode' = "serving"
    BY <1>32 DEF LaunchProtocol, Cancel, Idle, LoopFree
  <2>. QED
    BY <2>1, <2>2, <2>3, Local
<1>33. ASSUME NEW e \in Execution, CancelStop(e)
       PROVE  LaunchProtocol'
  <2>1. \A f \in Execution \ {e} : Untouched(f)
    BY <1>33 DEF Untouched, CancelStop, stored, files, TypeOK, ProcessType
  <2>2. Good(e)'
    BY <1>33 DEF LaunchProtocol, Good, Fresh, Scheduled, Gated, Launched,
       Stopping, Settled, CancelStop, stored, files, is_owned_alive, TypeOK,
       CoroutineType, ProcessType, FinalizeType, StoredType, RuntimeType,
       Coroutine, Runtime
  <2>3. loop'[2] = "send" => mode' = "serving"
    BY <1>33 DEF LaunchProtocol, CancelStop
  <2>. QED
    BY <2>1, <2>2, <2>3, Local
<1>34. ASSUME NEW e \in Execution, CancelAnswer(e)
       PROVE  LaunchProtocol'
  <2>1. \A f \in Execution \ {e} : Untouched(f)
    BY <1>34 DEF Untouched, CancelAnswer, files, TypeOK, ProcessType,
       StoredType
  <2>2. Good(e)'
    BY <1>34 DEF LaunchProtocol, Good, Fresh, Scheduled, Gated, Launched,
       Stopping, Settled, CancelAnswer, files, Idle, LoopFree, Up, TypeOK,
       CoroutineType, ProcessType, FinalizeType, StoredType, RuntimeType,
       Coroutine, Runtime
  <2>3. loop'[2] = "send" => mode' = "serving"
    BY <1>34 DEF LaunchProtocol, CancelAnswer, Idle, LoopFree
  <2>. QED
    BY <2>1, <2>2, <2>3, Local
<1>35. ASSUME NEW e \in Execution, CancelReturns(e)
       PROVE  LaunchProtocol'
  <2>1. \A f \in Execution \ {e} : Untouched(f)
    BY <1>35 DEF Untouched, CancelReturns, stored, files, coroutines
  <2>2. Good(e)'
    BY <1>35 DEF LaunchProtocol, Good, Fresh, Scheduled, Gated, Launched,
       Stopping, Settled, CancelReturns, stored, files, coroutines, Idle,
       Runs, TypeOK, CoroutineType, ProcessType, FinalizeType, StoredType,
       RuntimeType, Coroutine, Runtime
  <2>3. loop'[2] = "send" => mode' = "serving"
    BY <1>35 DEF LaunchProtocol, CancelReturns, Idle, Runs
  <2>. QED
    BY <2>1, <2>2, <2>3, Local
<1>36. ASSUME NEW e \in Execution, ShutdownFinalize(e)
       PROVE  LaunchProtocol'
  <2>1. \A f \in Execution \ {e} : Untouched(f)
    BY <1>36 DEF Untouched, ShutdownFinalize, stored, files, TypeOK,
       FinalizeType
  <2>2. Good(e)'
    BY <1>36 DEF LaunchProtocol, Good, Fresh, Scheduled, Gated, Launched,
       Stopping, Settled, ShutdownFinalize, stored, files, InShutdown, TypeOK,
       CoroutineType, ProcessType, FinalizeType, StoredType, RuntimeType,
       Coroutine, Runtime
  <2>3. loop'[2] = "send" => mode' = "serving"
    BY <1>36 DEF LaunchProtocol, ShutdownFinalize
  <2>. QED
    BY <2>1, <2>2, <2>3, Local
<1>37. ASSUME NEW e \in Execution, WorkerExits(e)
       PROVE  LaunchProtocol'
  <2>1. \A f \in Execution \ {e} : Untouched(f)
    BY <1>37 DEF Untouched, WorkerExits, stored, files, coroutines, TypeOK,
       ProcessType
  <2>2. Good(e)'
    BY <1>37 DEF LaunchProtocol, Good, Fresh, Scheduled, Gated, Launched,
       Stopping, Settled, WorkerExits, stored, files, coroutines, TypeOK,
       CoroutineType, ProcessType, FinalizeType, StoredType, RuntimeType,
       Coroutine, Runtime
  <2>3. loop'[2] = "send" => mode' = "serving"
    BY <1>37 DEF LaunchProtocol, WorkerExits
  <2>. QED
    BY <2>1, <2>2, <2>3, Local
<1>38. ASSUME NEW e \in Execution, PidRecycled(e)
       PROVE  LaunchProtocol'
  <2>1. \A f \in Execution \ {e} : Untouched(f)
    BY <1>38 DEF Untouched, PidRecycled, stored, files, coroutines, TypeOK,
       ProcessType
  <2>2. Good(e)'
    BY <1>38 DEF LaunchProtocol, Good, Fresh, Scheduled, Gated, Launched,
       Stopping, Settled, PidRecycled, stored, files, coroutines, NONTERMINAL,
       TypeOK, CoroutineType, ProcessType, FinalizeType, StoredType,
       RuntimeType, Coroutine, Runtime
  <2>3. loop'[2] = "send" => mode' = "serving"
    BY <1>38 DEF LaunchProtocol, PidRecycled
  <2>. QED
    BY <2>1, <2>2, <2>3, Local
<1>39. ASSUME NEW e \in Execution, StrangerExits(e)
       PROVE  LaunchProtocol'
  <2>1. \A f \in Execution \ {e} : Untouched(f)
    BY <1>39 DEF Untouched, StrangerExits, stored, files, coroutines, TypeOK,
       ProcessType
  <2>2. Good(e)'
    BY <1>39 DEF LaunchProtocol, Good, Fresh, Scheduled, Gated, Launched,
       Stopping, Settled, StrangerExits, stored, files, coroutines, TypeOK,
       CoroutineType, ProcessType, FinalizeType, StoredType, RuntimeType,
       Coroutine, Runtime
  <2>3. loop'[2] = "send" => mode' = "serving"
    BY <1>39 DEF LaunchProtocol, StrangerExits
  <2>. QED
    BY <2>1, <2>2, <2>3, Local
<1>40. ASSUME NEW e \in Execution, ReconcileFailed(e)
       PROVE  LaunchProtocol'
  <2>1. \A f \in Execution \ {e} : Untouched(f)
    BY <1>40 DEF Untouched, ReconcileFailed, coroutines, StoppedWorker,
       TypeOK, StoredType, ProcessType
  <2>2. Good(e)'
    BY <1>40 DEF LaunchProtocol, Good, Fresh, Scheduled, Gated, Launched,
       Stopping, Settled, ReconcileFailed, coroutines, Interruptible,
       Reconciles, StoppedWorker, TypeOK, CoroutineType, ProcessType,
       FinalizeType, StoredType, RuntimeType, Coroutine, Runtime
  <2>3. loop'[2] = "send" => mode' = "serving"
    BY <1>40 DEF LaunchProtocol, ReconcileFailed
  <2>. QED
    BY <2>1, <2>2, <2>3, Local
<1>41. ASSUME NEW e \in Execution, ReconcileRecovery(e)
       PROVE  LaunchProtocol'
  <2>1. \A f \in Execution \ {e} : Untouched(f)
    BY <1>41 DEF Untouched, ReconcileRecovery, files, coroutines, TypeOK,
       StoredType
  <2>2. Good(e)'
    BY <1>41 DEF LaunchProtocol, Good, Fresh, Scheduled, Gated, Launched,
       Stopping, Settled, ReconcileRecovery, files, coroutines, Reconciles,
       is_owned_alive, TypeOK, CoroutineType, ProcessType, FinalizeType,
       StoredType, RuntimeType, Coroutine, Runtime
  <2>3. loop'[2] = "send" => mode' = "serving"
    BY <1>41 DEF LaunchProtocol, ReconcileRecovery
  <2>. QED
    BY <2>1, <2>2, <2>3, Local
<1>42. ASSUME NEW e \in Execution, ReconcileRaises(e)
       PROVE  LaunchProtocol'
  <2>1. \A f \in Execution \ {e} : Untouched(f)
    BY <1>42 DEF Untouched, ReconcileRaises, files, coroutines, StoppedWorker,
       TypeOK, StoredType, ProcessType
  <2>2. Good(e)'
    BY <1>42 DEF LaunchProtocol, Good, Fresh, Scheduled, Gated, Launched,
       Stopping, Settled, ReconcileRaises, files, coroutines, Interruptible,
       Reconciles, StoppedWorker, TypeOK, CoroutineType, ProcessType,
       FinalizeType, StoredType, RuntimeType, Coroutine, Runtime
  <2>3. loop'[2] = "send" => mode' = "serving"
    BY <1>42 DEF LaunchProtocol, ReconcileRaises
  <2>. QED
    BY <2>1, <2>2, <2>3, Local
<1>43. ASSUME NEW e \in Execution, NEW a \in Actor, FinalizeRaises(e, a)
       PROVE  LaunchProtocol'
  <2>1. UNCHANGED <<row, pid, worker>>
    BY <1>43 DEF FinalizeRaises, stored
  <2>2. CASE Volatile
    BY <2>1, <2>2, Died DEF Good, Fresh, Settled
  <2>3. CASE ~Volatile
    <3>1. /\ UNCHANGED <<mode, todo, cpc, thread>>
          /\ rt' = [rt EXCEPT ![e].cleanup = "none"]
          /\ fz' = [fz EXCEPT ![e][a] = "idle"]
          /\ loop' \in {<<e, a>>, Idle}
      BY <1>43, <2>3 DEF FinalizeRaises
    <3>2. \/ co' = co
          \/ \E at \in {"finally", "outer", "done"} :
               \/ co' = [co EXCEPT ![e].at = at]
               \/ co' = [co EXCEPT ![e].at = at, ![e].exit = "raise"]
      BY <1>43, <2>3 DEF FinalizeRaises, Goto, Leave
    <3>3. \A f \in Execution \ {e} : Untouched(f)
      BY <2>1, <3>1, <3>2 DEF TypeOK, RuntimeType, CoroutineType, FinalizeType,
         Untouched
    <3>4. /\ rt'[e].registered = rt[e].registered
          /\ rt'[e].owned = rt[e].owned
          /\ rt[e].blocked => rt'[e].blocked
      BY <3>1 DEF TypeOK, RuntimeType, Runtime
    <3>5. \A b \in Actor : fz'[e][b] \in {fz[e][b], "idle", "enter", "gate"}
      BY <3>1 DEF TypeOK, FinalizeType
    <3>6. co[e].at \notin {"none", "queued"}
      BY <1>43 DEF FinalizeRaises, Good, Scheduled
    <3>7. co'[e].at = co[e].at
          \/ co'[e].at \notin {"none", "queued", "waiting", "exited"}
      BY <3>2 DEF TypeOK, CoroutineType, Coroutine
    <3>8. Good(e)'
      BY <2>1, <3>1, <3>4, <3>5, <3>6, <3>7, Moved
    <3>9. loop'[2] # "send"
      BY <3>1 DEF Idle, Actor
    <3>. QED
      BY <3>3, <3>8, <3>9, Local
  <2>. QED
    BY <2>2, <2>3
<1>44. ASSUME NEW e \in Execution, CrashBetween(e)
       PROVE  LaunchProtocol'
  <2>1. Volatile /\ UNCHANGED pid
    BY <1>44 DEF CrashBetween, stored
  <2>2. \/ worker' = worker /\ row' = row
        \/ worker' = worker /\ row' = [row EXCEPT ![e] = "failed"]
        \/ worker' = worker /\ row' = [row EXCEPT ![e] = "recovery_required"]
        \/ /\ worker' = worker /\ row' = [row EXCEPT ![e] = "canceled"]
           /\ worker[e] # "live"
        \/ worker' = StoppedWorker(e) /\ row' = row
        \/ worker' = StoppedWorker(e) /\ row' = [row EXCEPT ![e] = "failed"]
    BY <1>44 DEF CrashBetween, Good, Stopping, Kind, stored
  <2>3. \A f \in Execution :
          /\ row'[f] \in {"none", "claimed"} => worker'[f] = "none" /\ ~pid'[f]
          /\ Settled(f)'
    BY <2>1, <2>2
    DEF TypeOK, StoredType, ProcessType, StoppedWorker, Good, Fresh, Settled
  <2>. QED
    BY <2>1, <2>3, Died
<1>45. CASE Shutdown
  <2>1. \A e \in Execution : Good(e)'
    BY <1>45 DEF Good, Fresh, Scheduled, Gated, Launched, Stopping, Settled,
       Shutdown, stored, files, coroutines, Idle
  <2>2. loop'[2] = "send" => mode' = "serving"
    BY <1>45 DEF LaunchProtocol, Shutdown, Idle
  <2>. QED
    BY <2>1, <2>2 DEF LaunchProtocol, Good, SettledIsStopped, Settled
<1>46. CASE ShutdownReconcile
  <2>1. \A e \in Execution : Good(e)'
    BY <1>46 DEF Good, Fresh, Scheduled, Gated, Launched, Stopping, Settled,
       ShutdownReconcile, stored, files, coroutines, InShutdown
  <2>2. loop'[2] = "send" => mode' = "serving"
    BY <1>46 DEF LaunchProtocol, ShutdownReconcile, InShutdown
  <2>. QED
    BY <2>1, <2>2 DEF LaunchProtocol, Good, SettledIsStopped, Settled
<1>47. CASE Crash
  BY <1>47, Died DEF Crash, stored, Good, Fresh, Settled
<1>48. CASE Restart
  <2>1. \A e \in Execution : Good(e)'
    BY <1>48 DEF Good, Fresh, Scheduled, Gated, Launched, Stopping, Settled,
       Restart, stored, files, coroutines
  <2>2. loop'[2] = "send" => mode' = "serving"
    BY <1>48 DEF LaunchProtocol, Restart
  <2>. QED
    BY <2>1, <2>2 DEF LaunchProtocol, Good, SettledIsStopped, Settled
<1>49. CASE ReconcileDone
  <2>1. CASE Volatile
    BY <1>49, <2>1, Died DEF ReconcileDone, Good, Fresh, Settled
  <2>2. CASE ~Volatile
    <3>1. /\ mode = "starting" /\ mode' = "serving"
          /\ UNCHANGED <<row, pid, worker, todo, loop, coroutines, thread>>
      BY <1>49, <2>2 DEF ReconcileDone
    <3>2. \A e \in Execution : Good(e)'
      BY <3>1 DEF Good, Fresh, Scheduled, Gated, Launched, Stopping, Settled,
         coroutines
    <3>. QED
      BY <3>1, <3>2 DEF LaunchProtocol, Good, SettledIsStopped, Settled
  <2>. QED
    BY <2>1, <2>2
<1>50. CASE UNCHANGED vars
  <2>1. \A e \in Execution : Good(e)'
    BY <1>50
    DEF vars, Good, Fresh, Scheduled, Gated, Launched, Stopping, Settled
  <2>. QED
    BY <1>50, <2>1 DEF vars, LaunchProtocol, Good, SettledIsStopped, Settled
<1>. QED
  BY <1>1, <1>2, <1>3, <1>4, <1>4a, <1>5, <1>6, <1>7, <1>8, <1>9,
     <1>10, <1>11, <1>12, <1>13, <1>14, <1>15, <1>16, <1>17, <1>18, <1>19, <1>20, <1>21,
     <1>22, <1>23, <1>24, <1>25, <1>26, <1>27, <1>28, <1>29, <1>30, <1>31,
     <1>32, <1>33, <1>34, <1>35, <1>36, <1>37, <1>38, <1>39, <1>40, <1>41,
     <1>42, <1>43, <1>44, <1>45, <1>46, <1>47, <1>48, <1>49, <1>50
  DEF Next, SpawnThread, ExecuteStep, FinalizeStep, FinalizeThread, Reconcile

\* In every reachable state a launch is the first one of its execution and
\* cannot follow its settlement, however cancel, deadline, shutdown, kills
\* and restarts of the server interleave with spawn_worker.
THEOREM ProtocolHolds == Spec => []LaunchProtocol
<1>. QED
  BY ProtocolInit, ProtocolStep, TypeCorrect, PTL DEF Spec

\* No execution the registry calls completed, canceled or rejected has a
\* running worker.
THEOREM SettledStopped == Spec => []SettledIsStopped
<1>1. LaunchProtocol => SettledIsStopped
  BY DEF LaunchProtocol
<1>. QED
  BY <1>1, ProtocolHolds, PTL

\* Only Launch makes a worker live.
LEMMA WorkerStep ==
  ASSUME ProcessType, Next, \A e \in Execution : ~Launch(e)
  PROVE  \A f \in Execution : worker'[f] = "live" => worker[f] = "live"
<1>. DEFINE Old ==
       \A f \in Execution : worker'[f] = "live" => worker[f] = "live"
<1>1. ASSUME NEW e \in Execution, ExecuteStep(e)
      PROVE  UNCHANGED worker
  BY <1>1
  DEF ExecuteStep, EvidenceFails, Reject, Prepare, PrepareRaises,
     SpawnReturned, Deliver,
      DeliverNothing, Expire, Finally, Except, Outer, Drained, Pop,
      ReleaseIfSafe, Interrupted, ExecuteResumes
<1>2. ASSUME NEW e \in Execution, NEW a \in Actor,
             FinalizeStep(e, a) \/ FinalizeGate(e, a)
      PROVE  UNCHANGED worker
  BY <1>2
  DEF FinalizeStep, FinalizeEnter, FinalizeGated, FinalizeRecovery,
      FinalizeSettle, FinalizeRelease, FinalizeRaises, FinalizeGate
<1>3. ASSUME NEW e \in Execution,
             \/ Send(e) \/ Dispatch(e) \/ SaveTask(e) \/ WaitOwned(e)
             \/ CloseGateForRelease(e) \/ WriteOwner(e) \/ RecordPid(e)
             \/ SpawnRaises(e) \/ Cancel(e) \/ CancelAnswer(e)
             \/ CancelReturns(e) \/ ShutdownFinalize(e) \/ ReconcileRecovery(e)
      PROVE  UNCHANGED worker
  BY <1>3
  DEF Send, Dispatch, SaveTask, WaitOwned, CloseGateForRelease, WriteOwner,
      RecordPid, SpawnRaises, Cancel, CancelAnswer, CancelReturns,
      ShutdownFinalize, ReconcileRecovery
<1>4. ASSUME Shutdown \/ ShutdownReconcile \/ Crash \/ Restart \/ ReconcileDone
      PROVE  UNCHANGED worker
  BY <1>4 DEF Shutdown, ShutdownReconcile, Crash, Restart, ReconcileDone
<1>5. ASSUME NEW e \in Execution,
             \/ (\E a \in Actor : FinalizeStop(e, a)) \/ CancelStop(e)
             \/ WorkerExits(e) \/ PidRecycled(e) \/ StrangerExits(e)
      PROVE  Old
  BY <1>5
  DEF ProcessType, FinalizeStop, CancelStop, WorkerExits, PidRecycled,
      StrangerExits
<1>6. ASSUME NEW e \in Execution,
             ReconcileFailed(e) \/ ReconcileRaises(e) \/ CrashBetween(e)
      PROVE  Old
  <2>1. worker' = worker \/ worker' = StoppedWorker(e)
    BY <1>6 DEF ReconcileFailed, ReconcileRaises, CrashBetween
  <2>. QED
    BY <2>1 DEF ProcessType, StoppedWorker
<1>7. ASSUME UNCHANGED worker
      PROVE  Old
  BY <1>7
<1>. QED
  BY <1>1, <1>2, <1>3, <1>4, <1>5, <1>6, <1>7
  DEF Next, SpawnThread, FinalizeThread, Reconcile

\* A step that makes a worker live starts the execution's first.
LEMMA LaunchStep ==
  TypeOK /\ LaunchProtocol /\ [Next]_vars =>
    [\A e \in Execution :
       worker'[e] = "live" => worker[e] \in {"none", "live"}]_vars
<1>. SUFFICES ASSUME TypeOK, LaunchProtocol, Next,
                     NEW e \in Execution, worker'[e] = "live"
              PROVE  worker[e] \in {"none", "live"}
  OBVIOUS
<1>1. ASSUME NEW f \in Execution, Launch(f)
      PROVE  worker[e] \in {"none", "live"}
  <2>1. worker[f] = "none"
    BY <1>1 DEF LaunchProtocol, Gated, Launch
  <2>2. worker' \in {worker, [worker EXCEPT ![f] = "live"]}
    BY <1>1 DEF Launch
  <2>. QED
    BY <2>1, <2>2 DEF TypeOK, ProcessType
<1>2. CASE \A f \in Execution : ~Launch(f)
  BY <1>2, WorkerStep DEF TypeOK
<1>. QED
  BY <1>1, <1>2

\* At most one worker is ever launched for an execution id.
THEOREM LaunchOnce == Spec => LaunchedOnce
<1>. QED
  BY LaunchStep, ProtocolHolds, TypeCorrect, PTL DEF Spec, LaunchedOnce

-----------------------------------------------------------------------------
(***************************************************************************)
(* Taking turns, while nobody cancels (with cancels the properties below   *)
(* do not hold).  Turns is inductive relative to LaunchProtocol: whoever   *)
(* runs, finalizes or releases knows whose the lock is.  Orderly says what *)
(* a step may do to the lock and to a worker; the refinement follows from  *)
(* it.                                                                     *)
(***************************************************************************)

\* No cancel has come: nobody interrupts execute, no cancel acts ...
Uncanceled(e) ==
  /\ ~co[e].interrupted /\ co[e].exit # "cancel" /\ co[e].at # "handler"
  /\ fz[e]["cancel"] = "idle" /\ cpc[e] = "idle" /\ row[e] # "canceled"

\* ... a launch happens while its execute waits for it, under the lock unless
\* its gate is closed, and a closed gate has let the launch before it finish ...
Spawned(e) ==
  /\ thread[e] \in {"gate", "launched", "recorded"} => co[e].at = "spawning"
  /\ rt[e].blocked => thread[e] \notin {"launched", "recorded"}
  /\ thread[e] \in {"launched", "recorded"} => worker[e] # "none"
  /\ rt[e].owned => worker[e] \notin {"none", "recycled"}
  /\ pid[e] => worker[e] # "none"
  /\ co[e].at = "spawning" =>
       /\ rt[e].registered
       /\ Up => rt[e].blocked \/ rt[e].locked
       /\ rt[e].final \/ mode = "reconciling" => rt[e].blocked

\* Whoever is about to release the lock for e holds it for e, or shutdown has
\* released it and nobody takes it any more.
Unlocks(e) == rt[e].locked \/ (~held /\ mode # "serving")

\* ... lock_acquired, _held and the directory agree for a coroutine that runs;
\* a lock an earlier server has left is not held ...
Locked(e) ==
  /\ co[e].at \in {"none", "queued"} => ~rt[e].locked /\ ~rt[e].final
  /\ co[e].at = "queued" \/ row[e] \in {"none", "claimed"} => lock # e
  /\ Up => (rt[e].locked <=> co[e].at # "none" /\ lock = e)
  /\ Up /\ rt[e].locked => held
  /\ Up /\ held /\ lock = e => rt[e].locked
  /\ co[e].rel # "idle" =>
       Unlocks(e) /\ co[e].at \in {"finally", "except", "outer"}

\* ... one caller finalizes at a time, behind the gate it has closed ...
Finalizing(e) ==
  /\ fz[e]["execute"] # "idle" => co[e].at \in {"deadline", "outer_stop"}
  /\ \A a \in Actor :
       /\ fz[e][a] \notin {"idle", "enter"} =>
            rt[e].closing /\ rt[e].cleanup = a
       /\ fz[e][a] \notin {"idle", "enter", "gate"} => rt[e].blocked
       /\ fz[e][a] \in {"release", "releasing"} => Unlocks(e)

\* ... shutdown leaves no runtime unfinished before it reconciles, and a
\* server that starts has none ...
Ending(e) ==
  /\ fz[e]["shutdown"] # "idle" => mode = "closing"
  /\ mode = "closing" /\ rt[e].registered /\ e \notin todo =>
       fz[e]["shutdown"] # "idle" \/ rt[e].final
  /\ mode \in {"starting", "reconciling"} /\ e \in todo =>
       row[e] \in NONTERMINAL
  /\ mode \in {"down", "starting"} => co[e].at = "none"

\* ... and a delivered execution gives the lock back on its way out.
Delivered(e) ==
  row[e] = "completed" /\ co[e].at # "none" =>
    /\ co[e].at \in {"finally", "except", "outer", "pop", "done"}
    /\ rt[e].final /\ ~rt[e].closing
    /\ co[e].at # "finally" => lock # e

Turn(e) ==
  /\ Uncanceled(e) /\ Spawned(e) /\ Locked(e)
  /\ Finalizing(e) /\ Ending(e) /\ Delivered(e)

Turns ==
  /\ \A e \in Execution : Turn(e)
  /\ WorkerReserved
  /\ owner \in {NoExecution, lock}
  /\ mode \in {"down", "starting"} => ~held
  /\ Up /\ held => lock # NoExecution

\* A step of one execution: what it may do to the lock and to its worker.
Stays(e) ==
  /\ UNCHANGED <<lock, held>>
  /\ \/ worker'[e] = worker[e]
     \/ worker[e] # "none" /\ worker'[e] \in {"dead", "recycled"}
     \/ worker[e] = "none" /\ worker'[e] = "live" /\ lock = e
Takes(e) ==
  /\ mode = "serving"
  /\ lock = NoExecution /\ lock' = e /\ held'
  /\ worker[e] = "none" /\ worker'[e] = "none"
Leaves(e) ==
  /\ lock = e /\ lock' = NoExecution
  /\ held' = FALSE \/ (~Up /\ held' = held)
  /\ worker'[e] # "live" /\ (worker'[e] = "none" <=> worker[e] = "none")
Move(e) ==
  /\ \A f \in Execution \ {e} : Untouched(f)
  /\ mode' = mode /\ todo' \in {todo, todo \ {e}}
  /\ owner' \in {NoExecution, lock'}
  /\ Stays(e) \/ Takes(e) \/ Leaves(e)

\* A step of the server as a whole, or a kill, leaves the lock alone and at
\* most stops a worker.
Orderly ==
  \/ \E e \in Execution : Move(e)
  \/ /\ lock' = lock
     /\ \E e \in Execution :
          /\ worker[e] # "none"
          /\ worker' = [worker EXCEPT ![e] = "dead"]
  \/ UNCHANGED <<lock, worker>>

\* A step of one execution leaves the others where they were.
LEMMA OthersKeep ==
  ASSUME Turns, NEW e \in Execution, Move(e),
         NEW f \in Execution \ {e}
  PROVE  Turn(f)'
<1>1. /\ UNCHANGED <<row[f], pid[f], worker[f], thread[f], cpc[f]>>
      /\ UNCHANGED <<rt[f], co[f], fz[f], mode>>
      /\ Turn(f) /\ f # e
  BY DEF Move, Untouched, Turns
<1>2. f \in todo' <=> f \in todo
  BY <1>1 DEF Move
<1>3. f # NoExecution /\ e # NoExecution
  BY ServerAssumption DEF ServerAssumption
<1>4. \/ UNCHANGED <<lock, held>>
      \/ /\ mode = "serving" /\ lock # f /\ lock' # f
      \/ /\ lock # f /\ lock' # f
         /\ held' = FALSE \/ (~Up /\ held' = held)
  BY <1>1, <1>3 DEF Move, Stays, Takes, Leaves
<1>5. Uncanceled(f)' /\ Spawned(f)' /\ Ending(f)'
  BY <1>1, <1>2 DEF Turn, Uncanceled, Spawned, Ending, Up
<1>6. Locked(f)'
  BY <1>1, <1>4 DEF Turn, Locked, Unlocks, Up
<1>7. Finalizing(f)'
  BY <1>1, <1>4 DEF Turn, Finalizing, Locked, Unlocks, Up
<1>8. Delivered(f)'
  BY <1>1, <1>4 DEF Turn, Delivered
<1>. QED
  BY <1>5, <1>6, <1>7, <1>8 DEF Turn

\* It is enough to look at the execution that moves.
LEMMA TurnTaken ==
  ASSUME Turns, NEW e \in Execution, Move(e), Turn(e)'
  PROVE  Turns' /\ Orderly
<1>1. \A f \in Execution : Turn(f)'
  BY OthersKeep
<1>2. WorkerReserved'
  <2>. SUFFICES ASSUME NEW f \in Execution, worker'[f] = "live"
                PROVE  lock' = f
    BY DEF WorkerReserved
  <2>1. f # NoExecution /\ e # NoExecution
    BY ServerAssumption DEF ServerAssumption
  <2>2. worker[f] = "live" => lock = f
    BY DEF Turns, WorkerReserved
  <2>3. f # e => worker[f] = "live"
    BY DEF Move, Untouched
  <2>. QED
    BY <2>1, <2>2, <2>3 DEF Move, Stays, Takes, Leaves
<1>3. owner' \in {NoExecution, lock'}
  BY DEF Move
<1>4. mode' \in {"down", "starting"} => ~held'
  BY DEF Turns, Move, Stays, Takes, Leaves
<1>5. Up' /\ held' => lock' # NoExecution
  BY ServerAssumption
  DEF Turns, Move, Stays, Takes, Leaves, Up, ServerAssumption
<1>. QED
  BY <1>1, <1>2, <1>3, <1>4, <1>5 DEF Turns, Orderly

\* After the process has ended the lock directory is as it was.
LEMMA TurnsDied ==
  ASSUME Turns, Volatile, UNCHANGED <<lock, pid>>,
         owner' \in {owner, NoExecution},
         \A e \in Execution :
           /\ row'[e] \in {row[e], "failed", "recovery_required"}
           /\ worker'[e] = "live" => worker[e] = "live"
           /\ worker'[e] = "none" => worker[e] = "none"
  PROVE  Turns'
<1>1. /\ mode' = "down" /\ held' = FALSE
      /\ \A e \in Execution :
           /\ rt'[e] = NewRuntime /\ co'[e] = NewCoroutine
           /\ fz'[e] = [a \in Actor |-> "idle"]
           /\ cpc'[e] = "idle" /\ thread'[e] = "none"
  BY DEF Volatile
<1>2. ASSUME NEW e \in Execution PROVE Turn(e)'
  <2>1. /\ row'[e] # "canceled"
        /\ pid'[e] => worker'[e] # "none"
        /\ row'[e] \in {"none", "claimed"} => lock' # e
    BY <1>2 DEF Turns, Turn, Uncanceled, Spawned, Locked
  <2>. QED
    BY <1>1, <1>2, <2>1
    DEF Turn, Uncanceled, Spawned, Locked, Finalizing, Ending, Delivered,
        Unlocks, NewRuntime, NewCoroutine, Actor, Up
<1>. QED
  BY <1>1, <1>2 DEF Turns, WorkerReserved, Up

\* Where a coroutine stands after it has moved on.
LEMMA GotoStep ==
  ASSUME CoroutineType, NEW e \in Execution, NEW at, Goto(e, at)
  PROVE  /\ co'[e].at = at
         /\ UNCHANGED <<co[e].exit, co[e].rel, co[e].interrupted>>
         /\ \A f \in Execution \ {e} : co'[f] = co[f]
  BY DEF CoroutineType, Coroutine, Goto

LEMMA LeaveStep ==
  ASSUME CoroutineType, NEW e \in Execution, NEW at, NEW exit,
         Leave(e, at, exit)
  PROVE  /\ co'[e].at = at /\ co'[e].exit = exit
         /\ UNCHANGED <<co[e].rel, co[e].interrupted>>
         /\ \A f \in Execution \ {e} : co'[f] = co[f]
  BY DEF CoroutineType, Coroutine, Leave

\* A caller of finalize has moved on.
LEMMA FinalizeMoved ==
  ASSUME FinalizeType, NEW e \in Execution, NEW a \in Actor, NEW at,
         fz' = [fz EXCEPT ![e][a] = at]
  PROVE  /\ fz'[e][a] = at
         /\ \A b \in Actor \ {a} : fz'[e][b] = fz[e][b]
         /\ \A f \in Execution \ {e} : fz'[f] = fz[f]
  BY DEF FinalizeType

\* A coroutine that is past its launch moves on, within execute.
LEMMA TurnMoved ==
  ASSUME NEW e \in Execution, Turn(e),
         UNCHANGED <<row[e], pid[e], worker[e], thread[e], cpc[e], rt[e]>>,
         UNCHANGED <<fz[e]["cancel"], fz[e]["shutdown"]>>,
         UNCHANGED <<mode, todo, lock, held>>,
         fz'[e]["execute"] \in {fz[e]["execute"], "enter"},
         fz'[e]["execute"] # "idle" =>
           co'[e].at \in {"deadline", "outer_stop"},
         thread[e] \notin {"gate", "launched", "recorded"},
         co[e].at \notin {"none", "queued"},
         co'[e].at \notin {"none", "queued", "spawning", "handler"},
         co'[e].exit # "cancel", ~co'[e].interrupted,
         co'[e].rel # "idle" =>
           Unlocks(e) /\ co'[e].at \in {"finally", "except", "outer"},
         row[e] = "completed" =>
           /\ co'[e].at \in {"finally", "except", "outer", "pop", "done"}
           /\ co'[e].at # "finally" => lock # e
  PROVE  Turn(e)'
<1>1. Uncanceled(e)'
  BY DEF Turn, Uncanceled
<1>2. Spawned(e)'
  BY DEF Turn, Spawned, Up
<1>3. Locked(e)'
  BY DEF Turn, Locked, Up, Unlocks
<1>4. Finalizing(e)'
  BY DEF Turn, Finalizing, Actor, Unlocks
<1>5. Ending(e)'
  BY DEF Turn, Ending
<1>6. Delivered(e)'
  BY DEF Turn, Delivered
<1>. QED
  BY <1>1, <1>2, <1>3, <1>4, <1>5, <1>6 DEF Turn

\* Every step of a server nobody cancels keeps the order.
LEMMA TurnsStep ==
  ASSUME Cancelable = {}
  PROVE  TypeOK /\ LaunchProtocol /\ Turns /\ [Next]_vars => Turns' /\ Orderly
<1>. SUFFICES ASSUME TypeOK, LaunchProtocol, Turns, [Next]_vars
              PROVE  Turns' /\ Orderly
  OBVIOUS
<1>. \A e \in Execution : Good(e) /\ Turn(e)
  BY DEF LaunchProtocol, Good, SettledIsStopped, Settled, Turns
<1>1. ASSUME NEW e \in Execution, Send(e)
      PROVE  Turns' /\ Orderly
  <2>1. UNCHANGED <<pid, lock, owner, held, worker, mode, todo, co, rt, fz,
                    cpc, thread>>
    BY <1>1 DEF Send, files, coroutines
  <2>2. /\ row'[e] = IF row[e] = "none" THEN "claimed" ELSE row[e]
        /\ \A f \in Execution \ {e} : row'[f] = row[f]
    BY <1>1 DEF Send, TypeOK, StoredType
  <2>3. Move(e)
    BY <2>1, <2>2 DEF Turns, Move, Stays, Untouched
  <2>4. Turn(e)'
    BY <2>1, <2>2 DEF Turn, Uncanceled, Spawned, Locked, Finalizing, Ending,
       Delivered, Unlocks, Up, NONTERMINAL
  <2>. QED
    BY <2>3, <2>4, TurnTaken
<1>2. ASSUME NEW e \in Execution, Dispatch(e)
      PROVE  Turns' /\ Orderly
  <2>1. UNCHANGED <<pid, lock, owner, held, worker, mode, todo, rt, fz,
                    cpc, thread>>
    BY <1>2 DEF Dispatch, files
  <2>2. CASE ~try_dispatch(e)
    <3>1. row' = row /\ co' = co
      BY <1>2, <2>2 DEF Dispatch
    <3>. QED
      BY <2>1, <3>1, TurnTaken
      DEF Turns, Turn, Move, Stays, Untouched, Uncanceled, Spawned, Locked,
          Finalizing, Ending, Delivered, Unlocks, Up
  <2>3. CASE try_dispatch(e)
    <3>1. /\ row[e] = "claimed" /\ Goto(e, "queued")
          /\ row' = [row EXCEPT ![e] = "running"]
      BY <1>2, <2>3 DEF Dispatch, try_dispatch
    <3>2. row'[e] = "running" /\ \A f \in Execution \ {e} : row'[f] = row[f]
      BY <3>1 DEF TypeOK, StoredType
    <3>3. /\ co'[e].at = "queued"
          /\ UNCHANGED <<co[e].exit, co[e].rel, co[e].interrupted>>
          /\ \A f \in Execution \ {e} : co'[f] = co[f]
      BY <3>1, GotoStep DEF TypeOK
    <3>4. mode = "serving" /\ co[e].at = "none" /\ thread[e] = "none"
      BY <1>2, <3>1 DEF LaunchProtocol, Dispatch, Runs, Good, Fresh, Scheduled
    <3>5. Move(e)
      BY <2>1, <3>2, <3>3 DEF Turns, Move, Stays, Untouched
    <3>6. Turn(e)'
      BY <2>1, <3>1, <3>2, <3>3, <3>4
      DEF Turn, Uncanceled, Spawned, Locked, Finalizing, Ending, Delivered,
          Unlocks, Up, NONTERMINAL
    <3>. QED
      BY <3>5, <3>6, TurnTaken
  <2>. QED
    BY <2>2, <2>3
<1>3. ASSUME NEW e \in Execution,
             \/ SaveTask(e) \/ CancelReturns(e) \/ SpawnRaises(e)
             \/ WorkerExits(e) \/ PidRecycled(e) \/ StrangerExits(e)
      PROVE  Turns' /\ Orderly
  <2>1. UNCHANGED <<row, pid, lock, owner, held, mode, todo, co, rt, fz, cpc>>
    BY <1>3 DEF SaveTask, CancelReturns, SpawnRaises, WorkerExits,
       PidRecycled, StrangerExits, stored, files, coroutines
  <2>2. /\ thread'[e] \in {thread[e], "raised"}
        /\ \A f \in Execution \ {e} : thread'[f] = thread[f]
    BY <1>3 DEF SaveTask, CancelReturns, SpawnRaises, WorkerExits,
       PidRecycled, StrangerExits, TypeOK, ProcessType
  <2>3. /\ \/ worker'[e] = worker[e]
           \/ /\ worker[e] # "none"
              /\ \/ worker'[e] = "dead"
                 \/ worker'[e] = "recycled" /\ ~rt[e].owned
        /\ \A f \in Execution \ {e} : worker'[f] = worker[f]
    BY <1>3 DEF SaveTask, CancelReturns, SpawnRaises, WorkerExits,
       PidRecycled, StrangerExits, TypeOK, ProcessType
  <2>4. Move(e)
    BY <2>1, <2>2, <2>3 DEF Turns, Move, Stays, Untouched
  <2>5. Turn(e)'
    BY <2>1, <2>2, <2>3 DEF Turn, Uncanceled, Spawned, Locked, Finalizing,
       Ending, Delivered, Unlocks, Up
  <2>. QED
    BY <2>4, <2>5, TurnTaken
<1>4. ASSUME NEW e \in Execution, Reject(e)
      PROVE  Turns' /\ Orderly
  <2>1. UNCHANGED <<pid, lock, owner, worker, mode, todo, fz, cpc, thread>>
    BY <1>4 DEF Reject, files
  <2>2. held' = held
    BY <1>4 DEF Reject, Resumes, LoopFree, TypeOK, ServerType, Turns
  <2>3. /\ co[e].at = "queued" /\ ~co[e].interrupted /\ Goto(e, "outer")
        /\ row' = [row EXCEPT ![e] = "rejected"]
        /\ rt' = [rt EXCEPT ![e].registered = TRUE, ![e].final = TRUE]
    BY <1>4 DEF Reject, Resumes
  <2>4. /\ co'[e].at = "outer"
        /\ UNCHANGED <<co[e].exit, co[e].rel, co[e].interrupted>>
        /\ \A f \in Execution \ {e} : co'[f] = co[f]
    BY <2>3, GotoStep DEF TypeOK
  <2>5. row'[e] = "rejected" /\ \A f \in Execution \ {e} : row'[f] = row[f]
    BY <2>3 DEF TypeOK, StoredType
  <2>6. /\ rt'[e].registered /\ rt'[e].final
        /\ UNCHANGED <<rt[e].locked, rt[e].owned, rt[e].blocked>>
        /\ UNCHANGED <<rt[e].closing, rt[e].cleanup>>
        /\ \A f \in Execution \ {e} : rt'[f] = rt[f]
    BY <2>3 DEF TypeOK, RuntimeType, Runtime
  <2>7. Move(e)
    BY <2>1, <2>2, <2>4, <2>5, <2>6 DEF Turns, Move, Stays, Untouched
  <2>8. Turn(e)'
    BY <2>1, <2>2, <2>3, <2>4, <2>5, <2>6
    DEF Good, Scheduled, Turn, Uncanceled, Spawned, Locked, Finalizing,
        Ending, Delivered, Unlocks, Up, NONTERMINAL
  <2>. QED
    BY <2>7, <2>8, TurnTaken
<1>4a. ASSUME NEW e \in Execution, EvidenceFails(e)
        PROVE  Turns' /\ Orderly
  <2>1. UNCHANGED <<row, pid, lock, owner, held, worker, mode, todo, fz, cpc,
                    thread>>
    BY <1>4a DEF EvidenceFails, stored, files
  <2>2. /\ co[e].at = "queued" /\ Leave(e, "done", "raise")
        /\ rt' = [rt EXCEPT ![e].registered = TRUE]
    BY <1>4a DEF EvidenceFails
  <2>3. /\ co'[e].at = "done" /\ co'[e].exit = "raise"
        /\ UNCHANGED <<co[e].rel, co[e].interrupted>>
        /\ \A f \in Execution \ {e} : co'[f] = co[f]
    BY <2>2, LeaveStep DEF TypeOK
  <2>4. /\ UNCHANGED <<rt[e].locked, rt[e].owned, rt[e].blocked>>
        /\ UNCHANGED <<rt[e].closing, rt[e].cleanup, rt[e].final>>
        /\ \A f \in Execution \ {e} : rt'[f] = rt[f]
    BY <2>2 DEF TypeOK, RuntimeType, Runtime
  <2>5. Move(e)
    BY <2>1, <2>3, <2>4 DEF Turns, Move, Stays, Untouched
  <2>6. Turn(e)'
    BY <2>1, <2>2, <2>3, <2>4
    DEF Good, Scheduled, Turn, Uncanceled, Spawned, Locked, Finalizing,
        Ending, Delivered, Unlocks, Up
  <2>. QED
    BY <2>5, <2>6, TurnTaken
<1>5. ASSUME NEW e \in Execution, Prepare(e)
      PROVE  Turns' /\ Orderly
  <2>1. UNCHANGED <<row, pid, owner, worker, mode, todo, fz, cpc>>
    BY <1>5 DEF Prepare, stored
  <2>2. /\ co[e].at = "queued" /\ ~co[e].interrupted /\ Goto(e, "spawning")
        /\ lock = NoExecution /\ lock' = e /\ held' = TRUE
        /\ thread' = [thread EXCEPT ![e] = "gate"]
        /\ rt' = [rt EXCEPT ![e].registered = TRUE, ![e].locked = TRUE]
    BY <1>5 DEF Prepare, Resumes
  <2>3. /\ co'[e].at = "spawning"
        /\ UNCHANGED <<co[e].exit, co[e].rel, co[e].interrupted>>
        /\ \A f \in Execution \ {e} : co'[f] = co[f]
    BY <2>2, GotoStep DEF TypeOK
  <2>4. thread'[e] = "gate" /\ \A f \in Execution \ {e} : thread'[f] = thread[f]
    BY <2>2 DEF TypeOK, ProcessType
  <2>5. /\ rt'[e].registered /\ rt'[e].locked
        /\ UNCHANGED <<rt[e].final, rt[e].owned, rt[e].blocked>>
        /\ UNCHANGED <<rt[e].closing, rt[e].cleanup>>
        /\ \A f \in Execution \ {e} : rt'[f] = rt[f]
    BY <2>2 DEF TypeOK, RuntimeType, Runtime
  <2>6. mode = "serving" /\ worker[e] = "none" /\ ~rt[e].final
    BY <2>2 DEF Good, Scheduled, Turn, Locked
  <2>7. Move(e)
    BY <2>1, <2>2, <2>3, <2>4, <2>5, <2>6 DEF Turns, Move, Takes, Untouched
  <2>8. Turn(e)'
    BY <2>1, <2>2, <2>3, <2>4, <2>5, <2>6
    DEF Good, Scheduled, Turn, Uncanceled, Spawned, Locked, Finalizing,
        Ending, Delivered, Unlocks, Up
  <2>. QED
    BY <2>7, <2>8, TurnTaken
<1>6. ASSUME NEW e \in Execution, PrepareRaises(e)
      PROVE  Turns' /\ Orderly
  <2>1. UNCHANGED <<row, pid, owner, worker, mode, todo, fz, cpc, thread>>
    BY <1>6 DEF PrepareRaises, stored
  <2>2. /\ co[e].at = "queued" /\ ~co[e].interrupted
        /\ Leave(e, "except", "raise")
        /\ lock = NoExecution /\ lock' = e /\ held' = TRUE
        /\ rt' = [rt EXCEPT ![e].registered = TRUE, ![e].locked = TRUE]
    BY <1>6 DEF PrepareRaises, Resumes
  <2>3. /\ co'[e].at = "except" /\ co'[e].exit = "raise"
        /\ UNCHANGED <<co[e].rel, co[e].interrupted>>
        /\ \A f \in Execution \ {e} : co'[f] = co[f]
    BY <2>2, LeaveStep DEF TypeOK
  <2>5. /\ rt'[e].registered /\ rt'[e].locked
        /\ UNCHANGED <<rt[e].final, rt[e].owned, rt[e].blocked>>
        /\ UNCHANGED <<rt[e].closing, rt[e].cleanup>>
        /\ \A f \in Execution \ {e} : rt'[f] = rt[f]
    BY <2>2 DEF TypeOK, RuntimeType, Runtime
  <2>6. /\ mode = "serving" /\ worker[e] = "none" /\ ~rt[e].final
        /\ thread[e] = "none" /\ row[e] = "running"
    BY <2>2 DEF Good, Scheduled, Turn, Locked
  <2>7. Move(e)
    BY <2>1, <2>2, <2>3, <2>5, <2>6 DEF Turns, Move, Takes, Untouched
  <2>8. Turn(e)'
    BY <2>1, <2>2, <2>3, <2>5, <2>6
    DEF Good, Scheduled, Turn, Uncanceled, Spawned, Locked, Finalizing,
        Ending, Delivered, Unlocks, Up
  <2>. QED
    BY <2>7, <2>8, TurnTaken
<1>7. ASSUME NEW e \in Execution, SpawnReturned(e)
      PROVE  Turns' /\ Orderly
  <2>1. UNCHANGED <<row, pid, lock, owner, held, worker, mode, todo, rt,
                    fz, cpc, thread>>
    BY <1>7 DEF SpawnReturned, stored, files
  <2>2. /\ co[e].at = "spawning"
        /\ thread[e] \in {"returned", "refused", "raised"}
        /\ \/ Goto(e, "waiting")
           \/ \E exit \in {"return", "raise"} : Leave(e, "finally", exit)
    BY <1>7 DEF SpawnReturned
  <2>3. /\ co'[e].at \in {"waiting", "finally"}
        /\ co'[e].exit \in {co[e].exit, "return", "raise"}
        /\ UNCHANGED <<co[e].rel, co[e].interrupted>>
        /\ \A f \in Execution \ {e} : co'[f] = co[f]
    BY <2>2, GotoStep, LeaveStep DEF TypeOK
  <2>4. Move(e)
    BY <2>1, <2>3 DEF Turns, Move, Stays, Untouched
  <2>5. Turn(e)'
    BY <2>1, <2>2, <2>3, TurnMoved
    DEF Turn, Uncanceled, Locked, Finalizing, Unlocks, Delivered
  <2>. QED
    BY <2>4, <2>5, TurnTaken
<1>8. ASSUME NEW e \in Execution, WaitOwned(e)
      PROVE  Turns' /\ Orderly
  <2>1. UNCHANGED <<row, pid, lock, owner, held, worker, mode, todo, rt,
                    fz, cpc, thread>>
    BY <1>8 DEF WaitOwned, stored, files
  <2>2. co[e].at = "waiting" /\ (Goto(e, "exited") \/ Goto(e, "expired"))
    BY <1>8 DEF WaitOwned
  <2>3. /\ co'[e].at \in {"exited", "expired"}
        /\ UNCHANGED <<co[e].exit, co[e].rel, co[e].interrupted>>
        /\ \A f \in Execution \ {e} : co'[f] = co[f]
    BY <2>2, GotoStep DEF TypeOK
  <2>4. Move(e)
    BY <2>1, <2>3 DEF Turns, Move, Stays, Untouched
  <2>5. Turn(e)'
    BY <2>1, <2>2, <2>3, TurnMoved
    DEF Turn, Uncanceled, Spawned, Locked, Finalizing, Unlocks, Delivered
  <2>. QED
    BY <2>4, <2>5, TurnTaken
<1>9. ASSUME NEW e \in Execution, NEW outcome \in {"completed", "failed"},
             Deliver(e, outcome)
      PROVE  Turns' /\ Orderly
  <2>1. UNCHANGED <<pid, lock, owner, held, worker, mode, todo, fz, cpc,
                    thread>>
    BY <1>9 DEF Deliver, files
  <2>2. /\ Up /\ co[e].at = "exited" /\ ~rt[e].final /\ ~rt[e].closing
        /\ Leave(e, "finally", "return")
    BY <1>9 DEF Deliver, Resumes, LoopFree
  <2>3. /\ co'[e].at = "finally" /\ co'[e].exit = "return"
        /\ UNCHANGED <<co[e].rel, co[e].interrupted>>
        /\ \A f \in Execution \ {e} : co'[f] = co[f]
    BY <2>2, LeaveStep DEF TypeOK
  <2>4. /\ row'[e] = outcome
        /\ \A f \in Execution \ {e} : row'[f] = row[f]
    BY <1>9 DEF Deliver, TypeOK, StoredType
  <2>5. /\ rt'[e].final
        /\ UNCHANGED <<rt[e].registered, rt[e].blocked, rt[e].locked>>
        /\ UNCHANGED <<rt[e].owned, rt[e].closing, rt[e].cleanup>>
        /\ \A f \in Execution \ {e} : rt'[f] = rt[f]
    BY <1>9 DEF Deliver, TypeOK, RuntimeType, Runtime
  <2>6. Move(e)
    BY <2>1, <2>3, <2>4, <2>5 DEF Turns, Move, Stays, Untouched
  <2>7. Turn(e)'
    BY <2>1, <2>2, <2>3, <2>4, <2>5 DEF Turn, Uncanceled, Spawned, Locked,
       Finalizing, Ending, Delivered, Unlocks, Up
  <2>. QED
    BY <2>6, <2>7, TurnTaken
<1>10. ASSUME NEW e \in Execution, DeliverNothing(e)
      PROVE  Turns' /\ Orderly
  <2>1. UNCHANGED <<row, pid, lock, owner, held, worker, mode, todo, rt,
                    fz, cpc, thread>>
    BY <1>10 DEF DeliverNothing, stored, files
  <2>2. /\ co[e].at = "exited"
        /\ \E exit \in {"return", "raise"} : Leave(e, "finally", exit)
    BY <1>10 DEF DeliverNothing
  <2>3. /\ co'[e].at = "finally" /\ co'[e].exit \in {"return", "raise"}
        /\ UNCHANGED <<co[e].rel, co[e].interrupted>>
        /\ \A f \in Execution \ {e} : co'[f] = co[f]
    BY <2>2, LeaveStep DEF TypeOK
  <2>4. Move(e)
    BY <2>1, <2>3 DEF Turns, Move, Stays, Untouched
  <2>5. Turn(e)'
    BY <2>1, <2>2, <2>3, TurnMoved
    DEF Turn, Uncanceled, Spawned, Locked, Finalizing, Unlocks, Delivered
  <2>. QED
    BY <2>4, <2>5, TurnTaken
<1>11. ASSUME NEW e \in Execution, Expire(e)
      PROVE  Turns' /\ Orderly
  <2>1. UNCHANGED <<row, pid, lock, owner, held, worker, mode, todo, rt,
                    cpc, thread>>
    BY <1>11 DEF Expire, stored, files
  <2>2. co[e].at = "expired" /\ Goto(e, "deadline")
    BY <1>11 DEF Expire
  <2>3. /\ co'[e].at = "deadline"
        /\ UNCHANGED <<co[e].exit, co[e].rel, co[e].interrupted>>
        /\ \A f \in Execution \ {e} : co'[f] = co[f]
    BY <2>2, GotoStep DEF TypeOK
  <2>4. /\ fz'[e]["execute"] = "enter"
        /\ UNCHANGED <<fz[e]["cancel"], fz[e]["shutdown"]>>
        /\ \A f \in Execution \ {e} : fz'[f] = fz[f]
    BY <1>11 DEF Expire, TypeOK, FinalizeType, Actor
  <2>5. Move(e)
    BY <2>1, <2>3, <2>4 DEF Turns, Move, Stays, Untouched
  <2>6. Turn(e)'
    BY <2>1, <2>2, <2>3, <2>4, TurnMoved
    DEF Turn, Uncanceled, Spawned, Locked, Finalizing, Unlocks, Delivered
  <2>. QED
    BY <2>5, <2>6, TurnTaken
<1>12. ASSUME NEW e \in Execution, Finally(e)
      PROVE  Turns' /\ Orderly
  <2>1. UNCHANGED <<row, pid, lock, owner, held, worker, mode, todo, rt,
                    fz, cpc, thread>>
    BY <1>12 DEF Finally, stored, files
  <2>2. /\ Up /\ co[e].at = "finally"
        /\ \/ rt[e].locked /\ co' = [co EXCEPT ![e].rel = "gate"]
           \/ Goto(e, "except") /\ (~rt[e].locked \/ OwnedAlive(e))
    BY <1>12 DEF Finally, Runs
  <2>3. row[e] = "completed" => ~OwnedAlive(e)
    BY DEF Good, Settled, Turn, Spawned, OwnedAlive, is_owned_alive
  <2>4. /\ \/ co'[e].at = "finally" /\ co'[e].rel = "gate" /\ rt[e].locked
           \/ /\ co'[e].at = "except" /\ co'[e].rel = co[e].rel
              /\ ~rt[e].locked \/ OwnedAlive(e)
        /\ UNCHANGED <<co[e].exit, co[e].interrupted>>
        /\ \A f \in Execution \ {e} : co'[f] = co[f]
    BY <2>2, GotoStep DEF TypeOK, CoroutineType, Coroutine
  <2>5. Move(e)
    BY <2>1, <2>4 DEF Turns, Move, Stays, Untouched
  <2>6. Turn(e)'
    BY <2>1, <2>2, <2>3, <2>4, TurnMoved
    DEF Turn, Uncanceled, Spawned, Locked, Finalizing, Unlocks, Delivered
  <2>. QED
    BY <2>5, <2>6, TurnTaken
<1>13. ASSUME NEW e \in Execution, Except(e)
      PROVE  Turns' /\ Orderly
  <2>1. UNCHANGED <<pid, lock, owner, held, worker, mode, todo, rt, fz, cpc,
                    thread>>
    BY <1>13 DEF Except, files, Turn, Uncanceled
  <2>2. /\ Up /\ co[e].at = "except" /\ co[e].rel = "idle"
        /\ \/ Goto(e, "outer")
           \/ rt[e].locked /\ co' = [co EXCEPT ![e].rel = "gate"]
        /\ \/ row' = row
           \/ row' = [row EXCEPT ![e] = "failed"]
    BY <1>13 DEF Except, Runs, Turn, Uncanceled
  <2>3. /\ \/ co'[e].at = "outer" /\ co'[e].rel = "idle"
           \/ co'[e].at = "except" /\ rt[e].locked
        /\ UNCHANGED <<co[e].exit, co[e].interrupted>>
        /\ \A f \in Execution \ {e} : co'[f] = co[f]
    BY <2>2, GotoStep DEF TypeOK, CoroutineType, Coroutine
  <2>4. /\ row'[e] \in {row[e], "failed"}
        /\ \A f \in Execution \ {e} : row'[f] = row[f]
    BY <2>2 DEF TypeOK, StoredType
  <2>5. Move(e)
    BY <2>1, <2>3, <2>4 DEF Turns, Move, Stays, Untouched
  <2>6. Turn(e)'
    BY <2>1, <2>2, <2>3, <2>4 DEF Turn, Uncanceled, Spawned, Locked,
       Finalizing, Ending, Delivered, Unlocks, Up
  <2>. QED
    BY <2>5, <2>6, TurnTaken
<1>14. ASSUME NEW e \in Execution, Outer(e)
      PROVE  Turns' /\ Orderly
  <2>1. UNCHANGED <<row, pid, lock, owner, held, worker, mode, todo, rt,
                    cpc, thread>>
    BY <1>14 DEF Outer, stored, files
  <2>2. /\ co[e].at = "outer" /\ co[e].rel = "idle"
        /\ \/ Goto(e, "drain") /\ fz' = fz /\ ~rt[e].final
           \/ Goto(e, "pop") /\ fz' = fz
           \/ /\ rt[e].locked /\ ~rt[e].final
              /\ co' = [co EXCEPT ![e].rel = "gate"] /\ fz' = fz
           \/ /\ Goto(e, "outer_stop") /\ ~rt[e].final
              /\ fz' = [fz EXCEPT ![e]["execute"] = "enter"]
    BY <1>14 DEF Outer
  <2>3. /\ co'[e].at \in {"outer", "pop", "drain", "outer_stop"}
        /\ co'[e].at # "pop" => ~rt[e].final
        /\ co'[e].rel = "idle" \/ (rt[e].locked /\ co'[e].at = "outer")
        /\ UNCHANGED <<co[e].exit, co[e].interrupted>>
        /\ \A f \in Execution \ {e} : co'[f] = co[f]
    BY <2>2, GotoStep DEF TypeOK, CoroutineType, Coroutine
  <2>4. /\ \/ fz'[e]["execute"] = fz[e]["execute"]
           \/ fz'[e]["execute"] = "enter" /\ co'[e].at = "outer_stop"
        /\ UNCHANGED <<fz[e]["cancel"], fz[e]["shutdown"]>>
        /\ \A f \in Execution \ {e} : fz'[f] = fz[f]
    BY <2>2, GotoStep DEF TypeOK, FinalizeType, Actor
  <2>5. Move(e)
    BY <2>1, <2>3, <2>4 DEF Turns, Move, Stays, Untouched
  <2>6. Turn(e)'
    BY <2>1, <2>2, <2>3, <2>4, TurnMoved
    DEF Turn, Uncanceled, Spawned, Locked, Finalizing, Unlocks, Delivered
  <2>. QED
    BY <2>5, <2>6, TurnTaken
<1>15. ASSUME NEW e \in Execution, Drained(e)
      PROVE  Turns' /\ Orderly
  <2>1. UNCHANGED <<row, pid, lock, owner, held, worker, mode, todo, rt, fz,
                    cpc, thread>>
    BY <1>15 DEF Drained, stored, files
  <2>2. co[e].at = "drain" /\ Goto(e, "pop")
    BY <1>15 DEF Drained
  <2>3. /\ co'[e].at = "pop"
        /\ UNCHANGED <<co[e].exit, co[e].rel, co[e].interrupted>>
        /\ \A f \in Execution \ {e} : co'[f] = co[f]
    BY <2>2, GotoStep DEF TypeOK
  <2>4. Move(e)
    BY <2>1, <2>3 DEF Turns, Move, Stays, Untouched
  <2>5. Turn(e)'
    BY <2>1, <2>2, <2>3, TurnMoved
    DEF Turn, Uncanceled, Spawned, Locked, Finalizing, Unlocks, Delivered
  <2>. QED
    BY <2>4, <2>5, TurnTaken
<1>16. ASSUME NEW e \in Execution, Pop(e)
      PROVE  Turns' /\ Orderly
  <2>1. UNCHANGED <<row, pid, lock, owner, held, worker, mode, todo, fz, cpc,
                    thread>>
    BY <1>16 DEF Pop, stored, files
  <2>2. co[e].at = "pop" /\ Goto(e, "done")
    BY <1>16 DEF Pop
  <2>3. /\ co'[e].at = "done"
        /\ UNCHANGED <<co[e].exit, co[e].rel, co[e].interrupted>>
        /\ \A f \in Execution \ {e} : co'[f] = co[f]
    BY <2>2, GotoStep DEF TypeOK
  <2>4. /\ ~rt'[e].registered
        /\ UNCHANGED <<rt[e].final, rt[e].blocked, rt[e].locked>>
        /\ UNCHANGED <<rt[e].owned, rt[e].closing, rt[e].cleanup>>
        /\ \A f \in Execution \ {e} : rt'[f] = rt[f]
    BY <1>16 DEF Pop, TypeOK, RuntimeType, Runtime
  <2>5. Move(e)
    BY <2>1, <2>3, <2>4 DEF Turns, Move, Stays, Untouched
  <2>6. Turn(e)'
    BY <2>1, <2>2, <2>3, <2>4 DEF Turn, Uncanceled, Spawned, Locked,
       Finalizing, Ending, Delivered, Unlocks, Up
  <2>. QED
    BY <2>5, <2>6, TurnTaken
<1>17. ASSUME NEW e \in Execution, CloseGateForRelease(e)
      PROVE  Turns' /\ Orderly
  <2>1. UNCHANGED <<row, pid, lock, owner, held, worker, mode, todo, fz, cpc,
                    thread>>
    BY <1>17 DEF CloseGateForRelease, stored, files
  <2>2. co[e].rel = "gate" /\ thread[e] \notin {"launched", "recorded"}
    BY <1>17 DEF CloseGateForRelease, SpawnLockFree
  <2>3. /\ co'[e].rel = "closed"
        /\ UNCHANGED <<co[e].at, co[e].exit, co[e].interrupted>>
        /\ \A f \in Execution \ {e} : co'[f] = co[f]
    BY <1>17 DEF CloseGateForRelease, TypeOK, CoroutineType, Coroutine
  <2>4. /\ rt'[e].blocked
        /\ UNCHANGED <<rt[e].registered, rt[e].final, rt[e].locked>>
        /\ UNCHANGED <<rt[e].owned, rt[e].closing, rt[e].cleanup>>
        /\ \A f \in Execution \ {e} : rt'[f] = rt[f]
    BY <1>17 DEF CloseGateForRelease, TypeOK, RuntimeType, Runtime
  <2>5. Move(e)
    BY <2>1, <2>3, <2>4 DEF Turns, Move, Stays, Untouched
  <2>6. Turn(e)'
    BY <2>1, <2>2, <2>3, <2>4 DEF Turn, Uncanceled, Spawned, Locked,
       Finalizing, Ending, Delivered, Unlocks, Up
  <2>. QED
    BY <2>5, <2>6, TurnTaken
<1>18. ASSUME NEW e \in Execution, ReleaseIfSafe(e)
      PROVE  Turns' /\ Orderly
  <2>1. UNCHANGED <<row, pid, worker, mode, todo, fz, cpc, thread>>
    BY <1>18 DEF ReleaseIfSafe, stored
  <2>2. /\ Up /\ co[e].rel = "closed"
        /\ co'[e].at = AfterRelease(e) /\ co'[e].rel = "idle"
        /\ UNCHANGED <<co[e].exit, co[e].interrupted>>
        /\ \A f \in Execution \ {e} : co'[f] = co[f]
    <3>1. ~UnlockRaises
      BY <1>18 DEF ReleaseIfSafe, Resumes, LoopFree, Turns, UnlockRaises
    <3>2. co' = [co EXCEPT ![e].rel = "idle", ![e].at = AfterRelease(e)]
      BY <1>18, <3>1 DEF ReleaseIfSafe
    <3>. QED
      BY <1>18, <3>2
      DEF ReleaseIfSafe, Resumes, LoopFree, TypeOK, CoroutineType, Coroutine
  <2>3. /\ co[e].at \notin {"none", "queued"}
        /\ co'[e].at \notin {"none", "queued", "spawning", "handler"}
        /\ co'[e].at \in {"except", "outer", "pop"}
    BY <2>2 DEF Good, Scheduled, AfterRelease
  <2>4. thread[e] \notin {"gate", "launched", "recorded"}
    BY <2>2 DEF Turn, Spawned, Locked
  <2>5. CASE OwnedAlive(e)
    <3>1. UNCHANGED <<lock, owner, held, rt>>
      BY <1>18, <2>5 DEF ReleaseIfSafe, files
    <3>2. row[e] # "completed"
      BY <2>5 DEF Good, Settled, Turn, Spawned, OwnedAlive, is_owned_alive
    <3>3. Move(e)
      BY <2>1, <2>2, <3>1 DEF Turns, Move, Stays, Untouched
    <3>4. Turn(e)'
      BY <2>1, <2>2, <2>3, <2>4, <3>1, <3>2, TurnMoved
      DEF Turn, Uncanceled, Locked, Finalizing
    <3>. QED
      BY <3>3, <3>4, TurnTaken
  <2>6. CASE ~OwnedAlive(e)
    <3>1. Unlock /\ rt' = [rt EXCEPT ![e].locked = FALSE]
      BY <1>18, <2>6
      DEF ReleaseIfSafe, Resumes, LoopFree, Turns, UnlockRaises
    <3>2. /\ ~rt'[e].locked
          /\ UNCHANGED <<rt[e].registered, rt[e].final, rt[e].owned>>
          /\ UNCHANGED <<rt[e].blocked, rt[e].closing, rt[e].cleanup>>
          /\ \A f \in Execution \ {e} : rt'[f] = rt[f]
      BY <3>1 DEF TypeOK, RuntimeType, Runtime
    <3>3. \/ /\ rt[e].locked /\ lock = e
             /\ lock' = NoExecution /\ owner' = NoExecution /\ held' = FALSE
          \/ /\ ~rt[e].locked /\ ~held /\ UNCHANGED <<lock, owner, held>>
             /\ lock # e /\ mode # "serving"
      BY <2>2, <2>3, <3>1, ServerAssumption
      DEF Turn, Locked, Unlocks, Unlock, TypeOK, ServerType, ServerAssumption
    <3>4. worker[e] # "live"
      BY <2>3, <2>6 DEF Good, Launched, OwnedAlive, is_owned_alive
    <3>5. Move(e)
      <4>1. co'[e] # co[e]
        BY <2>2
      <4>. QED
        BY <2>1, <2>2, <3>2, <3>3, <3>4, <4>1
        DEF Turns, Move, Stays, Leaves, Untouched
    <3>6. e # NoExecution
      BY ServerAssumption DEF ServerAssumption
    <3>7. Uncanceled(e)' /\ Spawned(e)'
      BY <2>1, <2>2, <2>3, <2>4, <3>2 DEF Turn, Uncanceled, Spawned
    <3>8. Locked(e)' /\ Finalizing(e)'
      BY <2>1, <2>2, <2>3, <3>2, <3>3, <3>6
      DEF Turn, Uncanceled, Locked, Finalizing, Ending, Unlocks, Up, Actor
    <3>9. Ending(e)' /\ Delivered(e)'
      BY <2>1, <2>2, <2>3, <3>2, <3>3, <3>6 DEF Turn, Ending, Delivered
    <3>10. Turn(e)'
      BY <3>7, <3>8, <3>9 DEF Turn
    <3>. QED
      BY <3>5, <3>10, TurnTaken
  <2>. QED
    BY <2>5, <2>6
<1>19. ASSUME NEW e \in Execution,
              Interrupted(e) \/ Cancel(e) \/ CancelStop(e) \/ CancelAnswer(e)
       PROVE  FALSE
  BY <1>19 DEF Interrupted, Cancel, Cancels, CancelStop, CancelAnswer, Turn,
     Uncanceled
<1>20. ASSUME NEW e \in Execution, ExecuteResumes(e)
      PROVE  Turns' /\ Orderly
  <2>1. UNCHANGED <<row, pid, lock, owner, held, worker, mode, todo, rt,
                    fz, cpc, thread>>
    BY <1>20 DEF ExecuteResumes, stored, files
  <2>2. /\ co[e].at \in {"deadline", "outer_stop"} /\ fz[e]["execute"] = "idle"
        /\ Leave(e, "finally", "return") \/ Goto(e, "pop")
    BY <1>20 DEF ExecuteResumes, Turn, Uncanceled
  <2>3. /\ co'[e].at \in {"finally", "pop"}
        /\ co'[e].exit \in {co[e].exit, "return"}
        /\ UNCHANGED <<co[e].rel, co[e].interrupted>>
        /\ \A f \in Execution \ {e} : co'[f] = co[f]
    BY <2>2, LeaveStep, GotoStep DEF TypeOK
  <2>4. Move(e)
    BY <2>1, <2>3 DEF Turns, Move, Stays, Untouched
  <2>5. Turn(e)'
    BY <2>1, <2>2, <2>3, TurnMoved
    DEF Turn, Uncanceled, Spawned, Locked, Finalizing, Unlocks, Delivered
  <2>. QED
    BY <2>4, <2>5, TurnTaken
<1>21. ASSUME NEW e \in Execution, Launch(e)
      PROVE  Turns' /\ Orderly
  <2>1. UNCHANGED <<row, pid, lock, owner, held, mode, todo, co, fz, cpc>>
    BY <1>21 DEF Launch, stored, files
  <2>2. mode # "down" /\ thread[e] = "gate" /\ co[e].at = "spawning"
    BY <1>21 DEF Launch, Turn, Spawned
  <2>3. CASE SpawnAllowed(e)
    <3>1. /\ thread' = [thread EXCEPT ![e] = "launched"]
          /\ worker' = [worker EXCEPT ![e] = "live"]
          /\ rt' = [rt EXCEPT ![e].owned = TRUE]
      BY <1>21, <2>3 DEF Launch
    <3>2. /\ thread'[e] = "launched" /\ worker'[e] = "live"
          /\ \A f \in Execution \ {e} :
               thread'[f] = thread[f] /\ worker'[f] = worker[f]
      BY <3>1 DEF TypeOK, ProcessType
    <3>3. /\ rt'[e].owned
          /\ UNCHANGED <<rt[e].registered, rt[e].final, rt[e].locked>>
          /\ UNCHANGED <<rt[e].blocked, rt[e].closing, rt[e].cleanup>>
          /\ \A f \in Execution \ {e} : rt'[f] = rt[f]
      BY <3>1 DEF TypeOK, RuntimeType, Runtime
    <3>4. worker[e] = "none" /\ ~rt[e].blocked
      BY <2>2, <2>3 DEF Good, Gated, SpawnAllowed
    <3>5. Up /\ lock = e
      BY <2>2, <3>4 DEF Turn, Spawned, Locked, Ending, Up, TypeOK, ServerType
    <3>6. Move(e)
      BY <2>1, <3>2, <3>3, <3>4, <3>5 DEF Turns, Move, Stays, Untouched
    <3>7. Turn(e)'
      BY <2>1, <2>2, <3>2, <3>3, <3>4
      DEF Turn, Uncanceled, Spawned, Locked, Finalizing, Ending, Delivered,
          Unlocks, Up
    <3>. QED
      BY <3>6, <3>7, TurnTaken
  <2>4. CASE ~SpawnAllowed(e)
    <3>1. thread' = [thread EXCEPT ![e] = "refused"] /\ UNCHANGED <<worker, rt>>
      BY <1>21, <2>4 DEF Launch
    <3>2. /\ thread'[e] = "refused"
          /\ \A f \in Execution \ {e} : thread'[f] = thread[f]
      BY <3>1 DEF TypeOK, ProcessType
    <3>3. Move(e)
      BY <2>1, <3>1, <3>2 DEF Turns, Move, Stays, Untouched
    <3>4. Turn(e)'
      BY <2>1, <3>1, <3>2
      DEF Turn, Uncanceled, Spawned, Locked, Finalizing, Ending, Delivered,
          Unlocks, Up
    <3>. QED
      BY <3>3, <3>4, TurnTaken
  <2>. QED
    BY <2>3, <2>4
<1>22. ASSUME NEW e \in Execution, WriteOwner(e)
      PROVE  Turns' /\ Orderly
  <2>1. UNCHANGED <<row, pid, lock, held, worker, mode, todo, co, rt, fz, cpc>>
    BY <1>22 DEF WriteOwner, stored, coroutines
  <2>2. /\ mode # "down" /\ thread[e] = "launched" /\ owner' = e
        /\ thread' = [thread EXCEPT ![e] = "recorded"]
    BY <1>22 DEF WriteOwner
  <2>3. /\ thread'[e] = "recorded"
        /\ \A f \in Execution \ {e} : thread'[f] = thread[f]
    BY <2>2 DEF TypeOK, ProcessType
  <2>4. lock = e
    BY <2>2 DEF Turn, Spawned, Locked, Ending, Up, TypeOK, ServerType
  <2>5. Move(e)
    BY <2>1, <2>2, <2>3, <2>4 DEF Move, Stays, Untouched
  <2>6. Turn(e)'
    BY <2>1, <2>2, <2>3
    DEF Turn, Uncanceled, Spawned, Locked, Finalizing, Ending, Delivered,
        Unlocks, Up
  <2>. QED
    BY <2>5, <2>6, TurnTaken
<1>23. ASSUME NEW e \in Execution, RecordPid(e)
      PROVE  Turns' /\ Orderly
  <2>1. UNCHANGED <<lock, owner, held, worker, mode, todo, co, rt, fz, cpc>>
    BY <1>23 DEF RecordPid, files, coroutines
  <2>2. /\ mode # "down" /\ thread[e] = "recorded"
        /\ row' = [row EXCEPT ![e] = "running"]
        /\ pid' = [pid EXCEPT ![e] = TRUE]
        /\ thread' = [thread EXCEPT ![e] = "returned"]
    BY <1>23 DEF RecordPid
  <2>3. /\ row'[e] = "running" /\ pid'[e] /\ thread'[e] = "returned"
        /\ \A f \in Execution \ {e} : /\ row'[f] = row[f] /\ pid'[f] = pid[f]
                                      /\ thread'[f] = thread[f]
    BY <2>2 DEF TypeOK, StoredType, ProcessType
  <2>4. worker[e] # "none"
    BY <2>2 DEF Turn, Spawned
  <2>5. Move(e)
    BY <2>1, <2>3 DEF Turns, Move, Stays, Untouched
  <2>6. Turn(e)'
    BY <2>1, <2>2, <2>3, <2>4
    DEF Turn, Uncanceled, Spawned, Locked, Finalizing, Ending, Delivered,
        Unlocks, Up, NONTERMINAL
  <2>. QED
    BY <2>5, <2>6, TurnTaken
<1>24. ASSUME NEW e \in Execution, NEW a \in Actor, FinalizeEnter(e, a)
      PROVE  Turns' /\ Orderly
  <2>1. UNCHANGED <<row, pid, lock, owner, held, worker, mode, todo, co, cpc,
                    thread>>
    BY <1>24 DEF FinalizeEnter, stored, files
  <2>2. /\ fz[e][a] = "enter" /\ a # "cancel"
        /\ \/ UNCHANGED <<rt, fz>>
           \/ /\ rt[e].final /\ fz' = [fz EXCEPT ![e][a] = "idle"] /\ rt' = rt
           \/ /\ rt[e].cleanup = "none" /\ ~rt[e].final
              /\ rt' = [rt EXCEPT ![e].closing = TRUE, ![e].cleanup = a]
              /\ fz' = [fz EXCEPT ![e][a] = "gate"]
    BY <1>24 DEF FinalizeEnter, Turn, Uncanceled
  <2>3. CASE UNCHANGED <<rt, fz>>
    <3>1. Move(e)
      BY <2>1, <2>3 DEF Turns, Move, Stays, Untouched
    <3>2. Turn(e)'
      BY <2>1, <2>3 DEF Turn, Uncanceled, Spawned, Locked, Finalizing, Ending,
         Delivered, Unlocks, Up
    <3>. QED
      BY <3>1, <3>2, TurnTaken
  <2>4. CASE rt[e].final /\ fz' = [fz EXCEPT ![e][a] = "idle"] /\ rt' = rt
    <3>1. /\ fz'[e][a] = "idle"
          /\ \A b \in Actor \ {a} : fz'[e][b] = fz[e][b]
          /\ \A f \in Execution \ {e} : fz'[f] = fz[f]
      BY <2>4, FinalizeMoved DEF TypeOK
    <3>2. Move(e)
      BY <2>1, <2>4, <3>1 DEF Turns, Move, Stays, Untouched
    <3>3. Turn(e)'
      BY <2>1, <2>2, <2>4, <3>1 DEF Turn, Uncanceled, Spawned, Locked,
         Finalizing, Ending, Delivered, Unlocks, Up, Actor
    <3>. QED
      BY <3>2, <3>3, TurnTaken
  <2>5. CASE /\ rt[e].cleanup = "none" /\ ~rt[e].final
             /\ rt' = [rt EXCEPT ![e].closing = TRUE, ![e].cleanup = a]
             /\ fz' = [fz EXCEPT ![e][a] = "gate"]
    <3>1. /\ fz'[e][a] = "gate"
          /\ \A b \in Actor \ {a} : fz'[e][b] = fz[e][b]
          /\ \A f \in Execution \ {e} : fz'[f] = fz[f]
      BY <2>5, FinalizeMoved DEF TypeOK
    <3>2. /\ rt'[e].closing /\ rt'[e].cleanup = a
          /\ UNCHANGED <<rt[e].registered, rt[e].final, rt[e].locked>>
          /\ UNCHANGED <<rt[e].owned, rt[e].blocked>>
          /\ \A f \in Execution \ {e} : rt'[f] = rt[f]
      BY <2>5 DEF TypeOK, RuntimeType, Runtime
    <3>3. Move(e)
      BY <2>1, <3>1, <3>2 DEF Turns, Move, Stays, Untouched
    <3>4. \A b \in Actor : fz[e][b] \in {"idle", "enter"}
      BY <2>5 DEF Turn, Finalizing, Actor
    <3>5. co[e].at # "none"
      BY <2>2 DEF Good, Scheduled
    <3>6. Turn(e)'
      BY <2>1, <2>2, <2>5, <3>1, <3>2, <3>4, <3>5 DEF Turn, Uncanceled,
         Spawned, Locked, Finalizing, Ending, Delivered, Unlocks, Up, Actor
    <3>. QED
      BY <3>3, <3>6, TurnTaken
  <2>. QED
    BY <2>2, <2>3, <2>4, <2>5
<1>25. ASSUME NEW e \in Execution, NEW a \in Actor, FinalizeGate(e, a)
      PROVE  Turns' /\ Orderly
  <2>1. UNCHANGED <<row, pid, lock, owner, held, worker, mode, todo, co, cpc,
                    thread>>
    BY <1>25 DEF FinalizeGate, stored, files
  <2>2. PICK at \in {"gated", "releasing"} :
          /\ \/ fz[e][a] = "gate" /\ at = "gated"
             \/ fz[e][a] = "release" /\ at = "releasing"
          /\ fz' = [fz EXCEPT ![e][a] = at]
    BY <1>25 DEF FinalizeGate
  <2>3. /\ fz'[e][a] = at
        /\ \A b \in Actor \ {a} : fz'[e][b] = fz[e][b]
        /\ \A f \in Execution \ {e} : fz'[f] = fz[f]
    BY <2>2, FinalizeMoved DEF TypeOK
  <2>4. /\ rt'[e].blocked
        /\ UNCHANGED <<rt[e].registered, rt[e].final, rt[e].locked>>
        /\ UNCHANGED <<rt[e].owned, rt[e].closing, rt[e].cleanup>>
        /\ \A f \in Execution \ {e} : rt'[f] = rt[f]
    BY <1>25 DEF FinalizeGate, TypeOK, RuntimeType, Runtime
  <2>5. a # "cancel" /\ thread[e] \notin {"launched", "recorded"}
    BY <1>25, <2>2 DEF FinalizeGate, SpawnLockFree, Turn, Uncanceled
  <2>6. Move(e)
    BY <2>1, <2>3, <2>4 DEF Turns, Move, Stays, Untouched
  <2>7. Turn(e)'
    BY <2>1, <2>2, <2>3, <2>4, <2>5 DEF Turn, Uncanceled, Spawned, Locked,
       Finalizing, Ending, Delivered, Unlocks, Up, Actor
  <2>. QED
    BY <2>6, <2>7, TurnTaken
<1>26. ASSUME NEW e \in Execution, NEW a \in Actor, FinalizeGated(e, a)
      PROVE  Turns' /\ Orderly
  <2>1. UNCHANGED <<row, pid, lock, owner, held, worker, mode, todo, co, rt,
                    cpc, thread>>
    BY <1>26 DEF FinalizeGated, stored, files
  <2>2. PICK at \in {"stop", "stopped"} : fz' = [fz EXCEPT ![e][a] = at]
    BY <1>26 DEF FinalizeGated
  <2>3. /\ fz'[e][a] = at
        /\ \A b \in Actor \ {a} : fz'[e][b] = fz[e][b]
        /\ \A f \in Execution \ {e} : fz'[f] = fz[f]
    BY <2>2, FinalizeMoved DEF TypeOK
  <2>4. fz[e][a] = "gated" /\ a # "cancel"
    BY <1>26 DEF FinalizeGated, Turn, Uncanceled
  <2>5. Move(e)
    BY <2>1, <2>3 DEF Turns, Move, Stays, Untouched
  <2>6. Turn(e)'
    BY <2>1, <2>3, <2>4 DEF Turn, Uncanceled, Spawned, Locked, Finalizing,
       Ending, Delivered, Unlocks, Up, Actor
  <2>. QED
    BY <2>5, <2>6, TurnTaken
<1>27. ASSUME NEW e \in Execution, NEW a \in Actor, FinalizeStop(e, a)
      PROVE  Turns' /\ Orderly
  <2>1. UNCHANGED <<row, pid, lock, owner, held, mode, todo, co, rt, cpc,
                    thread>>
    BY <1>27 DEF FinalizeStop, stored, files
  <2>2. PICK at \in {"stopped", "unstopped"} : fz' = [fz EXCEPT ![e][a] = at]
    BY <1>27 DEF FinalizeStop
  <2>3. /\ fz'[e][a] = at
        /\ \A b \in Actor \ {a} : fz'[e][b] = fz[e][b]
        /\ \A f \in Execution \ {e} : fz'[f] = fz[f]
    BY <2>2, FinalizeMoved DEF TypeOK
  <2>4. fz[e][a] = "stop" /\ a # "cancel"
    BY <1>27 DEF FinalizeStop, Turn, Uncanceled
  <2>5. worker[e] # "none"
    BY <2>4 DEF Good, Stopping, Turn, Spawned
  <2>6. /\ worker'[e] \in {worker[e], "dead"}
        /\ \A f \in Execution \ {e} : worker'[f] = worker[f]
    BY <1>27 DEF FinalizeStop, TypeOK, ProcessType
  <2>7. Move(e)
    BY <2>1, <2>3, <2>5, <2>6 DEF Turns, Move, Stays, Untouched
  <2>8. Turn(e)'
    BY <2>1, <2>3, <2>4, <2>5, <2>6 DEF Turn, Uncanceled, Spawned, Locked,
       Finalizing, Ending, Delivered, Unlocks, Up, Actor
  <2>. QED
    BY <2>7, <2>8, TurnTaken
<1>28. ASSUME NEW e \in Execution, NEW a \in Actor, FinalizeRecovery(e, a)
      PROVE  Turns' /\ Orderly
  <2>1. UNCHANGED <<pid, lock, owner, held, worker, mode, todo, co, cpc,
                    thread>>
    BY <1>28 DEF FinalizeRecovery, files
  <2>2. fz[e][a] = "unstopped" /\ a # "cancel"
    BY <1>28 DEF FinalizeRecovery, Turn, Uncanceled
  <2>3. /\ fz'[e][a] = "idle"
        /\ \A b \in Actor \ {a} : fz'[e][b] = fz[e][b]
        /\ \A f \in Execution \ {e} : fz'[f] = fz[f]
    BY <1>28, FinalizeMoved DEF FinalizeRecovery, TypeOK
  <2>4. /\ rt'[e].final /\ rt'[e].cleanup = "none"
        /\ UNCHANGED <<rt[e].registered, rt[e].blocked, rt[e].locked>>
        /\ UNCHANGED <<rt[e].owned, rt[e].closing>>
        /\ \A f \in Execution \ {e} : rt'[f] = rt[f]
    BY <1>28 DEF FinalizeRecovery, TypeOK, RuntimeType, Runtime
  <2>5. /\ row'[e] = "recovery_required"
        /\ \A f \in Execution \ {e} : row'[f] = row[f]
    BY <1>28 DEF FinalizeRecovery, TypeOK, StoredType
  <2>6. \A b \in Actor \ {a} : fz[e][b] \in {"idle", "enter"}
    BY <2>2 DEF Turn, Finalizing
  <2>7. co[e].at \notin {"none", "queued"}
    BY <2>2 DEF Good, Scheduled
  <2>8. Move(e)
    BY <2>1, <2>3, <2>4, <2>5 DEF Turns, Move, Stays, Untouched
  <2>9. Turn(e)'
    BY <2>1, <2>2, <2>3, <2>4, <2>5, <2>6, <2>7 DEF Turn, Uncanceled, Spawned,
       Locked, Finalizing, Ending, Delivered, Unlocks, Up, Actor, NONTERMINAL
  <2>. QED
    BY <2>8, <2>9, TurnTaken
<1>29. ASSUME NEW e \in Execution, NEW a \in Actor, FinalizeSettle(e, a)
      PROVE  Turns' /\ Orderly
  <2>1. UNCHANGED <<pid, held, worker, mode, todo, co, cpc, thread>>
    BY <1>29 DEF FinalizeSettle
  <2>2. fz[e][a] = "stopped" /\ a # "cancel" /\ Up
    BY <1>29
    DEF FinalizeSettle, FinalizeRuns, Runs, LoopFree, Turn, Uncanceled
  <2>3. /\ row'[e] = "failed"
        /\ \A f \in Execution \ {e} : row'[f] = row[f]
    BY <1>29, <2>2
    DEF FinalizeSettle, Kind, Turn, Uncanceled, TypeOK, StoredType
  <2>4. \A b \in Actor \ {a} : fz[e][b] \in {"idle", "enter"}
    BY <2>2 DEF Turn, Finalizing
  <2>5. co[e].at \notin {"none", "queued"}
    BY <2>2 DEF Good, Scheduled
  <2>6. CASE rt[e].locked
    <3>1. UNCHANGED <<lock, owner, rt>> /\ fz' = [fz EXCEPT ![e][a] = "release"]
      BY <1>29, <2>6 DEF FinalizeSettle, files
    <3>2. /\ fz'[e][a] = "release"
          /\ \A b \in Actor \ {a} : fz'[e][b] = fz[e][b]
          /\ \A f \in Execution \ {e} : fz'[f] = fz[f]
      BY <3>1, FinalizeMoved DEF TypeOK
    <3>3. Move(e)
      BY <2>1, <2>3, <3>1, <3>2 DEF Turns, Move, Stays, Untouched
    <3>4. Turn(e)'
      BY <2>1, <2>2, <2>3, <2>4, <2>5, <2>6, <3>1, <3>2 DEF Turn, Uncanceled,
         Spawned, Locked, Finalizing, Ending, Delivered, Unlocks, Up, Actor
    <3>. QED
      BY <3>3, <3>4, TurnTaken
  <2>7. CASE ~rt[e].locked
    <3>1. /\ release_lock_if_owner(e)
          /\ rt' = [rt EXCEPT ![e].final = TRUE, ![e].cleanup = "none"]
          /\ fz' = [fz EXCEPT ![e][a] = "idle"]
      BY <1>29, <2>7 DEF FinalizeSettle
    <3>2. owner # e
      BY <2>2, <2>5, <2>7, ServerAssumption
      DEF Turns, Turn, Locked, ServerAssumption
    <3>3. UNCHANGED <<lock, owner>>
      BY <3>1, <3>2 DEF release_lock_if_owner
    <3>4. /\ fz'[e][a] = "idle"
          /\ \A b \in Actor \ {a} : fz'[e][b] = fz[e][b]
          /\ \A f \in Execution \ {e} : fz'[f] = fz[f]
      BY <3>1, FinalizeMoved DEF TypeOK
    <3>5. /\ rt'[e].final /\ rt'[e].cleanup = "none"
          /\ UNCHANGED <<rt[e].registered, rt[e].blocked, rt[e].locked>>
          /\ UNCHANGED <<rt[e].owned, rt[e].closing>>
          /\ \A f \in Execution \ {e} : rt'[f] = rt[f]
      BY <3>1 DEF TypeOK, RuntimeType, Runtime
    <3>6. Move(e)
      BY <2>1, <2>3, <3>3, <3>4, <3>5 DEF Turns, Move, Stays, Untouched
    <3>7. Turn(e)'
      BY <2>1, <2>2, <2>3, <2>4, <2>5, <3>3, <3>4, <3>5 DEF Turn, Uncanceled,
         Spawned, Locked, Finalizing, Ending, Delivered, Unlocks, Up, Actor
    <3>. QED
      BY <3>6, <3>7, TurnTaken
  <2>. QED
    BY <2>6, <2>7
<1>30. ASSUME NEW e \in Execution, NEW a \in Actor, FinalizeRelease(e, a)
      PROVE  Turns' /\ Orderly
  <2>1. UNCHANGED <<row, pid, worker, mode, todo, co, cpc, thread>>
    BY <1>30 DEF FinalizeRelease, stored
  <2>2. fz[e][a] = "releasing" /\ a # "cancel" /\ Up
    BY <1>30
    DEF FinalizeRelease, FinalizeRuns, Runs, LoopFree, Turn, Uncanceled
  <2>3. /\ fz'[e][a] = "idle"
        /\ \A b \in Actor \ {a} : fz'[e][b] = fz[e][b]
        /\ \A f \in Execution \ {e} : fz'[f] = fz[f]
    BY <1>30, FinalizeMoved DEF FinalizeRelease, TypeOK
  <2>4. /\ \A b \in Actor \ {a} : fz[e][b] \in {"idle", "enter"}
        /\ rt[e].closing /\ rt[e].blocked /\ rt[e].cleanup = a
    BY <2>2 DEF Turn, Finalizing
  <2>5. co[e].at \notin {"none", "queued"} /\ row[e] # "completed"
    BY <2>2, <2>4 DEF Good, Scheduled, Turn, Delivered
  <2>6. CASE OwnedAlive(e)
    <3>1. /\ UNCHANGED <<lock, owner, held>>
          /\ rt' = [rt EXCEPT ![e].final = TRUE, ![e].cleanup = "none"]
      BY <1>30, <2>6 DEF FinalizeRelease, files
    <3>2. /\ rt'[e].final /\ rt'[e].cleanup = "none"
          /\ UNCHANGED <<rt[e].registered, rt[e].blocked, rt[e].locked>>
          /\ UNCHANGED <<rt[e].owned, rt[e].closing>>
          /\ \A f \in Execution \ {e} : rt'[f] = rt[f]
      BY <3>1 DEF TypeOK, RuntimeType, Runtime
    <3>3. Move(e)
      BY <2>1, <2>3, <3>1, <3>2 DEF Turns, Move, Stays, Untouched
    <3>4. Uncanceled(e)' /\ Spawned(e)'
      BY <2>1, <2>2, <2>3, <2>4, <3>2 DEF Turn, Uncanceled, Spawned, Up, Actor
    <3>8. Ending(e)' /\ Delivered(e)'
      BY <2>1, <2>2, <2>3, <2>5, <3>2 DEF Turn, Ending, Delivered, Actor
    <3>5. Locked(e)'
      BY <2>1, <2>2, <2>5, <3>1, <3>2 DEF Turn, Locked, Unlocks, Up
    <3>6. Finalizing(e)'
      BY <2>1, <2>2, <2>3, <2>4, <3>1, <3>2
      DEF Turn, Finalizing, Unlocks, Actor
    <3>7. Turn(e)'
      BY <3>4, <3>5, <3>6, <3>8 DEF Turn
    <3>. QED
      BY <3>3, <3>7, TurnTaken
  <2>7. CASE ~OwnedAlive(e)
    <3>1. /\ lock' = IF held \/ owner = e THEN NoExecution ELSE lock
          /\ owner' = IF held \/ owner = e THEN NoExecution ELSE owner
          /\ held' = FALSE
          /\ rt' = [rt EXCEPT ![e].final = TRUE, ![e].cleanup = "none",
                              ![e].locked = FALSE]
      BY <1>30, <2>7 DEF FinalizeRelease
    <3>2. /\ rt'[e].final /\ rt'[e].cleanup = "none" /\ ~rt'[e].locked
          /\ UNCHANGED <<rt[e].registered, rt[e].blocked>>
          /\ UNCHANGED <<rt[e].owned, rt[e].closing>>
          /\ \A f \in Execution \ {e} : rt'[f] = rt[f]
      BY <3>1 DEF TypeOK, RuntimeType, Runtime
    <3>3. e # NoExecution /\ held \in BOOLEAN
      BY ServerAssumption DEF ServerAssumption, TypeOK, ServerType
    <3>4. /\ rt[e].locked \/ (~held /\ mode # "serving")
          /\ rt[e].locked <=> lock = e
          /\ rt[e].locked => held
          /\ owner \in {NoExecution, lock}
      BY <2>2, <2>5 DEF Turns, Turn, Locked, Finalizing, Unlocks
    <3>5. \/ /\ rt[e].locked /\ lock = e
             /\ lock' = NoExecution /\ owner' = NoExecution /\ held' = FALSE
          \/ /\ ~rt[e].locked /\ UNCHANGED <<lock, owner, held>>
             /\ lock # e /\ ~held /\ mode # "serving"
      <4>1. CASE rt[e].locked
        BY <3>1, <3>4, <4>1
      <4>2. CASE ~rt[e].locked
        <5>1. ~held /\ lock # e /\ owner # e /\ mode # "serving"
          BY <3>3, <3>4, <4>2
        <5>. QED
          BY <3>1, <3>3, <4>2, <5>1
      <4>. QED
        BY <4>1, <4>2
    <3>6. worker[e] # "live" /\ rt'[e] # rt[e]
      BY <2>4, <2>5, <2>7, <3>2
      DEF Good, Launched, OwnedAlive, is_owned_alive, Actor
    <3>7. Move(e)
      BY <2>1, <2>3, <3>2, <3>5, <3>6
      DEF Turns, Move, Stays, Leaves, Untouched
    <3>8. co[e].rel = "idle" \/ mode # "serving"
      BY <2>2 DEF Turn, Locked, Finalizing, Ending, Actor
    <3>9. Turn(e)'
      BY <2>1, <2>2, <2>3, <2>4, <2>5, <3>2, <3>3, <3>5, <3>8 DEF Turn,
         Uncanceled, Spawned, Locked, Finalizing, Ending, Delivered, Unlocks,
         Up, Actor
    <3>. QED
      BY <3>7, <3>9, TurnTaken
  <2>. QED
    BY <2>6, <2>7
<1>31. ASSUME NEW e \in Execution, ShutdownFinalize(e)
      PROVE  Turns' /\ Orderly
  <2>1. /\ UNCHANGED <<row, pid, lock, owner, held, worker, mode, co, rt, cpc,
                       thread>>
        /\ mode = "closing" /\ todo' = todo \ {e}
    BY <1>31 DEF ShutdownFinalize, InShutdown, stored, files
  <2>2. /\ fz'[e]["shutdown"] = "enter"
        /\ \A b \in Actor \ {"shutdown"} : fz'[e][b] = fz[e][b]
        /\ \A f \in Execution \ {e} : fz'[f] = fz[f]
    BY <1>31, FinalizeMoved DEF ShutdownFinalize, TypeOK, Actor
  <2>3. Move(e)
    BY <2>1, <2>2 DEF Turns, Move, Stays, Untouched
  <2>4. Turn(e)'
    BY <2>1, <2>2 DEF Turn, Uncanceled, Spawned, Locked, Finalizing, Ending,
       Delivered, Unlocks, Up, Actor
  <2>. QED
    BY <2>3, <2>4, TurnTaken
<1>32. ASSUME NEW e \in Execution, ReconcileFailed(e)
      PROVE  Turns' /\ Orderly
  <2>1. UNCHANGED <<pid, held, mode, co, rt, fz, cpc, thread>>
    BY <1>32 DEF ReconcileFailed, coroutines
  <2>2. /\ ~Up /\ todo' = todo \ {e}
        /\ row[e] \in NONTERMINAL
        /\ pid[e] \/ row[e] = "claimed"
    BY <1>32
    DEF ReconcileFailed, Reconciles, Interruptible, Up, Turn, Ending
  <2>3. /\ row'[e] = "failed"
        /\ \A f \in Execution \ {e} : row'[f] = row[f]
    BY <1>32 DEF ReconcileFailed, TypeOK, StoredType
  <2>4. /\ worker'[e] # "live"
        /\ worker'[e] = "none" <=> worker[e] = "none"
        /\ worker'[e] \in {worker[e], "dead"}
        /\ \A f \in Execution \ {e} : worker'[f] = worker[f]
    BY <1>32, <2>2
    DEF ReconcileFailed, StoppedWorker, TypeOK, ProcessType, Turn, Spawned,
        Good, Fresh
  <2>5. \/ /\ lock = e /\ lock' = NoExecution /\ owner' = NoExecution
        \/ UNCHANGED <<lock, owner>>
    BY <1>32, ServerAssumption
    DEF ReconcileFailed, release_lock_if_owner, Turns, ServerAssumption
  <2>6. row'[e] # row[e] /\ e # NoExecution
    BY <2>2, <2>3, ServerAssumption DEF NONTERMINAL, ServerAssumption
  <2>7. Move(e)
    BY <2>1, <2>2, <2>3, <2>4, <2>5, <2>6
    DEF Turns, Move, Stays, Leaves, Untouched
  <2>8. Turn(e)'
    BY <2>1, <2>2, <2>3, <2>4, <2>5, <2>6 DEF Turn, Uncanceled, Spawned,
       Locked, Finalizing, Ending, Delivered, Unlocks, Up
  <2>. QED
    BY <2>7, <2>8, TurnTaken
<1>33. ASSUME NEW e \in Execution, ReconcileRecovery(e) \/ ReconcileRaises(e)
      PROVE  Turns' /\ Orderly
  <2>1. /\ UNCHANGED <<pid, lock, owner, held, mode, co, rt, fz, cpc, thread>>
        /\ todo' = todo \ {e} /\ mode \in {"starting", "reconciling"}
    BY <1>33 DEF ReconcileRecovery, ReconcileRaises, Reconciles, files,
       coroutines
  <2>2. /\ row'[e] = "recovery_required"
        /\ \A f \in Execution \ {e} : row'[f] = row[f]
    BY <1>33 DEF ReconcileRecovery, ReconcileRaises, TypeOK, StoredType
  <2>3. worker' = worker \/ worker' = StoppedWorker(e)
    BY <1>33 DEF ReconcileRecovery, ReconcileRaises
  <2>4. /\ worker'[e] = worker[e] \/ (worker[e] # "none" /\ worker'[e] = "dead")
        /\ \A f \in Execution \ {e} : worker'[f] = worker[f]
    BY <2>3 DEF StoppedWorker, TypeOK, ProcessType, Turn, Spawned
  <2>5. Move(e)
    BY <2>1, <2>2, <2>4 DEF Turns, Move, Stays, Untouched
  <2>6. Turn(e)'
    BY <2>1, <2>2, <2>4 DEF Turn, Uncanceled, Spawned, Locked, Finalizing,
       Ending, Delivered, Unlocks, Up
  <2>. QED
    BY <2>5, <2>6, TurnTaken
<1>34. ASSUME NEW e \in Execution, NEW a \in Actor, FinalizeRaises(e, a)
       PROVE  Turns' /\ Orderly
  <2>1. UNCHANGED <<row, pid, lock, owner, worker>>
    BY <1>34 DEF FinalizeRaises, stored, files
  <2>2. /\ fz[e][a] \in {"stopped", "releasing"} /\ a # "cancel"
    BY <1>34 DEF FinalizeRaises, Turn, Uncanceled
  <2>3. CASE Volatile
    BY <2>1, <2>3, TurnsDied DEF Orderly
  <2>4. CASE ~Volatile
    <3>1. /\ UNCHANGED <<held, mode, todo, cpc, thread>>
          /\ rt' = [rt EXCEPT ![e].cleanup = "none"]
          /\ fz' = [fz EXCEPT ![e][a] = "idle"]
      BY <1>34, <2>4 DEF FinalizeRaises
    <3>10. a = "execute"
      BY <1>34, <2>2, <2>4 DEF FinalizeRaises, Actor
    <3>2. \/ Leave(e, "finally", "raise") \/ Goto(e, "done")
      BY <1>34, <2>2, <2>4, <3>10 DEF FinalizeRaises, Turn, Uncanceled
    <3>3. /\ co'[e].at \in {"finally", "done"} /\ co'[e].exit # "cancel"
          /\ UNCHANGED <<co[e].rel, co[e].interrupted>>
          /\ \A f \in Execution \ {e} : co'[f] = co[f]
      BY <3>2, GotoStep, LeaveStep DEF TypeOK, Turn, Uncanceled
    <3>4. /\ fz'[e][a] = "idle"
          /\ \A b \in Actor \ {a} : fz'[e][b] = fz[e][b]
          /\ \A f \in Execution \ {e} : fz'[f] = fz[f]
      BY <3>1, FinalizeMoved DEF TypeOK
    <3>5. /\ rt'[e].cleanup = "none"
          /\ UNCHANGED <<rt[e].registered, rt[e].final, rt[e].locked>>
          /\ UNCHANGED <<rt[e].owned, rt[e].closing, rt[e].blocked>>
          /\ \A f \in Execution \ {e} : rt'[f] = rt[f]
      BY <3>1 DEF TypeOK, RuntimeType, Runtime
    <3>6. \A b \in Actor \ {a} : fz[e][b] \in {"idle", "enter"}
      BY <2>2 DEF Turn, Finalizing
    <3>7. /\ co[e].at \in {"deadline", "outer_stop"} /\ co[e].rel = "idle"
          /\ row[e] # "completed"
      BY <2>2, <3>10 DEF Turn, Locked, Finalizing, Delivered
    <3>8. Move(e)
      BY <2>1, <3>1, <3>3, <3>4, <3>5 DEF Turns, Move, Stays, Untouched
    <3>9. Turn(e)'
      BY <2>1, <2>2, <3>1, <3>10, <3>3, <3>4, <3>5, <3>6, <3>7
      DEF Turn, Uncanceled, Spawned, Locked, Finalizing, Ending, Delivered,
          Unlocks, Up, Actor
    <3>. QED
      BY <3>8, <3>9, TurnTaken
  <2>. QED
    BY <2>3, <2>4
<1>35. ASSUME NEW e \in Execution, CrashBetween(e)
       PROVE  Turns' /\ Orderly
  <2>1. Volatile /\ UNCHANGED <<pid, lock>>
    BY <1>35 DEF CrashBetween, stored, files
  <2>2. worker' = worker \/ worker' = StoppedWorker(e)
    BY <1>35 DEF CrashBetween, stored
  <2>3. owner' \in {owner, NoExecution}
    BY <1>35 DEF CrashBetween, files
  <2>4. /\ row'[e] \in {row[e], "failed", "recovery_required"}
        /\ \A f \in Execution \ {e} : row'[f] = row[f]
    BY <1>35
    DEF CrashBetween, stored, Kind, TypeOK, StoredType, Turn, Uncanceled
  <2>5. \A f \in Execution :
          /\ worker'[f] = "live" => worker[f] = "live"
          /\ worker'[f] = "none" => worker[f] = "none"
    BY <2>2 DEF StoppedWorker, TypeOK, ProcessType
  <2>6. Turns'
    BY <2>1, <2>3, <2>4, <2>5, TurnsDied
  <2>7. \/ worker' = worker
        \/ worker[e] # "none" /\ worker' = [worker EXCEPT ![e] = "dead"]
    BY <2>2 DEF StoppedWorker, TypeOK, ProcessType, Turn, Spawned
  <2>. QED
    BY <2>1, <2>6, <2>7 DEF Orderly
<1>36. CASE Shutdown
  <2>1. /\ UNCHANGED <<row, pid, lock, owner, worker, held, rt, co, fz, cpc,
                       thread>>
        /\ mode = "serving" /\ mode' = "closing"
        /\ todo' = {e \in Execution : rt[e].registered}
    BY <1>36 DEF Shutdown, stored, files, coroutines
  <2>2. ASSUME NEW e \in Execution PROVE Turn(e)'
    BY <2>1, <2>2 DEF Turn, Uncanceled, Spawned, Locked, Finalizing, Ending,
       Delivered, Unlocks, Up
  <2>. QED
    BY <2>1, <2>2 DEF Turns, Orderly, WorkerReserved, Up
<1>37. CASE ShutdownReconcile
  <2>1. /\ UNCHANGED <<row, pid, lock, owner, worker, held, rt, co, fz, cpc,
                       thread>>
        /\ mode = "closing" /\ mode' = "reconciling" /\ todo = {}
        /\ todo' = Nonterminal
        /\ \A e \in Execution : fz[e]["shutdown"] = "idle"
    BY <1>37 DEF ShutdownReconcile, InShutdown, stored, files, coroutines
  <2>2. ASSUME NEW e \in Execution PROVE Turn(e)'
    BY <2>1, <2>2 DEF Turn, Uncanceled, Spawned, Locked, Finalizing, Ending,
       Delivered, Unlocks, Up, Nonterminal
  <2>. QED
    BY <2>1, <2>2 DEF Turns, Orderly, WorkerReserved, Up
<1>38. CASE Crash
  <2>1. Volatile /\ UNCHANGED <<row, pid, lock, owner, worker>>
    BY <1>38 DEF Crash, stored, files
  <2>. QED
    BY <2>1, TurnsDied DEF Orderly
<1>39. CASE Restart
  <2>1. /\ UNCHANGED <<row, pid, lock, owner, worker, held, rt, co, fz, cpc,
                       thread>>
        /\ mode = "down" /\ mode' = "starting" /\ todo' = Nonterminal
    BY <1>39 DEF Restart, stored, files, coroutines
  <2>2. ASSUME NEW e \in Execution PROVE Turn(e)'
    BY <2>1, <2>2 DEF Turn, Uncanceled, Spawned, Locked, Finalizing, Ending,
       Delivered, Unlocks, Up, Nonterminal
  <2>. QED
    BY <2>1, <2>2 DEF Turns, Orderly, WorkerReserved, Up
<1>40. CASE ReconcileDone
  <2>1. UNCHANGED <<row, pid, lock, owner, worker>>
    BY <1>40 DEF ReconcileDone, files
  <2>2. CASE Volatile
    BY <2>1, <2>2, TurnsDied DEF Orderly
  <2>3. CASE ~Volatile
    <3>1. /\ mode = "starting" /\ mode' = "serving"
          /\ UNCHANGED <<todo, held, rt, co, fz, cpc, thread>>
      BY <1>40, <2>3 DEF ReconcileDone, coroutines
    <3>2. ASSUME NEW e \in Execution PROVE Turn(e)'
      BY <2>1, <3>1, <3>2 DEF Turns, Turn, Uncanceled, Spawned, Locked,
         Finalizing, Ending, Delivered, Unlocks, Up, Good, Scheduled
    <3>. QED
      BY <2>1, <3>1, <3>2 DEF Turns, Orderly, WorkerReserved, Up
  <2>. QED
    BY <2>2, <2>3
<1>41. CASE UNCHANGED vars
  <2>1. UNCHANGED <<row, pid, lock, owner, worker, held, mode, todo, rt, co, fz,
                    cpc, thread>>
    BY <1>41 DEF vars
  <2>2. ASSUME NEW e \in Execution PROVE Turn(e)'
    BY <2>1, <2>2 DEF Turns, Turn, Uncanceled, Spawned, Locked, Finalizing,
       Ending, Delivered, Unlocks, Up
  <2>. QED
    BY <2>1, <2>2 DEF Turns, Orderly, WorkerReserved, Up
<1>. QED
  BY <1>1, <1>2, <1>3, <1>4, <1>4a, <1>5, <1>6, <1>7, <1>8, <1>9,
     <1>10, <1>11, <1>12, <1>13, <1>14, <1>15, <1>16, <1>17, <1>18, <1>19, <1>20, <1>21,
     <1>22, <1>23, <1>24, <1>25, <1>26, <1>27, <1>28, <1>29, <1>30, <1>31,
     <1>32, <1>33, <1>34, <1>35, <1>36, <1>37, <1>38, <1>39, <1>40, <1>41
  DEF Next, SpawnThread, ExecuteStep, FinalizeStep, FinalizeThread, Reconcile

\* The first server has taken no lock and has no coroutine.
LEMMA TurnsInit == Init => Turns
<1>. SUFFICES ASSUME Init
              PROVE  Turns
  OBVIOUS
<1>1. /\ mode = "serving" /\ todo = {} /\ held = FALSE
      /\ lock = NoExecution /\ owner = NoExecution
      /\ \A e \in Execution :
           /\ row[e] = "none" /\ pid[e] = FALSE /\ worker[e] = "none"
           /\ rt[e] = NewRuntime /\ co[e] = NewCoroutine
           /\ fz[e] = [a \in Actor |-> "idle"]
           /\ cpc[e] = "idle" /\ thread[e] = "none"
  BY DEF Init
<1>2. ASSUME NEW e \in Execution PROVE Turn(e)
  BY <1>1, <1>2, ServerAssumption
  DEF Turn, Uncanceled, Spawned, Locked, Finalizing, Ending, Delivered,
      Unlocks, NewRuntime, NewCoroutine, Actor, Up, ServerAssumption
<1>. QED
  BY <1>1, <1>2 DEF Turns, WorkerReserved

\* So executions take turns in every behaviour of a server nobody cancels.
LEMMA AlwaysTurns ==
  ASSUME Cancelable = {}
  PROVE  Spec => []Turns
<1>. QED
  BY TurnsInit, TurnsStep, ProtocolHolds, TypeCorrect, PTL DEF Spec

\* Without cancels a live worker works under the workspace's execute.lock, and
\* that lock was taken for its execution: through deadlines, shutdowns, kills
\* anywhere and restarts (_run_validated, finalize, release_lock_if_safe,
\* _reconcile_claim).
THEOREM WorkerReservedHolds ==
  ASSUME Cancelable = {}
  PROVE  Spec => []WorkerReserved
<1>1. Turns => WorkerReserved
  BY DEF Turns
<1>. QED
  BY <1>1, AlwaysTurns, PTL

\* A step of the server is a step of the reservation protocol, or none.
LEMMA OrderlyReserves ==
  ASSUME ProcessType, ProcessType', Orderly
  PROVE  [Reservation!Next]_(Reservation!vars)
<1>. DEFINE Live == {e \in Execution : worker[e] = "live"}
            Ran  == {e \in Execution : worker[e] # "none"}
<1>1. ASSUME NEW e \in Execution, Move(e)
      PROVE  [Reservation!Next]_(Reservation!vars)
  <2>1. \A f \in Execution \ {e} : worker'[f] = worker[f]
    BY <1>1 DEF Move, Untouched
  <2>2. CASE Stays(e)
    <3>1. lock' = lock
      BY <2>2 DEF Stays
    <3>2. CASE Live' = Live /\ Ran' = Ran
      BY <3>1, <3>2 DEF Reservation!vars
    <3>3. CASE worker[e] = "live" /\ worker'[e] \in {"dead", "recycled"}
      <4>1. e \in Live /\ Live' = Live \ {e} /\ Ran' = Ran
        BY <2>1, <3>3
      <4>. QED
        BY <3>1, <4>1 DEF Reservation!Next, Reservation!Stop
    <3>4. CASE worker[e] = "none" /\ worker'[e] = "live" /\ lock = e
      <4>1. e \notin Ran /\ Live' = Live \cup {e} /\ Ran' = Ran \cup {e}
        BY <2>1, <3>4
      <4>. QED
        BY <3>1, <3>4, <4>1 DEF Reservation!Next, Reservation!Start
    <3>5. \/ worker'[e] = worker[e]
          \/ /\ worker[e] \notin {"none", "live"}
             /\ worker'[e] \in {"dead", "recycled"}
          \/ worker[e] = "live" /\ worker'[e] \in {"dead", "recycled"}
          \/ worker[e] = "none" /\ worker'[e] = "live" /\ lock = e
      BY <2>2 DEF Stays
    <3>6. \/ worker'[e] = worker[e]
          \/ /\ worker[e] \notin {"none", "live"}
             /\ worker'[e] \in {"dead", "recycled"}
          => Live' = Live /\ Ran' = Ran
      BY <2>1
    <3>. QED
      BY <3>2, <3>3, <3>4, <3>5, <3>6
  <2>3. CASE Takes(e)
    <3>1. /\ Live' = Live /\ Ran' = Ran /\ e \notin Ran
          /\ lock = NoExecution /\ lock' = e
      BY <2>1, <2>3 DEF Takes
    <3>. QED
      BY <3>1 DEF Reservation!Next, Reservation!Reserve
  <2>4. CASE Leaves(e)
    <3>1. /\ Live' = Live \ {e} /\ Ran' = Ran
          /\ lock = e /\ lock' = NoExecution
      BY <2>1, <2>4 DEF Leaves
    <3>. QED
      BY <3>1 DEF Reservation!Next, Reservation!Release
  <2>. QED
    BY <1>1, <2>2, <2>3, <2>4 DEF Move
<1>2. ASSUME lock' = lock, NEW e \in Execution, worker[e] # "none",
             worker' = [worker EXCEPT ![e] = "dead"]
      PROVE  [Reservation!Next]_(Reservation!vars)
  <2>1. /\ Ran' = Ran /\ Live' = Live \ {e}
        /\ e \notin Live => Live' = Live
    BY <1>2 DEF ProcessType
  <2>. QED
    BY <1>2, <2>1 DEF Reservation!Next, Reservation!Stop, Reservation!vars
<1>3. CASE UNCHANGED <<lock, worker>>
  BY <1>3 DEF Reservation!vars
<1>. QED
  BY <1>1, <1>2, <1>3 DEF Orderly

\* Without cancels the server implements the reservation protocol.
THEOREM ReservationKeptHolds ==
  ASSUME Cancelable = {}
  PROVE  Spec => ReservationKept
<1>1. Init => Reservation!Init
  BY DEF Init, Reservation!Init
<1>2. TypeOK /\ TypeOK' /\ Orderly => [Reservation!Next]_(Reservation!vars)
  BY OrderlyReserves DEF TypeOK
<1>3. Spec => Reservation!Init /\ [][Reservation!Next]_(Reservation!vars)
  BY <1>1, <1>2, AlwaysTurns, TurnsStep, ProtocolHolds, TypeCorrect, PTL
  DEF Spec
<1>. QED
  BY <1>3 DEF ReservationKept, Reservation!Spec

-----------------------------------------------------------------------------
(***************************************************************************)
(* Outcomes, with cancels, kills and restarts.  Outcomes is inductive      *)
(* relative to LaunchProtocol as long as no release finds the directory it *)
(* is to remove gone (LocksThere), which is so while at most one execution *)
(* may be canceled, by Lawful.                                             *)
(***************************************************************************)

\* What a terminal Task may say of a row.
Agrees(r, s) ==
  \/ r = "completed" /\ s = "COMPLETED"
  \/ r = "failed" /\ s \in {"FAILED", "CANCELED"}
  \/ r = "rejected" /\ s = "REJECTED"
  \/ r = "canceled" /\ s = "CANCELED"
  \/ r = "recovery_required" /\ s = "FAILED"

\* What the SDK has stored or been told agrees with the row, unless the server
\* has died before the row was failed or is about to fail it; it is told nothing
\* before execute runs ...
Told(e) ==
  /\ events[e] \in TERMINAL_TASK => Agrees(row[e], events[e])
  /\ task[e] \in TERMINAL_TASK =>
       \/ Agrees(row[e], task[e])
       \/ ~Up /\ task[e] = "FAILED" /\ row[e] \in NONTERMINAL
  /\ row[e] = "recovery_required" /\ events[e] \in TERMINAL_TASK => ~pid[e]
  /\ row[e] = "none" => task[e] = "none"
  /\ row[e] \in {"none", "claimed"} \/ co[e].at = "queued" => events[e] = "none"

Launching(e) == thread[e] \in {"gate", "launched", "recorded"}

\* ... a launch not yet refused is waited for, by its execute or by the cancel
\* that has interrupted it ...
Awaited(e) ==
  /\ co[e].at \notin {"none", "queued", "done"} => rt[e].registered
  /\ co[e].at \in {"none", "queued"} => ~rt[e].final
  /\ co[e].at # "none" /\ pid[e] => rt[e].owned
  /\ rt[e].owned => worker[e] \in {"live", "dead"}
  /\ thread[e] \in {"launched", "recorded", "returned"} => rt[e].owned
  /\ Launching(e) \/ thread[e] \in {"refused", "raised"} => ~pid[e]
  /\ co[e].at \in {"waiting", "exited", "expired", "deadline"} =>
       thread[e] = "returned"
  /\ rt[e].blocked => thread[e] \notin {"launched", "recorded"}
  /\ rt[e].final /\ Launching(e) => rt[e].blocked
  /\ Launching(e) /\ ~rt[e].blocked =>
       /\ co[e].at = "spawning" \/ fz[e]["cancel"] = "gate"
       /\ co[e].interrupted =>
            \/ fz[e]["cancel"] = "gate"
            \/ /\ fz[e]["cancel"] = "enter" /\ loop = <<e, "cancel">>
               /\ rt[e].cleanup = "none"

\* ... an execute that was interrupted is on its way out ...
Interrupting(e) ==
  /\ loop = <<e, "execute">> \/ co[e].at = "done" => ~co[e].interrupted
  /\ co[e].rel # "idle" => co[e].at \in {"finally", "except", "outer"}
  /\ co[e].exit = "cancel" =>
       co[e].at \notin {"none", "queued", "spawning", "waiting", "exited",
                        "expired", "deadline"}
  /\ fz[e]["cancel"] # "idle" =>
       co[e].interrupted \/ co[e].exit = "cancel" \/ co[e].at = "done"

Failed(e) ==
  /\ row[e] = "failed" /\ task[e] \notin TERMINAL_TASK \ {"FAILED"}
  /\ events[e] \in {"none", "FAILED"}

\* ... one caller finalizes at a time, and is not interrupted once it has
\* settled the execution ...
Cleaning(e) ==
  /\ fz[e]["execute"] # "idle" =>
       co[e].at \in {"deadline", "handler", "outer_stop"}
  /\ \A a \in Actor :
       /\ fz[e][a] \notin {"idle", "enter"} =>
            rt[e].cleanup = a /\ rt[e].closing /\ ~rt[e].final
       /\ rt[e].cleanup = a => fz[e][a] \notin {"idle", "enter"}
       /\ fz[e][a] \notin {"idle", "enter", "gate"} => rt[e].blocked
  /\ fz[e]["execute"] \in {"release", "releasing"} =>
       /\ ~co[e].interrupted /\ task[e] \in TERMINAL_TASK
       /\ events[e] \in TERMINAL_TASK \cup {"none"}
  /\ fz[e]["shutdown"] \in {"release", "releasing"} => Failed(e)

\* ... a runtime that is not final has no outcome yet, is about to release
\* what it has settled, or has failed with an error behind its worker's end ...
Unsettled(e) ==
  /\ row[e] = "running"
  /\ task[e] \notin TERMINAL_TASK /\ events[e] = "none"
Gone(e) ==
  pid[e] => worker[e] = "dead" /\ \A a \in Actor : fz[e][a] # "unstopped"
Errored(e) ==
  /\ Failed(e) /\ Gone(e) /\ ~Launching(e)
  /\ fz[e]["cancel"] = "idle"
  /\ \/ co[e].at \in {"outer", "outer_stop", "drain", "pop", "done"}
     \/ co[e].at = "except" /\ co[e].rel # "idle"
Releasing(e) == \E a \in Actor : fz[e][a] \in {"release", "releasing"}
Open(e) ==
  /\ Up /\ ~rt[e].final
  /\ \/ rt[e].registered \/ (mode = "closing" /\ e \in todo)
     \/ \E a \in Actor : fz[e][a] # "idle"
Raising(e) ==
  /\ Open(e) /\ co[e].exit = "raise" /\ ~co[e].interrupted
  /\ co[e].at \in {"finally", "except"}
Settling(e) ==
  /\ Open(e) => Unsettled(e) \/ Releasing(e) \/ Errored(e)
  /\ Raising(e) => /\ Unsettled(e) \/ Failed(e)
                   /\ Gone(e) /\ ~Launching(e) /\ fz[e]["cancel"] = "idle"

\* ... a cancel without runtime is alone with an execution that is over ...
Probing(e) ==
  cpc[e] # "idle" =>
    /\ mode = "serving" /\ co[e].at \in {"none", "done"}
    /\ ~rt[e].registered /\ \A a \in Actor : fz[e][a] = "idle"
    /\ row[e] \in NONTERMINAL
    /\ task[e] \notin TERMINAL_TASK /\ events[e] \notin TERMINAL_TASK

\* ... and shutdown and start deal with every execution that is open.
Closing(e) ==
  /\ fz[e]["shutdown"] # "idle" => mode = "closing"
  /\ mode # "serving" => fz[e]["cancel"] = "idle"
  /\ mode = "closing" /\ rt[e].registered /\ e \notin todo =>
       fz[e]["shutdown"] # "idle" \/ rt[e].final
  /\ mode \in {"starting", "reconciling"} /\ e \in todo =>
       row[e] \in NONTERMINAL
  /\ mode \in {"down", "starting"} => co[e].at = "none"
  /\ mode = "starting" /\ row[e] \in {"claimed", "running"} => e \in todo
  /\ mode = "reconciling" /\ Launching(e) => rt[e].blocked

Outcome(e) ==
  /\ Told(e) /\ Awaited(e) /\ Interrupting(e) /\ Cleaning(e)
  /\ Settling(e) /\ Probing(e) /\ Closing(e)
Outcomes == \A e \in Execution : Outcome(e)

\* No release finds that the lock directory it is to remove is gone.
LocksThere ==
  \A e \in Execution :
    Up /\ (co[e].rel = "closed" \/ \E a \in Actor : fz[e][a] = "releasing") =>
      OwnedAlive(e) \/ ~UnlockRaises

\* A step keeps the outcome of an execution.
RowKept(e) ==
  row[e] \in TERMINAL_EXECUTION =>
    \/ row'[e] = row[e]
    \/ row[e] = "failed" /\ row'[e] = "recovery_required"
Lasting == \A e \in Execution : RowKept(e)

\* A step of one execution: no other one's coroutine gets or loses the loop.
Alone(e) ==
  /\ \A f \in Execution \ {e} :
       /\ Untouched(f) /\ UNCHANGED <<task[f], events[f]>>
       /\ \/ loop' = loop
          \/ \A a \in {"execute", "cancel"} :
               loop # <<f, a>> /\ loop' # <<f, a>>
  /\ mode' = mode /\ todo' \in {todo, todo \ {e}}

\* The others keep what holds of their outcomes.
LEMMA OthersTold ==
  ASSUME Outcomes, NEW e \in Execution, Alone(e), NEW f \in Execution \ {e}
  PROVE  Outcome(f)' /\ RowKept(f)
<1>1. /\ UNCHANGED <<row[f], pid[f], worker[f], thread[f], cpc[f]>>
      /\ UNCHANGED <<rt[f], co[f], fz[f], mode, task[f], events[f]>>
      /\ Outcome(f) /\ f # e
  BY DEF Alone, Untouched, Outcomes
<1>2. f \in todo' <=> f \in todo
  BY <1>1 DEF Alone
<1>3. /\ loop' = <<f, "execute">> => loop = <<f, "execute">>
      /\ loop = <<f, "cancel">> => loop' = <<f, "cancel">>
  BY DEF Alone
<1>4. Told(f)' /\ Probing(f)' /\ Closing(f)'
  BY <1>1, <1>2 DEF Outcome, Told, Probing, Closing, Launching, Up
<1>5. Awaited(f)' /\ Interrupting(f)'
  BY <1>1, <1>3 DEF Outcome, Awaited, Interrupting, Launching
<1>6. Cleaning(f)' /\ Settling(f)'
  BY <1>1, <1>2
  DEF Outcome, Cleaning, Settling, Unsettled, Failed, Gone, Errored,
      Releasing, Open, Raising, Launching, Up
<1>. QED
  BY <1>1, <1>4, <1>5, <1>6 DEF Outcome, RowKept

\* It is enough to look at the execution that moves.
LEMMA OutcomeTaken ==
  ASSUME Outcomes, NEW e \in Execution, Alone(e), Outcome(e)', RowKept(e)
  PROVE  Outcomes' /\ Lasting
  BY OthersTold DEF Outcomes, Lasting

\* After the process has ended only the registry and the Tasks are left.
LEMMA OutcomesDied ==
  ASSUME Volatile,
         \A e \in Execution :
           /\ row'[e] = "none" => task'[e] = "none"
           /\ task'[e] \in TERMINAL_TASK =>
                \/ Agrees(row'[e], task'[e])
                \/ task'[e] = "FAILED" /\ row'[e] \in NONTERMINAL
  PROVE  Outcomes'
<1>1. /\ mode' = "down" /\ loop' = Idle
      /\ \A e \in Execution :
           /\ rt'[e] = NewRuntime /\ co'[e] = NewCoroutine
           /\ fz'[e] = [a \in Actor |-> "idle"] /\ events'[e] = "none"
           /\ cpc'[e] = "idle" /\ thread'[e] = "none"
  BY DEF Volatile
<1>2. ASSUME NEW e \in Execution PROVE Outcome(e)'
  <2>1. Told(e)' /\ Probing(e)' /\ Closing(e)'
    BY <1>1, <1>2
    DEF Told, Probing, Closing, Up, NewCoroutine, Actor, TERMINAL_TASK,
        Launching
  <2>2. Awaited(e)' /\ Interrupting(e)' /\ Cleaning(e)' /\ Settling(e)'
    BY <1>1, <1>2
    DEF Awaited, Interrupting, Cleaning, Settling, Open, Raising, Launching,
        Up, NewRuntime, NewCoroutine, Actor, Idle
  <2>. QED
    BY <2>1, <2>2 DEF Outcome
<1>. QED
  BY <1>2 DEF Outcomes

\* execute moves on, past its launch.
LEMMA CoroutineMoves ==
  ASSUME Outcomes, NEW e \in Execution,
         UNCHANGED <<row, pid, task, worker, mode, todo, cpc, thread, events>>,
         \A f \in Execution \ {e} :
           co'[f] = co[f] /\ fz'[f] = fz[f] /\ rt'[f] = rt[f],
         UNCHANGED <<rt[e].registered, rt[e].owned, rt[e].blocked>>,
         UNCHANGED <<rt[e].closing, rt[e].final, rt[e].cleanup>>,
         UNCHANGED <<fz[e]["cancel"], fz[e]["shutdown"]>>,
         \/ fz'[e]["execute"] = fz[e]["execute"]
         \/ fz[e]["execute"] = "idle" /\ fz'[e]["execute"] = "enter",
         fz'[e]["execute"] # "idle" =>
           co'[e].at \in {"deadline", "handler", "outer_stop"},
         \/ loop' = loop
         \/ /\ ~co[e].interrupted
            /\ {loop, loop'} \subseteq {Idle, <<e, "execute">>},
         co'[e].interrupted = co[e].interrupted,
         co'[e].exit = "cancel" <=> co[e].exit = "cancel",
         co'[e].rel # "idle" => co'[e].at \in {"finally", "except", "outer"},
         co'[e].at \in {"waiting", "exited", "expired", "deadline"} =>
           thread[e] = "returned" /\ co[e].exit # "cancel",
         ~Launching(e) \/ co[e].at # "spawning",
         co[e].at \notin {"none", "queued", "done"},
         co'[e].at \notin {"none", "queued", "spawning", "done"},
         Errored(e) =>
           co'[e].at \in {"outer", "outer_stop", "drain", "pop"}
             \/ (co'[e].at = "except" /\ co'[e].rel # "idle"),
         co'[e].exit = "raise" /\ co'[e].at \in {"finally", "except"}
           => Raising(e) \/ ~Open(e) \/ co[e].interrupted
              \/ (/\ Unsettled(e) \/ Failed(e)
                  /\ Gone(e) /\ ~Launching(e) /\ fz[e]["cancel"] = "idle")
  PROVE  Outcomes' /\ Lasting
<1>1. Outcome(e)
  BY DEF Outcomes
<1>2. Told(e)' /\ Probing(e)' /\ Closing(e)'
  BY <1>1 DEF Outcome, Told, Probing, Closing, Launching, Up, Actor
<1>3. Awaited(e)'
  BY <1>1 DEF Outcome, Awaited, Launching
<1>4. Interrupting(e)'
  BY <1>1 DEF Outcome, Interrupting, Idle
<1>5. Cleaning(e)'
  BY <1>1 DEF Outcome, Cleaning, Failed, Actor
<1>6. Open(e)' <=> Open(e)
  <2>1. Open(e)' => Open(e)
    BY <1>1 DEF Open, Up, Actor, Outcome, Awaited
  <2>2. Open(e) => Open(e)'
    BY <1>1 DEF Open, Up, Actor, Outcome, Awaited
  <2>. QED
    BY <2>1, <2>2
<1>7. /\ Gone(e) => Gone(e)'
      /\ Unsettled(e) => Unsettled(e)'
      /\ Failed(e) => Failed(e)'
      /\ Launching(e)' <=> Launching(e)
  BY DEF Gone, Unsettled, Failed, Launching, Actor
<1>8. Releasing(e) => Releasing(e)'
  BY <1>1 DEF Releasing, Actor, Outcome, Cleaning
<1>9. Settling(e)'
  BY <1>1, <1>6, <1>7, <1>8 DEF Outcome, Settling, Raising, Errored
<1>10. Alone(e)
  <2>1. ASSUME NEW f \in Execution \ {e}, loop' # loop,
               NEW a \in {"execute", "cancel"}
        PROVE  loop # <<f, a>> /\ loop' # <<f, a>>
    BY <2>1, ServerAssumption DEF Idle
  <2>. QED
    BY <2>1 DEF Alone, Untouched
<1>. QED
  BY <1>2, <1>3, <1>4, <1>5, <1>9, <1>10, OutcomeTaken
  DEF Outcome, RowKept

\* A finalize of e ends: the runtime is final.
LEMMA FinalizeEnds ==
  ASSUME TypeOK, Outcomes, NEW e \in Execution, Good(e), NEW a \in Actor, Up,
         fz[e][a] \notin {"idle", "enter", "gate"},
         loop \in {Idle, <<e, a>>}, loop' = <<e, a>>,
         a = "execute" => ~co[e].interrupted,
         UNCHANGED <<pid, worker, mode, todo, co, cpc, thread>>,
         \A f \in Execution \ {e} : UNCHANGED <<row[f], task[f], events[f]>>,
         fz' = [fz EXCEPT ![e][a] = "idle"],
         rt'[e].final, rt'[e].cleanup = "none",
         UNCHANGED <<rt[e].registered, rt[e].owned, rt[e].blocked>>,
         \A f \in Execution \ {e} : rt'[f] = rt[f],
         Told(e)', RowKept(e)
  PROVE  Outcomes' /\ Lasting
<1>1. Outcome(e)
  BY DEF Outcomes
<1>2. /\ fz'[e][a] = "idle"
      /\ \A b \in Actor \ {a} : fz'[e][b] = fz[e][b]
      /\ \A f \in Execution \ {e} : fz'[f] = fz[f]
  BY FinalizeMoved DEF TypeOK
<1>3. /\ rt[e].blocked /\ rt[e].cleanup = a
      /\ \A b \in Actor \ {a} : fz[e][b] \in {"idle", "enter"}
  BY <1>1 DEF Outcome, Cleaning
<1>4. co[e].at \notin {"none", "queued"} /\ cpc[e] = "idle"
  BY <1>1 DEF Good, Scheduled, Outcome, Probing
<1>5. Alone(e)
  BY <1>2, ServerAssumption DEF Alone, Untouched, Idle
<1>6. Awaited(e)'
  BY <1>1, <1>2, <1>3, <1>4 DEF Outcome, Awaited, Launching
<1>7. Interrupting(e)' /\ Probing(e)'
  BY <1>1, <1>2, <1>4, ServerAssumption
  DEF Outcome, Interrupting, Probing, Idle, Actor
<1>8. Cleaning(e)'
  BY <1>1, <1>2, <1>3 DEF Outcome, Cleaning, Actor
<1>9. Settling(e)' /\ Closing(e)'
  BY <1>1, <1>2 DEF Outcome, Settling, Closing, Open, Raising, Up, Actor
<1>. QED
  BY <1>5, <1>6, <1>7, <1>8, <1>9, OutcomeTaken DEF Outcome

\* Whoever finalizes e has the only settlement of e before it.
LEMMA FinalizeAlone ==
  ASSUME Outcomes, NEW e \in Execution, Good(e), NEW a \in Actor, Up,
         fz[e][a] \in {"gated", "stop", "stopped", "unstopped"}
  PROVE  /\ Open(e) /\ ~Releasing(e) /\ (Unsettled(e) \/ Errored(e))
         /\ rt[e].blocked /\ rt[e].cleanup = a /\ rt[e].closing
         /\ \A b \in Actor \ {a} : fz[e][b] \in {"idle", "enter"}
         /\ co[e].at \notin {"none", "queued"} /\ cpc[e] = "idle"
<1>1. Outcome(e)
  BY DEF Outcomes
<1>2. /\ rt[e].blocked /\ rt[e].cleanup = a /\ rt[e].closing /\ ~rt[e].final
      /\ \A b \in Actor \ {a} : fz[e][b] \in {"idle", "enter"}
      /\ co[e].at \notin {"none", "queued"} /\ cpc[e] = "idle"
  BY <1>1 DEF Outcome, Cleaning, Good, Scheduled, Probing
<1>3. Open(e) /\ ~Releasing(e)
  BY <1>2 DEF Open, Releasing
<1>. QED
  BY <1>1, <1>2, <1>3 DEF Outcome, Settling

\* Every step keeps the outcomes, as long as no release finds its lock gone.
LEMMA OutcomeStep ==
  TypeOK /\ LaunchProtocol /\ Outcomes /\ LocksThere /\ [Next]_vars
    => Outcomes' /\ Lasting
<1>. SUFFICES ASSUME TypeOK, LaunchProtocol, Outcomes, LocksThere, [Next]_vars
              PROVE  Outcomes' /\ Lasting
  OBVIOUS
<1>. \A e \in Execution : Good(e) /\ Outcome(e)
  BY DEF LaunchProtocol, Good, SettledIsStopped, Settled, Outcomes
<1>1. ASSUME NEW e \in Execution, Send(e)
      PROVE  Outcomes' /\ Lasting
  <2>1. /\ UNCHANGED <<pid, worker, mode, todo, co, rt, fz, cpc, thread>>
        /\ UNCHANGED events
        /\ loop = Idle /\ loop' = <<e, "send">> /\ mode = "serving"
    BY <1>1 DEF Send, files, coroutines, LoopFree
  <2>2. /\ row'[e] = IF row[e] = "none" THEN "claimed" ELSE row[e]
        /\ task'[e] = IF row[e] = "none" THEN "SUBMITTED" ELSE task[e]
        /\ \A f \in Execution \ {e} : row'[f] = row[f] /\ task'[f] = task[f]
    BY <1>1 DEF Send, TypeOK, StoredType
  <2>3. Alone(e)
    BY <2>1, <2>2 DEF Alone, Untouched, Idle
  <2>4. Told(e)' /\ Probing(e)' /\ Closing(e)' /\ RowKept(e)
    BY <2>1, <2>2 DEF Outcome, Told, Probing, Closing, Launching, Up, Agrees,
       NONTERMINAL, TERMINAL_TASK, TERMINAL_EXECUTION, RowKept
  <2>5. CASE row[e] = "none"
    <3>1. Awaited(e)' /\ Interrupting(e)' /\ Cleaning(e)' /\ Settling(e)'
      BY <2>1, <2>5 DEF Good, Fresh, Scheduled, Outcome, Awaited,
         Interrupting, Cleaning, Settling, Open, Raising, Launching, Actor,
         Idle
    <3>. QED
      BY <2>3, <2>4, <3>1, OutcomeTaken DEF Outcome
  <2>6. CASE row[e] # "none"
    <3>1. Awaited(e)' /\ Interrupting(e)' /\ Cleaning(e)' /\ Settling(e)'
      BY <2>1, <2>2, <2>6 DEF Outcome, Awaited, Interrupting, Cleaning,
         Settling, Open, Raising, Unsettled, Failed, Gone, Errored, Releasing,
         Launching, Up, Idle
    <3>. QED
      BY <2>3, <2>4, <3>1, OutcomeTaken DEF Outcome
  <2>. QED
    BY <2>5, <2>6
<1>2. ASSUME NEW e \in Execution, Dispatch(e)
      PROVE  Outcomes' /\ Lasting
  <2>1. /\ UNCHANGED <<pid, task, worker, mode, todo, rt, fz, cpc, thread>>
        /\ UNCHANGED events
        /\ loop = <<e, "send">> /\ loop' = Idle
    BY <1>2 DEF Dispatch, files, Runs
  <2>2. CASE UNCHANGED <<row, co>>
    <3>1. Alone(e) /\ RowKept(e)
      BY <2>1, <2>2 DEF Alone, Untouched, Idle, RowKept
    <3>2. Outcome(e)'
      BY <2>1, <2>2 DEF Outcome, Told, Awaited, Interrupting, Cleaning,
         Settling, Open, Raising, Unsettled, Failed, Gone, Errored, Releasing,
         Launching, Probing, Closing, Up, Idle
    <3>. QED
      BY <3>1, <3>2, OutcomeTaken
  <2>3. CASE /\ row[e] = "claimed" /\ row' = [row EXCEPT ![e] = "running"]
             /\ Goto(e, "queued")
    <3>1. row'[e] = "running" /\ \A f \in Execution \ {e} : row'[f] = row[f]
      BY <2>3 DEF TypeOK, StoredType
    <3>2. /\ co'[e].at = "queued"
          /\ UNCHANGED <<co[e].exit, co[e].rel, co[e].interrupted>>
          /\ \A f \in Execution \ {e} : co'[f] = co[f]
      BY <2>3, GotoStep DEF TypeOK
    <3>3. /\ co[e].at = "none" /\ thread[e] = "none" /\ ~rt[e].registered
          /\ \A a \in Actor : fz[e][a] = "idle"
          /\ mode = "serving" /\ ~co[e].interrupted /\ co[e].rel = "idle"
          /\ ~pid[e] /\ ~rt[e].final /\ ~rt[e].owned /\ co[e].exit # "cancel"
      BY <2>1, <2>3 DEF LaunchProtocol, Good, Fresh, Scheduled, Outcome,
         Awaited, Interrupting
    <3>4. Alone(e)
      BY <2>1, <3>1, <3>2 DEF Alone, Untouched, Idle
    <3>5. Told(e)' /\ RowKept(e)
      BY <2>1, <2>3, <3>1, <3>2, <3>3 DEF Outcome, Told, Up, Agrees,
         NONTERMINAL, RowKept, TERMINAL_EXECUTION, TERMINAL_TASK
    <3>7. Probing(e)' /\ Closing(e)'
      BY <2>1, <2>3, <3>1, <3>2, <3>3 DEF Good, Fresh, Stopping, Outcome,
         Probing, Closing, Launching, NONTERMINAL
    <3>6. Awaited(e)' /\ Interrupting(e)' /\ Cleaning(e)' /\ Settling(e)'
      BY <2>1, <3>2, <3>3 DEF Outcome, Awaited, Interrupting, Cleaning,
         Settling, Open, Raising, Launching, Actor, Idle
    <3>. QED
      BY <3>4, <3>5, <3>6, <3>7, OutcomeTaken DEF Outcome
  <2>. QED
    BY <1>2, <2>2, <2>3 DEF Dispatch, try_dispatch
<1>3. ASSUME NEW e \in Execution, SaveTask(e)
      PROVE  Outcomes' /\ Lasting
  <2>1. /\ UNCHANGED <<row, pid, worker, mode, todo, loop, co, rt, fz, cpc,
                       thread>>
        /\ Up /\ events[e] # "none"
    BY <1>3 DEF SaveTask, files, coroutines, LoopFree
  <2>2. /\ task'[e] = events[e] /\ events'[e] = "none"
        /\ \A f \in Execution \ {e} :
             task'[f] = task[f] /\ events'[f] = events[f]
    BY <1>3 DEF SaveTask, TypeOK, StoredType, ProcessType
  <2>3. Alone(e) /\ RowKept(e)
    BY <2>1, <2>2 DEF Alone, Untouched, RowKept
  <2>4. Told(e)' /\ Probing(e)' /\ Closing(e)'
    BY <2>1, <2>2 DEF Outcome, Told, Probing, Closing, Launching, Up,
       TERMINAL_TASK
  <2>5. Awaited(e)' /\ Interrupting(e)' /\ Cleaning(e)'
    BY <2>1, <2>2 DEF Outcome, Awaited, Interrupting, Cleaning, Failed,
       Launching, TypeOK, ProcessType, TaskState
  <2>6. Settling(e)'
    BY <2>1, <2>2 DEF Outcome, Settling, Open, Raising, Unsettled, Failed,
       Gone, Errored, Releasing, Launching, Up, TERMINAL_TASK
  <2>. QED
    BY <2>3, <2>4, <2>5, <2>6, OutcomeTaken DEF Outcome
<1>4. ASSUME NEW e \in Execution, Reject(e)
      PROVE  Outcomes' /\ Lasting
  <2>1. /\ UNCHANGED <<pid, task, worker, mode, todo, fz, cpc, thread>>
        /\ loop = Idle /\ loop' = <<e, "execute">> /\ Up
    BY <1>4 DEF Reject, files, Resumes, LoopFree
  <2>2. /\ co[e].at = "queued" /\ ~co[e].interrupted /\ Goto(e, "outer")
        /\ row' = [row EXCEPT ![e] = "rejected"]
        /\ rt' = [rt EXCEPT ![e].registered = TRUE, ![e].final = TRUE]
        /\ events' = Emitted(e, "REJECTED")
    BY <1>4 DEF Reject, Resumes
  <2>3. /\ co'[e].at = "outer"
        /\ UNCHANGED <<co[e].exit, co[e].rel, co[e].interrupted>>
        /\ \A f \in Execution \ {e} : co'[f] = co[f]
    BY <2>2, GotoStep DEF TypeOK
  <2>4. row'[e] = "rejected" /\ \A f \in Execution \ {e} : row'[f] = row[f]
    BY <2>2 DEF TypeOK, StoredType
  <2>5. /\ rt'[e].registered /\ rt'[e].final
        /\ UNCHANGED <<rt[e].owned, rt[e].blocked>>
        /\ UNCHANGED <<rt[e].closing, rt[e].cleanup>>
        /\ \A f \in Execution \ {e} : rt'[f] = rt[f]
    BY <2>2 DEF TypeOK, RuntimeType, Runtime
  <2>6. /\ mode = "serving" /\ row[e] = "running" /\ ~pid[e]
        /\ thread[e] = "none" /\ \A a \in Actor : fz[e][a] = "idle"
    BY <2>2 DEF Good, Scheduled
  <2>7. /\ events'[e] = "REJECTED"
        /\ \A f \in Execution \ {e} : events'[f] = events[f]
    BY <2>2, <2>6
    DEF Emitted, TypeOK, ProcessType, Outcome, Told, Agrees
  <2>8. Alone(e)
    BY <2>1, <2>3, <2>4, <2>5, <2>7 DEF Alone, Untouched, Idle
  <2>9. Told(e)' /\ Probing(e)' /\ Closing(e)' /\ RowKept(e)
    BY <2>1, <2>2, <2>3, <2>4, <2>5, <2>6, <2>7 DEF Outcome, Told, Probing,
       Closing, Launching, Up, Agrees, NONTERMINAL, RowKept,
       TERMINAL_EXECUTION
  <2>10. Awaited(e)' /\ Interrupting(e)' /\ Cleaning(e)' /\ Settling(e)'
    BY <2>1, <2>2, <2>3, <2>5, <2>6 DEF Outcome, Awaited, Interrupting,
       Cleaning, Settling, Open, Raising, Launching, Actor
  <2>. QED
    BY <2>8, <2>9, <2>10, OutcomeTaken DEF Outcome
<1>4a. ASSUME NEW e \in Execution, EvidenceFails(e)
        PROVE  Outcomes' /\ Lasting
  <2>1. /\ UNCHANGED <<row, pid, task, worker, mode, todo, fz, cpc, thread>>
        /\ UNCHANGED <<events, loop>> /\ Up
    BY <1>4a DEF EvidenceFails, stored, files, Resumes, LoopFree
  <2>2. /\ co[e].at = "queued" /\ ~co[e].interrupted
        /\ Leave(e, "done", "raise")
        /\ rt' = [rt EXCEPT ![e].registered = TRUE]
    BY <1>4a DEF EvidenceFails, Resumes
  <2>3. /\ co'[e].at = "done" /\ co'[e].exit = "raise"
        /\ UNCHANGED <<co[e].rel, co[e].interrupted>>
        /\ \A f \in Execution \ {e} : co'[f] = co[f]
    BY <2>2, LeaveStep DEF TypeOK
  <2>4. /\ UNCHANGED <<rt[e].owned, rt[e].blocked, rt[e].final>>
        /\ UNCHANGED <<rt[e].closing, rt[e].cleanup>>
        /\ \A f \in Execution \ {e} : rt'[f] = rt[f]
    BY <2>2 DEF TypeOK, RuntimeType, Runtime
  <2>5. /\ mode = "serving" /\ row[e] = "running" /\ ~pid[e]
        /\ thread[e] = "none" /\ \A a \in Actor : fz[e][a] = "idle"
        /\ co[e].rel = "idle" /\ ~rt[e].owned /\ ~rt[e].final
    BY <2>2 DEF Good, Scheduled, Outcome, Awaited
  <2>6. Alone(e) /\ RowKept(e)
    BY <2>1, <2>3, <2>4 DEF Alone, Untouched, RowKept
  <2>7. Told(e)' /\ Probing(e)' /\ Closing(e)'
    BY <2>1, <2>2, <2>3, <2>4, <2>5 DEF Good, Stopping, Outcome, Told,
       Probing, Closing, Launching, Up
  <2>8. Awaited(e)' /\ Interrupting(e)' /\ Cleaning(e)'
    BY <2>1, <2>2, <2>3, <2>4, <2>5 DEF Outcome, Awaited, Interrupting,
       Cleaning, Launching, Actor
  <2>9. Unsettled(e)'
    BY <2>1, <2>2, <2>5 DEF Outcome, Told, Unsettled, Agrees
  <2>10. Settling(e)'
    BY <2>3, <2>9 DEF Settling, Raising
  <2>. QED
    BY <2>6, <2>7, <2>8, <2>10, OutcomeTaken DEF Outcome
<1>5. ASSUME NEW e \in Execution, Prepare(e) \/ PrepareRaises(e)
      PROVE  Outcomes' /\ Lasting
  <2>1. /\ UNCHANGED <<row, pid, task, worker, mode, todo, fz, cpc, events>>
        /\ loop = Idle /\ loop' \in {Idle, <<e, "execute">>} /\ Up
    BY <1>5 DEF Prepare, PrepareRaises, stored, Resumes, LoopFree
  <2>2. /\ co[e].at = "queued" /\ ~co[e].interrupted
        /\ rt' = [rt EXCEPT ![e].registered = TRUE, ![e].locked = TRUE]
        /\ \/ Goto(e, "spawning") /\ thread' = [thread EXCEPT ![e] = "gate"]
           \/ Leave(e, "except", "raise") /\ thread' = thread
    BY <1>5 DEF Prepare, PrepareRaises, Resumes
  <2>3. /\ \/ co'[e].at = "spawning" /\ co'[e].exit = co[e].exit
           \/ co'[e].at = "except" /\ co'[e].exit = "raise"
        /\ UNCHANGED <<co[e].rel, co[e].interrupted>>
        /\ \A f \in Execution \ {e} : co'[f] = co[f]
    BY <2>2, GotoStep, LeaveStep DEF TypeOK
  <2>4. /\ \/ thread'[e] = "gate" /\ co'[e].at = "spawning"
           \/ thread'[e] = thread[e] /\ co'[e].at = "except"
        /\ \A f \in Execution \ {e} : thread'[f] = thread[f]
    BY <2>2, GotoStep, LeaveStep DEF TypeOK, ProcessType
  <2>5. /\ rt'[e].registered
        /\ UNCHANGED <<rt[e].final, rt[e].owned, rt[e].blocked>>
        /\ UNCHANGED <<rt[e].closing, rt[e].cleanup>>
        /\ \A f \in Execution \ {e} : rt'[f] = rt[f]
    BY <2>2 DEF TypeOK, RuntimeType, Runtime
  <2>6. /\ mode = "serving" /\ row[e] = "running" /\ ~pid[e]
        /\ thread[e] = "none" /\ \A a \in Actor : fz[e][a] = "idle"
        /\ ~rt[e].owned
    BY <2>2 DEF Good, Scheduled
  <2>7. Alone(e) /\ RowKept(e)
    BY <2>1, <2>3, <2>4, <2>5 DEF Alone, Untouched, Idle, RowKept
  <2>8. Told(e)' /\ Probing(e)' /\ Closing(e)'
    BY <2>1, <2>2, <2>3, <2>4, <2>5, <2>6 DEF Outcome, Told, Probing,
       Closing, Launching, Up, Agrees, NONTERMINAL
  <2>13. /\ ~co[e].interrupted /\ ~rt[e].final /\ co[e].exit # "cancel"
         /\ co[e].rel = "idle"
    BY <2>2 DEF Good, Scheduled, Outcome, Awaited, Interrupting
  <2>9. Awaited(e)'
    BY <2>1, <2>3, <2>4, <2>5, <2>6, <2>13 DEF Awaited, Launching
  <2>10. Interrupting(e)' /\ Cleaning(e)'
    BY <2>1, <2>3, <2>5, <2>6, <2>13 DEF Outcome, Interrupting, Cleaning,
       Actor, Idle
  <2>11. ~rt[e].final /\ Unsettled(e)'
    BY <2>1, <2>2, <2>6 DEF Outcome, Told, Awaited, Unsettled, Agrees, Up
  <2>12. Settling(e)'
    BY <2>1, <2>2, <2>3, <2>4, <2>6, <2>11 DEF Settling, Raising, Gone,
       Launching, Actor
  <2>. QED
    BY <2>7, <2>8, <2>9, <2>10, <2>12, OutcomeTaken DEF Outcome
<1>6. ASSUME NEW e \in Execution, SpawnReturned(e)
      PROVE  Outcomes' /\ Lasting
  <2>1. /\ UNCHANGED <<row, pid, task, worker, mode, todo, rt, fz, cpc, thread>>
        /\ UNCHANGED events /\ ~co[e].interrupted
        /\ loop = Idle /\ loop' \in {Idle, <<e, "execute">>} /\ Up
    BY <1>6 DEF SpawnReturned, stored, Resumes, LoopFree
  <2>2. /\ co[e].at = "spawning"
        /\ \/ Goto(e, "waiting") /\ thread[e] = "returned"
           \/ /\ Leave(e, "finally", "return")
              /\ thread[e] \in {"returned", "refused"}
           \/ Leave(e, "finally", "raise") /\ thread[e] = "raised"
    BY <1>6 DEF SpawnReturned
  <2>3. /\ \/ co'[e].at = "waiting" /\ thread[e] = "returned"
           \/ co'[e].at = "finally" /\ co'[e].exit = "return"
           \/ co'[e].at = "finally" /\ thread[e] = "raised"
        /\ co'[e].exit \in {co[e].exit, "return", "raise"}
        /\ UNCHANGED <<co[e].rel, co[e].interrupted>>
        /\ \A f \in Execution \ {e} : co'[f] = co[f]
    BY <2>2, GotoStep, LeaveStep DEF TypeOK
  <2>4. /\ co[e].exit # "cancel" /\ co[e].rel = "idle" /\ ~Launching(e)
        /\ fz[e]["execute"] = "idle" /\ fz[e]["cancel"] = "idle"
        /\ ~Errored(e)
    BY <2>1, <2>2 DEF Outcome, Interrupting, Cleaning, Errored, Launching
  <2>5. thread[e] = "raised" => ~Open(e) \/ Unsettled(e) \/ Failed(e)
    BY <2>4 DEF Outcome, Settling, Releasing, Actor, Cleaning
  <2>6. thread[e] = "raised" => Gone(e)
    BY DEF Outcome, Awaited, Gone
  <2>. QED
    BY <2>1, <2>2, <2>3, <2>4, <2>5, <2>6, CoroutineMoves
<1>7. ASSUME NEW e \in Execution, WaitOwned(e)
      PROVE  Outcomes' /\ Lasting
  <2>1. UNCHANGED <<row, pid, task, worker, mode, todo, loop, rt, fz, cpc,
                    thread, events>>
    BY <1>7 DEF WaitOwned, stored
  <2>2. co[e].at = "waiting" /\ (Goto(e, "exited") \/ Goto(e, "expired"))
    BY <1>7 DEF WaitOwned
  <2>3. /\ co'[e].at \in {"exited", "expired"}
        /\ UNCHANGED <<co[e].exit, co[e].rel, co[e].interrupted>>
        /\ \A f \in Execution \ {e} : co'[f] = co[f]
    BY <2>2, GotoStep DEF TypeOK
  <2>4. /\ co[e].exit # "cancel" /\ co[e].rel = "idle"
        /\ thread[e] = "returned" /\ fz[e]["execute"] = "idle" /\ ~Errored(e)
    BY <2>2 DEF Outcome, Awaited, Interrupting, Cleaning, Errored
  <2>. QED
    BY <2>1, <2>2, <2>3, <2>4, CoroutineMoves DEF Launching
<1>8. ASSUME NEW e \in Execution, DeliverNothing(e)
      PROVE  Outcomes' /\ Lasting
  <2>1. /\ UNCHANGED <<row, pid, task, worker, mode, todo, rt, fz, cpc, thread>>
        /\ UNCHANGED events /\ ~co[e].interrupted
        /\ loop = Idle /\ loop' = <<e, "execute">>
    BY <1>8 DEF DeliverNothing, stored, Resumes, LoopFree
  <2>2. /\ co[e].at = "exited"
        /\ \/ Leave(e, "finally", "return")
           \/ Leave(e, "finally", "raise") /\ ~rt[e].closing
    BY <1>8 DEF DeliverNothing
  <2>3. /\ co'[e].at = "finally" /\ co'[e].exit \in {"return", "raise"}
        /\ co'[e].exit = "raise" => ~rt[e].closing
        /\ UNCHANGED <<co[e].rel, co[e].interrupted>>
        /\ \A f \in Execution \ {e} : co'[f] = co[f]
    BY <2>2, LeaveStep DEF TypeOK
  <2>4. /\ co[e].exit # "cancel" /\ co[e].rel = "idle"
        /\ thread[e] = "returned" /\ ~Launching(e) /\ ~Errored(e)
        /\ fz[e]["execute"] = "idle" /\ fz[e]["cancel"] = "idle"
    BY <2>1, <2>2 DEF Outcome, Awaited, Interrupting, Cleaning, Errored,
       Launching
  <2>5. Open(e) /\ ~rt[e].closing => Unsettled(e)
    BY <2>4 DEF Outcome, Settling, Releasing, Cleaning
  <2>6. ~rt[e].closing => Gone(e)
    BY <2>2 DEF Good, Launched, Outcome, Awaited, Cleaning, Gone
  <2>. QED
    BY <2>1, <2>2, <2>3, <2>4, <2>5, <2>6, CoroutineMoves
<1>9. ASSUME NEW e \in Execution, Expire(e)
      PROVE  Outcomes' /\ Lasting
  <2>1. /\ UNCHANGED <<row, pid, task, worker, mode, todo, rt, cpc, thread>>
        /\ UNCHANGED events /\ ~co[e].interrupted
        /\ loop = Idle /\ loop' = <<e, "execute">>
    BY <1>9 DEF Expire, stored, Resumes, LoopFree
  <2>2. co[e].at = "expired" /\ Goto(e, "deadline")
    BY <1>9 DEF Expire
  <2>3. /\ co'[e].at = "deadline"
        /\ UNCHANGED <<co[e].exit, co[e].rel, co[e].interrupted>>
        /\ \A f \in Execution \ {e} : co'[f] = co[f]
    BY <2>2, GotoStep DEF TypeOK
  <2>4. /\ fz'[e]["execute"] = "enter"
        /\ UNCHANGED <<fz[e]["cancel"], fz[e]["shutdown"]>>
        /\ \A f \in Execution \ {e} : fz'[f] = fz[f]
    BY <1>9 DEF Expire, TypeOK, FinalizeType, Actor
  <2>5. /\ co[e].exit # "cancel" /\ co[e].rel = "idle"
        /\ thread[e] = "returned" /\ fz[e]["execute"] = "idle" /\ ~Errored(e)
    BY <2>2 DEF Outcome, Awaited, Interrupting, Cleaning, Errored
  <2>. QED
    BY <2>1, <2>2, <2>3, <2>4, <2>5, CoroutineMoves DEF Launching
<1>10. ASSUME NEW e \in Execution, Finally(e)
      PROVE  Outcomes' /\ Lasting
  <2>1. /\ UNCHANGED <<row, pid, task, worker, mode, todo, rt, fz, cpc, thread>>
        /\ UNCHANGED events
        /\ loop = <<e, "execute">> /\ loop' \in {Idle, <<e, "execute">>}
    BY <1>10 DEF Finally, stored, Runs
  <2>2. /\ co[e].at = "finally"
        /\ Goto(e, "except") \/ co' = [co EXCEPT ![e].rel = "gate"]
    BY <1>10 DEF Finally
  <2>3. /\ \/ co'[e].at = "except" /\ co'[e].rel = co[e].rel
           \/ co'[e].at = "finally"
        /\ UNCHANGED <<co[e].exit, co[e].interrupted>>
        /\ \A f \in Execution \ {e} : co'[f] = co[f]
    BY <2>2, GotoStep DEF TypeOK, CoroutineType, Coroutine
  <2>4. /\ ~co[e].interrupted /\ fz[e]["execute"] = "idle" /\ ~Errored(e)
        /\ Open(e) /\ co[e].exit = "raise" => Raising(e)
    BY <2>1, <2>2 DEF Outcome, Interrupting, Cleaning, Errored, Raising
  <2>. QED
    BY <2>1, <2>2, <2>3, <2>4, CoroutineMoves
<1>11. ASSUME NEW e \in Execution, Outer(e)
      PROVE  Outcomes' /\ Lasting
  <2>1. /\ UNCHANGED <<row, pid, task, worker, mode, todo, rt, cpc, thread>>
        /\ UNCHANGED events
        /\ loop = <<e, "execute">> /\ loop' \in {Idle, <<e, "execute">>}
    BY <1>11 DEF Outer, stored, Runs
  <2>2. /\ co[e].at = "outer" /\ co[e].rel = "idle"
        /\ \/ (Goto(e, "drain") \/ Goto(e, "pop")) /\ fz' = fz
           \/ co' = [co EXCEPT ![e].rel = "gate"] /\ fz' = fz
           \/ /\ Goto(e, "outer_stop")
              /\ fz' = [fz EXCEPT ![e]["execute"] = "enter"]
    BY <1>11 DEF Outer
  <2>3. /\ co'[e].at \in {"outer", "pop", "drain", "outer_stop"}
        /\ co'[e].rel # "idle" => co'[e].at = "outer"
        /\ UNCHANGED <<co[e].exit, co[e].interrupted>>
        /\ \A f \in Execution \ {e} : co'[f] = co[f]
    BY <2>2, GotoStep DEF TypeOK, CoroutineType, Coroutine
  <2>4. /\ \/ fz'[e]["execute"] = fz[e]["execute"]
           \/ fz'[e]["execute"] = "enter" /\ co'[e].at = "outer_stop"
        /\ UNCHANGED <<fz[e]["cancel"], fz[e]["shutdown"]>>
        /\ \A f \in Execution \ {e} : fz'[f] = fz[f]
    BY <2>2, GotoStep DEF TypeOK, FinalizeType, Actor
  <2>5. ~co[e].interrupted /\ fz[e]["execute"] = "idle"
    BY <2>1, <2>2 DEF Outcome, Interrupting, Cleaning
  <2>. QED
    BY <2>1, <2>2, <2>3, <2>4, <2>5, CoroutineMoves
<1>12. ASSUME NEW e \in Execution, Drained(e)
      PROVE  Outcomes' /\ Lasting
  <2>1. /\ UNCHANGED <<row, pid, task, worker, mode, todo, rt, fz, cpc, thread>>
        /\ UNCHANGED events /\ ~co[e].interrupted
        /\ loop = Idle /\ loop' = <<e, "execute">>
    BY <1>12 DEF Drained, stored, Resumes, LoopFree
  <2>2. co[e].at = "drain" /\ Goto(e, "pop")
    BY <1>12 DEF Drained
  <2>3. /\ co'[e].at = "pop"
        /\ UNCHANGED <<co[e].exit, co[e].rel, co[e].interrupted>>
        /\ \A f \in Execution \ {e} : co'[f] = co[f]
    BY <2>2, GotoStep DEF TypeOK
  <2>4. co[e].rel = "idle" /\ fz[e]["execute"] = "idle"
    BY <2>2 DEF Outcome, Interrupting, Cleaning
  <2>. QED
    BY <2>1, <2>2, <2>3, <2>4, CoroutineMoves
<1>13. ASSUME NEW e \in Execution, ExecuteResumes(e)
      PROVE  Outcomes' /\ Lasting
  <2>1. /\ UNCHANGED <<row, pid, task, worker, mode, todo, loop, rt, fz, cpc>>
        /\ UNCHANGED <<thread, events>> /\ fz[e]["execute"] = "idle"
    BY <1>13 DEF ExecuteResumes, stored
  <2>2. \/ co[e].at = "deadline" /\ Leave(e, "finally", "return")
        \/ co[e].at = "handler" /\ Goto(e, "outer")
        \/ co[e].at = "outer_stop" /\ Goto(e, "pop")
    BY <1>13 DEF ExecuteResumes
  <2>3. /\ \/ /\ co[e].at = "deadline" /\ co'[e].at = "finally"
              /\ co'[e].exit = "return"
           \/ /\ co[e].at = "handler" /\ co'[e].at = "outer"
              /\ co'[e].exit = co[e].exit
           \/ /\ co[e].at = "outer_stop" /\ co'[e].at = "pop"
              /\ co'[e].exit = co[e].exit
        /\ UNCHANGED <<co[e].rel, co[e].interrupted>>
        /\ \A f \in Execution \ {e} : co'[f] = co[f]
    BY <2>2, GotoStep, LeaveStep DEF TypeOK
  <2>4. /\ co[e].rel = "idle"
        /\ co[e].at = "deadline" => co[e].exit # "cancel"
        /\ Errored(e) => co[e].at = "outer_stop"
    BY <2>2 DEF Outcome, Interrupting, Errored
  <2>. QED
    BY <2>1, <2>2, <2>3, <2>4, CoroutineMoves
<1>14. ASSUME NEW e \in Execution, ReleaseIfSafe(e)
      PROVE  Outcomes' /\ Lasting
  <2>1. /\ UNCHANGED <<row, pid, task, worker, mode, todo, fz, cpc, thread>>
        /\ UNCHANGED events /\ ~co[e].interrupted /\ Up
        /\ loop = Idle /\ co[e].rel = "closed"
    BY <1>14 DEF ReleaseIfSafe, stored, Resumes, LoopFree
  <2>2. OwnedAlive(e) \/ ~UnlockRaises
    BY <2>1 DEF LocksThere
  <2>3. /\ loop' = <<e, "execute">>
        /\ co' = [co EXCEPT ![e].rel = "idle", ![e].at = AfterRelease(e)]
        /\ rt' = rt \/ rt' = [rt EXCEPT ![e].locked = FALSE]
    BY <1>14, <2>2 DEF ReleaseIfSafe
  <2>4. /\ co'[e].at = AfterRelease(e) /\ co'[e].rel = "idle"
        /\ UNCHANGED <<co[e].exit, co[e].interrupted>>
        /\ \A f \in Execution \ {e} : co'[f] = co[f]
    BY <2>3 DEF TypeOK, CoroutineType, Coroutine
  <2>5. /\ UNCHANGED <<rt[e].registered, rt[e].owned, rt[e].blocked>>
        /\ UNCHANGED <<rt[e].closing, rt[e].final, rt[e].cleanup>>
        /\ \A f \in Execution \ {e} : rt'[f] = rt[f]
    BY <2>3 DEF TypeOK, RuntimeType, Runtime
  <2>6. \/ co[e].at = "finally" /\ co'[e].at = "except"
        \/ co[e].at = "except" /\ co'[e].at = "outer"
        \/ co[e].at = "outer" /\ co'[e].at = "pop"
    BY <2>1, <2>4 DEF Outcome, Interrupting, AfterRelease
  <2>7. /\ fz[e]["execute"] = "idle"
        /\ Errored(e) => co[e].at # "finally"
        /\ Open(e) /\ co[e].exit = "raise" /\ co[e].at = "finally" => Raising(e)
    BY <2>1, <2>6 DEF Outcome, Cleaning, Errored, Raising
  <2>8. /\ co[e].at \notin {"none", "queued", "spawning", "done"}
        /\ co'[e].at \in {"except", "outer", "pop"}
        /\ Errored(e) => co'[e].at \in {"outer", "pop"}
        /\ co'[e].exit = "raise" /\ co'[e].at = "except"
             => Raising(e) \/ ~Open(e)
    BY <2>4, <2>6, <2>7
  <2>9. {loop, loop'} \subseteq {Idle, <<e, "execute">>}
    BY <2>1, <2>3
  <2>. QED
    BY <2>1, <2>4, <2>5, <2>7, <2>8, <2>9, CoroutineMoves
<1>15. ASSUME NEW e \in Execution, NEW outcome \in {"completed", "failed"},
              Deliver(e, outcome)
      PROVE  Outcomes' /\ Lasting
  <2>1. /\ UNCHANGED <<pid, task, worker, mode, todo, fz, cpc, thread>>
        /\ loop = Idle /\ loop' = <<e, "execute">> /\ Up
        /\ co[e].at = "exited" /\ ~co[e].interrupted
        /\ ~rt[e].final /\ ~rt[e].closing /\ Leave(e, "finally", "return")
    BY <1>15 DEF Deliver, Resumes, LoopFree
  <2>2. /\ co'[e].at = "finally" /\ co'[e].exit = "return"
        /\ UNCHANGED <<co[e].rel, co[e].interrupted>>
        /\ \A f \in Execution \ {e} : co'[f] = co[f]
    BY <2>1, LeaveStep DEF TypeOK
  <2>3. /\ row'[e] = outcome
        /\ \A f \in Execution \ {e} : row'[f] = row[f]
    BY <1>15 DEF Deliver, TypeOK, StoredType
  <2>4. /\ rt'[e].final
        /\ UNCHANGED <<rt[e].registered, rt[e].blocked, rt[e].owned>>
        /\ UNCHANGED <<rt[e].closing, rt[e].cleanup>>
        /\ \A f \in Execution \ {e} : rt'[f] = rt[f]
    BY <1>15 DEF Deliver, TypeOK, RuntimeType, Runtime
  <2>5. /\ rt[e].registered /\ thread[e] = "returned" /\ co[e].rel = "idle"
        /\ co[e].exit # "cancel" /\ ~Releasing(e) /\ ~Errored(e)
        /\ fz[e]["cancel"] = "idle"
    BY <2>1 DEF Outcome, Awaited, Interrupting, Cleaning, Releasing, Errored
  <2>6. Unsettled(e)
    BY <2>1, <2>5 DEF Outcome, Settling, Open
  <2>7. /\ events'[e] = TaskStateOf(outcome)
        /\ \A f \in Execution \ {e} : events'[f] = events[f]
    BY <1>15, <2>6 DEF Deliver, Emitted, TypeOK, ProcessType, Unsettled,
       TERMINAL_TASK
  <2>8. Alone(e)
    BY <2>1, <2>2, <2>3, <2>4, <2>7, ServerAssumption
    DEF Alone, Untouched, Idle
  <2>9. Told(e)' /\ RowKept(e)
    BY <2>1, <2>2, <2>3, <2>6, <2>7 DEF Told, RowKept, Unsettled, Agrees,
       TaskStateOf, TERMINAL_EXECUTION
  <2>10. Awaited(e)' /\ Interrupting(e)'
    BY <2>1, <2>2, <2>4, <2>5 DEF Outcome, Awaited, Interrupting, Launching
  <2>11. Cleaning(e)'
    BY <2>1, <2>2, <2>4 DEF Outcome, Cleaning, Actor
  <2>12. Settling(e)'
    BY <2>4 DEF Settling, Raising, Open
  <2>13. Probing(e)' /\ Closing(e)'
    BY <2>1, <2>2, <2>3, <2>4 DEF Outcome, Probing, Closing, Launching, Up
  <2>. QED
    BY <2>8, <2>9, <2>10, <2>11, <2>12, <2>13, OutcomeTaken DEF Outcome
<1>16. ASSUME NEW e \in Execution, Except(e)
      PROVE  Outcomes' /\ Lasting
  <2>1. /\ UNCHANGED <<pid, task, worker, mode, todo, rt, cpc, thread>>
        /\ loop = <<e, "execute">> /\ loop' \in {Idle, <<e, "execute">>} /\ Up
        /\ co[e].at = "except" /\ co[e].rel = "idle"
    BY <1>16 DEF Except, Runs
  <2>2. /\ ~co[e].interrupted /\ fz[e]["execute"] = "idle" /\ ~Errored(e)
        /\ rt[e].registered
    BY <2>1 DEF Outcome, Awaited, Interrupting, Cleaning, Errored
  <2>3. CASE /\ UNCHANGED <<row, events>>
             /\ \/ /\ Goto(e, "handler")
                   /\ fz' = [fz EXCEPT ![e]["execute"] = "enter"]
                \/ Goto(e, "outer") /\ fz' = fz
    <3>1. /\ co'[e].at \in {"handler", "outer"}
          /\ UNCHANGED <<co[e].exit, co[e].rel, co[e].interrupted>>
          /\ \A f \in Execution \ {e} : co'[f] = co[f]
      BY <2>3, GotoStep DEF TypeOK
    <3>2. /\ \/ fz'[e]["execute"] = fz[e]["execute"]
             \/ fz'[e]["execute"] = "enter" /\ co'[e].at = "handler"
          /\ UNCHANGED <<fz[e]["cancel"], fz[e]["shutdown"]>>
          /\ \A f \in Execution \ {e} : fz'[f] = fz[f]
      BY <2>3, GotoStep DEF TypeOK, FinalizeType, Actor
    <3>. QED
      BY <2>1, <2>2, <2>3, <3>1, <3>2, CoroutineMoves
  <2>4. CASE /\ co[e].exit = "raise" /\ ~rt[e].final
             /\ row' = [row EXCEPT ![e] = "failed"]
             /\ events' = Emitted(e, "FAILED") /\ fz' = fz
             /\ Goto(e, "outer") \/ co' = [co EXCEPT ![e].rel = "gate"]
    <3>1. /\ \/ co'[e].at = "outer" /\ co'[e].rel = "idle"
             \/ co'[e].at = "except" /\ co'[e].rel = "gate"
          /\ UNCHANGED <<co[e].exit, co[e].interrupted>>
          /\ \A f \in Execution \ {e} : co'[f] = co[f]
      BY <2>1, <2>4, GotoStep DEF TypeOK, CoroutineType, Coroutine
    <3>2. row'[e] = "failed" /\ \A f \in Execution \ {e} : row'[f] = row[f]
      BY <2>4 DEF TypeOK, StoredType
    <3>3. /\ Unsettled(e) \/ Failed(e)
          /\ Gone(e) /\ ~Launching(e) /\ fz[e]["cancel"] = "idle"
      BY <2>1, <2>2, <2>4 DEF Outcome, Settling, Raising, Open
    <3>4. /\ events'[e] = "FAILED"
          /\ \A f \in Execution \ {e} : events'[f] = events[f]
      BY <2>4, <3>3 DEF Emitted, TypeOK, ProcessType, Unsettled, Failed,
         TERMINAL_TASK
    <3>5. Alone(e)
      BY <2>1, <2>4, <3>1, <3>2, <3>4, ServerAssumption
      DEF Alone, Untouched, Idle
    <3>6. Told(e)' /\ RowKept(e)
      BY <2>1, <3>1, <3>2, <3>3, <3>4 DEF Told, RowKept, Unsettled, Failed,
         Agrees, TERMINAL_EXECUTION, TERMINAL_TASK
    <3>7. Failed(e)' /\ Gone(e)' /\ ~Launching(e)'
      BY <2>1, <2>4, <3>2, <3>3, <3>4 DEF Failed, Unsettled, Gone, Launching,
         TERMINAL_TASK
    <3>8. Awaited(e)' /\ Interrupting(e)'
      BY <2>1, <2>2, <2>4, <3>1, <3>3 DEF Outcome, Awaited, Interrupting,
         Launching
    <3>9. Cleaning(e)'
      BY <2>1, <2>2, <2>4, <3>1, <3>7 DEF Outcome, Cleaning
    <3>10. Settling(e)'
      BY <2>4, <3>1, <3>3, <3>7 DEF Settling, Errored
    <3>11. Probing(e)' /\ Closing(e)'
      BY <2>1, <2>4, <3>1, <3>2 DEF Outcome, Probing, Closing, Launching, Up
    <3>. QED
      BY <3>5, <3>6, <3>8, <3>9, <3>10, <3>11, OutcomeTaken DEF Outcome
  <2>. QED
    BY <1>16, <2>3, <2>4 DEF Except
<1>17. ASSUME NEW e \in Execution, Pop(e)
      PROVE  Outcomes' /\ Lasting
  <2>1. /\ UNCHANGED <<row, pid, task, worker, mode, todo, fz, cpc, thread>>
        /\ UNCHANGED events /\ loop = <<e, "execute">> /\ loop' = Idle
        /\ co[e].at = "pop" /\ Goto(e, "done")
    BY <1>17 DEF Pop, stored, Runs
  <2>2. /\ co'[e].at = "done"
        /\ UNCHANGED <<co[e].exit, co[e].rel, co[e].interrupted>>
        /\ \A f \in Execution \ {e} : co'[f] = co[f]
    BY <2>1, GotoStep DEF TypeOK
  <2>3. /\ ~rt'[e].registered
        /\ UNCHANGED <<rt[e].final, rt[e].blocked, rt[e].owned>>
        /\ UNCHANGED <<rt[e].closing, rt[e].cleanup>>
        /\ \A f \in Execution \ {e} : rt'[f] = rt[f]
    BY <1>17 DEF Pop, TypeOK, RuntimeType, Runtime
  <2>4. /\ rt[e].registered /\ ~co[e].interrupted /\ co[e].rel = "idle"
        /\ fz[e]["execute"] = "idle"
    BY <2>1 DEF Outcome, Awaited, Interrupting, Cleaning
  <2>5. Alone(e) /\ RowKept(e)
    BY <2>1, <2>2, <2>3, ServerAssumption
    DEF Alone, Untouched, Idle, RowKept
  <2>6. Told(e)' /\ Probing(e)' /\ Closing(e)'
    BY <2>1, <2>2, <2>3 DEF Outcome, Told, Probing, Closing, Launching, Up
  <2>7. Awaited(e)' /\ Interrupting(e)'
    BY <2>1, <2>2, <2>3, <2>4 DEF Outcome, Awaited, Interrupting, Launching,
       Idle
  <2>8. Cleaning(e)'
    BY <2>1, <2>2, <2>3, <2>4 DEF Outcome, Cleaning, Failed
  <2>9. Open(e)' => Open(e)
    BY <2>1, <2>3, <2>4 DEF Open, Up
  <2>10. Settling(e)'
    BY <2>1, <2>2, <2>9 DEF Outcome, Settling, Raising, Unsettled, Failed,
       Gone, Errored, Releasing, Launching
  <2>. QED
    BY <2>5, <2>6, <2>7, <2>8, <2>10, OutcomeTaken DEF Outcome
<1>18. ASSUME NEW e \in Execution, CloseGateForRelease(e)
      PROVE  Outcomes' /\ Lasting
  <2>1. /\ UNCHANGED <<row, pid, task, worker, mode, todo, loop, fz, cpc>>
        /\ UNCHANGED thread
        /\ UNCHANGED events /\ co[e].rel = "gate"
        /\ thread[e] \notin {"launched", "recorded"}
    BY <1>18 DEF CloseGateForRelease, stored, SpawnLockFree
  <2>2. /\ co'[e].rel = "closed"
        /\ UNCHANGED <<co[e].at, co[e].exit, co[e].interrupted>>
        /\ \A f \in Execution \ {e} : co'[f] = co[f]
    BY <1>18 DEF CloseGateForRelease, TypeOK, CoroutineType, Coroutine
  <2>3. /\ rt'[e].blocked
        /\ UNCHANGED <<rt[e].registered, rt[e].final, rt[e].owned>>
        /\ UNCHANGED <<rt[e].closing, rt[e].cleanup>>
        /\ \A f \in Execution \ {e} : rt'[f] = rt[f]
    BY <1>18 DEF CloseGateForRelease, TypeOK, RuntimeType, Runtime
  <2>4. Alone(e) /\ RowKept(e)
    BY <2>1, <2>2, <2>3 DEF Alone, Untouched, RowKept
  <2>5. Told(e)' /\ Probing(e)' /\ Closing(e)'
    BY <2>1, <2>2, <2>3 DEF Outcome, Told, Probing, Closing, Launching, Up
  <2>6. Awaited(e)' /\ Interrupting(e)'
    BY <2>1, <2>2, <2>3 DEF Outcome, Awaited, Interrupting, Launching
  <2>7. Cleaning(e)'
    BY <2>1, <2>2, <2>3 DEF Outcome, Cleaning, Failed
  <2>8. Settling(e)'
    BY <2>1, <2>2, <2>3 DEF Outcome, Settling, Raising, Open, Up, Unsettled,
       Failed, Gone, Errored, Releasing, Launching
  <2>. QED
    BY <2>4, <2>5, <2>6, <2>7, <2>8, OutcomeTaken DEF Outcome
<1>19. ASSUME NEW e \in Execution, Interrupted(e)
      PROVE  Outcomes' /\ Lasting
  <2>1. /\ UNCHANGED <<row, pid, task, worker, mode, todo, cpc, thread, events>>
        /\ loop = Idle /\ loop' \in {Idle, <<e, "execute">>}
        /\ Up /\ co[e].interrupted
    BY <1>19 DEF Interrupted, stored, LoopFree
  <2>2. /\ co'[e].at = AfterInterrupt(e) /\ co'[e].exit = "cancel"
        /\ co'[e].rel = "idle" /\ ~co'[e].interrupted
        /\ \A f \in Execution \ {e} : co'[f] = co[f]
    BY <1>19 DEF Interrupted, TypeOK, CoroutineType
  <2>3. /\ fz'[e]["execute"] = "idle"
        /\ UNCHANGED <<fz[e]["cancel"], fz[e]["shutdown"]>>
        /\ \A f \in Execution \ {e} : fz'[f] = fz[f]
    BY <1>19 DEF Interrupted, TypeOK, FinalizeType, Actor
  <2>4. /\ UNCHANGED <<rt[e].registered, rt[e].final, rt[e].owned>>
        /\ UNCHANGED rt[e].closing
        /\ rt'[e].cleanup = IF rt[e].cleanup = "execute" THEN "none"
                            ELSE rt[e].cleanup
        /\ \/ rt'[e].blocked = rt[e].blocked
           \/ rt'[e].blocked /\ thread[e] \notin {"launched", "recorded"}
        /\ \A f \in Execution \ {e} : rt'[f] = rt[f]
    BY <1>19 DEF Interrupted, TypeOK, RuntimeType, Runtime, SpawnLockFree
  <2>5. /\ co[e].at \notin {"none", "queued", "done"} /\ rt[e].registered
        /\ fz[e]["execute"] \notin {"release", "releasing"}
    BY <2>1 DEF Good, Scheduled, Outcome, Awaited, Interrupting, Cleaning
  <2>6. /\ co'[e].at \in {"finally", "except", "outer", "done"}
        /\ Errored(e) => co'[e].at \in {"outer", "done"}
    BY <2>2, <2>5 DEF AfterInterrupt, Errored
  <2>7. Alone(e) /\ RowKept(e)
    BY <2>1, <2>2, <2>3, <2>4, ServerAssumption
    DEF Alone, Untouched, Idle, RowKept
  <2>8. Told(e)' /\ Probing(e)' /\ Closing(e)'
    BY <2>1, <2>2, <2>3, <2>4, <2>5, <2>6 DEF Outcome, Told, Probing, Closing,
       Launching, Up
  <2>9. Awaited(e)'
    BY <2>1, <2>2, <2>3, <2>4, <2>5, <2>6 DEF Outcome, Awaited, Launching, Idle
  <2>10. Interrupting(e)'
    BY <2>2, <2>6 DEF Interrupting
  <2>11. Cleaning(e)'
    BY <2>1, <2>2, <2>3, <2>4 DEF Outcome, Cleaning, Actor, Failed
  <2>12. Open(e)' => Open(e)
    BY <2>1, <2>3, <2>4 DEF Open, Up, Actor
  <2>13. Releasing(e) => Releasing(e)'
    BY <2>3, <2>5 DEF Releasing, Actor
  <2>14. Errored(e) => Errored(e)'
    BY <2>1, <2>3, <2>6 DEF Errored, Failed, Gone, Launching, Actor
  <2>15. Settling(e)'
    BY <2>1, <2>2, <2>12, <2>13, <2>14 DEF Outcome, Settling, Raising, Unsettled
  <2>. QED
    BY <2>7, <2>8, <2>9, <2>10, <2>11, <2>15, OutcomeTaken DEF Outcome
<1>20. ASSUME NEW e \in Execution, Launch(e) \/ WriteOwner(e) \/ SpawnRaises(e)
      PROVE  Outcomes' /\ Lasting
  <2>1. UNCHANGED <<row, pid, task, mode, todo, loop, co, fz, cpc, events>>
    BY <1>20 DEF Launch, WriteOwner, SpawnRaises, stored, coroutines
  <2>2. /\ mode # "down" /\ thread[e] \in {"gate", "launched", "recorded"}
        /\ \/ /\ ~rt[e].blocked
              /\ thread' = [thread EXCEPT ![e] = "launched"]
              /\ worker' = [worker EXCEPT ![e] = "live"]
              /\ rt' = [rt EXCEPT ![e].owned = TRUE]
           \/ /\ \/ thread' = [thread EXCEPT ![e] = "refused"]
                 \/ thread' = [thread EXCEPT ![e] = "raised"]
                 \/ /\ thread[e] = "launched"
                    /\ thread' = [thread EXCEPT ![e] = "recorded"]
              /\ UNCHANGED <<worker, rt>>
    BY <1>20 DEF Launch, WriteOwner, SpawnRaises, SpawnAllowed, coroutines
  <2>3. /\ thread'[e] \in {"launched", "refused", "raised", "recorded"}
        /\ thread'[e] = "launched" =>
             worker'[e] = "live" /\ rt'[e].owned /\ ~rt[e].blocked
        /\ thread'[e] = "recorded" => thread[e] = "launched"
        /\ thread'[e] # "launched" => UNCHANGED <<worker[e], rt[e]>>
        /\ UNCHANGED <<rt[e].registered, rt[e].final, rt[e].blocked>>
        /\ UNCHANGED <<rt[e].closing, rt[e].cleanup>>
        /\ \A f \in Execution \ {e} :
             UNCHANGED <<thread[f], worker[f], rt[f]>>
    BY <2>2 DEF TypeOK, ProcessType, RuntimeType, Runtime
  <2>4. Launching(e) /\ ~pid[e]
    BY <2>2 DEF Launching, Outcome, Awaited
  <2>5. Alone(e) /\ RowKept(e)
    BY <2>1, <2>3 DEF Alone, Untouched, RowKept
  <2>6. Told(e)' /\ Probing(e)'
    BY <2>1, <2>3 DEF Outcome, Told, Probing, Up
  <2>7. Closing(e)'
    BY <2>1, <2>3, <2>4 DEF Outcome, Closing, Launching
  <2>8. Awaited(e)'
    BY <2>1, <2>3, <2>4 DEF Outcome, Awaited, Launching
  <2>9. Interrupting(e)' /\ Cleaning(e)'
    BY <2>1, <2>3 DEF Outcome, Interrupting, Cleaning, Failed
  <2>10. Settling(e)'
    BY <2>1, <2>3, <2>4 DEF Outcome, Settling, Raising, Open, Up, Unsettled,
       Errored, Releasing
  <2>. QED
    BY <2>5, <2>6, <2>7, <2>8, <2>9, <2>10, OutcomeTaken DEF Outcome
<1>21. ASSUME NEW e \in Execution, RecordPid(e)
      PROVE  Outcomes' /\ Lasting
  <2>1. /\ UNCHANGED <<task, worker, mode, todo, loop, rt, co, fz, cpc, events>>
        /\ mode # "down" /\ thread[e] = "recorded"
    BY <1>21 DEF RecordPid, coroutines
  <2>2. /\ row'[e] = "running" /\ pid'[e] /\ thread'[e] = "returned"
        /\ \A f \in Execution \ {e} : UNCHANGED <<row[f], pid[f], thread[f]>>
    BY <1>21 DEF RecordPid, TypeOK, StoredType, ProcessType
  <2>3. /\ ~rt[e].blocked /\ ~rt[e].final /\ rt[e].owned /\ Launching(e)
        /\ co[e].at = "spawning" \/ fz[e]["cancel"] = "gate"
    BY <2>1 DEF Outcome, Awaited, Launching
  <2>4. Up /\ co[e].at \notin {"none", "queued"}
    BY <2>1, <2>3 DEF Outcome, Closing, Good, Scheduled, Up, TypeOK, ServerType
  <2>5. Open(e) /\ ~Releasing(e)
    BY <2>3, <2>4 DEF Open, Releasing, Outcome, Awaited, Cleaning, Actor
  <2>6. Unsettled(e) /\ ~Raising(e)
    BY <2>3, <2>5 DEF Outcome, Settling, Errored
  <2>7. Alone(e) /\ RowKept(e)
    BY <2>1, <2>2, <2>6 DEF Alone, Untouched, RowKept, Unsettled
  <2>8. Told(e)' /\ Unsettled(e)'
    BY <2>1, <2>2, <2>6 DEF Told, Unsettled, TERMINAL_TASK
  <2>9. Probing(e)' /\ Closing(e)'
    BY <2>1, <2>2, <2>3, <2>6 DEF Outcome, Probing, Closing, Launching, Actor,
       Awaited, Unsettled
  <2>10. Awaited(e)' /\ Interrupting(e)'
    BY <2>1, <2>2, <2>3 DEF Outcome, Awaited, Interrupting, Launching
  <2>11. Cleaning(e)'
    BY <2>1, <2>5 DEF Outcome, Cleaning, Releasing, Actor
  <2>12. Settling(e)'
    BY <2>1, <2>6, <2>8 DEF Settling, Raising, Open, Up
  <2>. QED
    BY <2>7, <2>8, <2>9, <2>10, <2>11, <2>12, OutcomeTaken DEF Outcome
<1>22. ASSUME NEW e \in Execution, NEW a \in Actor, FinalizeEnter(e, a)
      PROVE  Outcomes' /\ Lasting
  <2>1. /\ UNCHANGED <<row, pid, task, worker, mode, todo, co, cpc, thread>>
        /\ UNCHANGED events /\ Up
        /\ fz[e][a] = "enter" /\ loop \in {Idle, <<e, a>>}
        /\ loop' \in {Idle, <<e, a>>}
        /\ a = "execute" => ~co[e].interrupted
    BY <1>22 DEF FinalizeEnter, stored, FinalizeRuns, Runs, LoopFree, Outcome,
       Interrupting
  <2>2. \/ /\ rt[e].cleanup # "none" /\ loop' = Idle /\ UNCHANGED <<rt, fz>>
        \/ /\ rt[e].final /\ UNCHANGED rt
           /\ fz' = [fz EXCEPT ![e][a] = "idle"]
        \/ /\ rt[e].cleanup = "none" /\ ~rt[e].final /\ loop' = Idle
           /\ rt' = [rt EXCEPT ![e].closing = TRUE, ![e].cleanup = a]
           /\ fz' = [fz EXCEPT ![e][a] = "gate"]
    BY <1>22 DEF FinalizeEnter
  <2>3. /\ \A b \in Actor \ {a} : fz'[e][b] = fz[e][b]
        /\ \A f \in Execution \ {e} : fz'[f] = fz[f]
        /\ \/ /\ fz'[e][a] = "enter" /\ rt[e].cleanup # "none"
              /\ UNCHANGED rt[e] /\ loop' = Idle
           \/ fz'[e][a] = "idle" /\ rt[e].final /\ UNCHANGED rt[e]
           \/ /\ fz'[e][a] = "gate" /\ rt[e].cleanup = "none" /\ ~rt[e].final
              /\ rt'[e].closing /\ rt'[e].cleanup = a /\ loop' = Idle
        /\ UNCHANGED <<rt[e].registered, rt[e].final, rt[e].owned>>
        /\ UNCHANGED rt[e].blocked
        /\ \A f \in Execution \ {e} : rt'[f] = rt[f]
    <3>1. CASE rt[e].cleanup # "none" /\ loop' = Idle /\ UNCHANGED <<rt, fz>>
      BY <2>1, <3>1
    <3>2. CASE rt[e].final /\ UNCHANGED rt
               /\ fz' = [fz EXCEPT ![e][a] = "idle"]
      <4>1. /\ fz'[e][a] = "idle"
            /\ \A b \in Actor \ {a} : fz'[e][b] = fz[e][b]
            /\ \A f \in Execution \ {e} : fz'[f] = fz[f]
        BY <3>2, FinalizeMoved DEF TypeOK
      <4>. QED
        BY <3>2, <4>1
    <3>3. CASE /\ rt[e].cleanup = "none" /\ ~rt[e].final /\ loop' = Idle
               /\ rt' = [rt EXCEPT ![e].closing = TRUE, ![e].cleanup = a]
               /\ fz' = [fz EXCEPT ![e][a] = "gate"]
      <4>1. /\ fz'[e][a] = "gate"
            /\ \A b \in Actor \ {a} : fz'[e][b] = fz[e][b]
            /\ \A f \in Execution \ {e} : fz'[f] = fz[f]
        BY <3>3, FinalizeMoved DEF TypeOK
      <4>. QED
        BY <3>3, <4>1 DEF TypeOK, RuntimeType, Runtime
    <3>. QED
      BY <2>2, <3>1, <3>2, <3>3
  <2>4. Alone(e) /\ RowKept(e)
    BY <2>1, <2>3, ServerAssumption DEF Alone, Untouched, Idle, RowKept
  <2>5. Told(e)' /\ Probing(e)' /\ Closing(e)'
    BY <2>1, <2>3 DEF Outcome, Told, Probing, Closing, Launching, Up, Actor
  <2>6. Awaited(e)'
    BY <2>1, <2>3, ServerAssumption
    DEF Outcome, Awaited, Launching, Idle, Actor, Cleaning
  <2>7. Interrupting(e)'
    BY <2>1, <2>3 DEF Outcome, Interrupting, Idle, Actor
  <2>8. Cleaning(e)'
    BY <2>1, <2>3 DEF Outcome, Cleaning, Failed, Actor
  <2>9. Settling(e)'
    BY <2>1, <2>3 DEF Outcome, Settling, Raising, Open, Up, Unsettled, Failed,
       Gone, Errored, Releasing, Launching, Actor
  <2>. QED
    BY <2>4, <2>5, <2>6, <2>7, <2>8, <2>9, OutcomeTaken DEF Outcome
<1>23. ASSUME NEW e \in Execution, NEW a \in Actor, FinalizeGate(e, a)
      PROVE  Outcomes' /\ Lasting
  <2>1. /\ UNCHANGED <<row, pid, task, worker, mode, todo, loop, co, cpc>>
        /\ UNCHANGED thread
        /\ UNCHANGED events /\ thread[e] \notin {"launched", "recorded"}
    BY <1>23 DEF FinalizeGate, stored, SpawnLockFree
  <2>2. /\ \/ fz[e][a] = "gate" /\ fz'[e][a] = "gated"
           \/ fz[e][a] = "release" /\ fz'[e][a] = "releasing"
        /\ \A b \in Actor \ {a} : fz'[e][b] = fz[e][b]
        /\ \A f \in Execution \ {e} : fz'[f] = fz[f]
    BY <1>23, FinalizeMoved DEF FinalizeGate, TypeOK
  <2>3. /\ rt'[e].blocked
        /\ UNCHANGED <<rt[e].registered, rt[e].final, rt[e].owned>>
        /\ UNCHANGED <<rt[e].closing, rt[e].cleanup>>
        /\ \A f \in Execution \ {e} : rt'[f] = rt[f]
    BY <1>23 DEF FinalizeGate, TypeOK, RuntimeType, Runtime
  <2>4. Alone(e) /\ RowKept(e)
    BY <2>1, <2>2, <2>3 DEF Alone, Untouched, RowKept
  <2>5. Told(e)' /\ Probing(e)' /\ Closing(e)'
    BY <2>1, <2>2, <2>3 DEF Outcome, Told, Probing, Closing, Launching, Up,
       Actor
  <2>6. Awaited(e)' /\ Interrupting(e)'
    BY <2>1, <2>2, <2>3 DEF Outcome, Awaited, Interrupting, Launching, Actor
  <2>7. Cleaning(e)'
    BY <2>1, <2>2, <2>3 DEF Outcome, Cleaning, Failed, Actor
  <2>8. Settling(e)'
    BY <2>1, <2>2, <2>3 DEF Outcome, Settling, Raising, Open, Up, Unsettled,
       Failed, Gone, Errored, Releasing, Launching, Actor
  <2>. QED
    BY <2>4, <2>5, <2>6, <2>7, <2>8, OutcomeTaken DEF Outcome
<1>24. ASSUME NEW e \in Execution, NEW a \in Actor, FinalizeGated(e, a)
      PROVE  Outcomes' /\ Lasting
  <2>1. /\ UNCHANGED <<row, pid, task, worker, mode, todo, rt, co, cpc, thread>>
        /\ UNCHANGED events /\ Up /\ fz[e][a] = "gated"
        /\ loop \in {Idle, <<e, a>>} /\ loop' \in {Idle, <<e, a>>}
        /\ a = "execute" => ~co[e].interrupted
    BY <1>24 DEF FinalizeGated, stored, FinalizeRuns, Runs, LoopFree, Outcome,
       Interrupting
  <2>2. /\ fz'[e][a] \in {"stop", "stopped"}
        /\ \A b \in Actor \ {a} : fz'[e][b] = fz[e][b]
        /\ \A f \in Execution \ {e} : fz'[f] = fz[f]
    BY <1>24, FinalizeMoved DEF FinalizeGated, TypeOK
  <2>3. rt[e].blocked /\ cpc[e] = "idle"
    BY <2>1, FinalizeAlone
  <2>4. Alone(e) /\ RowKept(e)
    BY <2>1, <2>2, ServerAssumption DEF Alone, Untouched, Idle, RowKept
  <2>5. Told(e)' /\ Probing(e)' /\ Closing(e)'
    BY <2>1, <2>2, <2>3 DEF Outcome, Told, Probing, Closing, Launching, Up,
       Actor
  <2>6. Awaited(e)'
    BY <2>1, <2>3 DEF Outcome, Awaited, Launching
  <2>7. Interrupting(e)'
    BY <2>1, <2>2 DEF Outcome, Interrupting, Idle, Actor
  <2>8. Cleaning(e)'
    BY <2>1, <2>2 DEF Outcome, Cleaning, Failed, Actor
  <2>9. Settling(e)'
    BY <2>1, <2>2 DEF Outcome, Settling, Raising, Open, Up, Unsettled, Failed,
       Gone, Errored, Releasing, Launching, Actor
  <2>. QED
    BY <2>4, <2>5, <2>6, <2>7, <2>8, <2>9, OutcomeTaken DEF Outcome
<1>25. ASSUME NEW e \in Execution, NEW a \in Actor, FinalizeStop(e, a)
      PROVE  Outcomes' /\ Lasting
  <2>1. /\ UNCHANGED <<row, pid, task, mode, todo, loop, rt, co, cpc, thread>>
        /\ UNCHANGED events /\ fz[e][a] = "stop"
    BY <1>25 DEF FinalizeStop, stored
  <2>2. PICK at \in {"stopped", "unstopped"} :
          /\ fz' = [fz EXCEPT ![e][a] = at]
          /\ at = "stopped" => worker' = [worker EXCEPT ![e] = "dead"]
          /\ at = "unstopped" => is_owned_alive(e) /\ UNCHANGED worker
    BY <1>25 DEF FinalizeStop
  <2>3. /\ fz'[e][a] = at
        /\ at = "stopped" => worker'[e] = "dead"
        /\ \A b \in Actor \ {a} : fz'[e][b] = fz[e][b]
        /\ \A f \in Execution \ {e} : fz'[f] = fz[f] /\ worker'[f] = worker[f]
    <3>1. /\ fz'[e][a] = at
          /\ \A b \in Actor \ {a} : fz'[e][b] = fz[e][b]
          /\ \A f \in Execution \ {e} : fz'[f] = fz[f]
      BY <2>2, FinalizeMoved DEF TypeOK
    <3>. QED
      BY <2>2, <3>1 DEF TypeOK, ProcessType
  <2>4. Alone(e) /\ RowKept(e)
    BY <2>1, <2>2, <2>3 DEF Alone, Untouched, RowKept
  <2>5. Told(e)' /\ Probing(e)' /\ Closing(e)'
    BY <2>1, <2>2, <2>3 DEF Outcome, Told, Probing, Closing, Launching, Up,
       Actor
  <2>6. Awaited(e)'
    BY <2>1, <2>2, <2>3 DEF Outcome, Awaited, Launching, Cleaning
  <2>7. Interrupting(e)'
    BY <2>1, <2>2, <2>3 DEF Outcome, Interrupting, Actor
  <2>8. Cleaning(e)'
    BY <2>1, <2>2, <2>3 DEF Outcome, Cleaning, Failed, Actor
  <2>9. Gone(e) => Gone(e)'
    BY <2>1, <2>2, <2>3 DEF Gone, is_owned_alive
  <2>10. Settling(e)'
    BY <2>1, <2>2, <2>3, <2>9 DEF Outcome, Settling, Raising, Open, Up,
       Unsettled, Failed, Errored, Releasing, Launching, Actor
  <2>. QED
    BY <2>4, <2>5, <2>6, <2>7, <2>8, <2>10, OutcomeTaken DEF Outcome
<1>26. ASSUME NEW e \in Execution, NEW a \in Actor, FinalizeRecovery(e, a)
      PROVE  Outcomes' /\ Lasting
  <2>1. /\ UNCHANGED <<pid, worker, mode, todo, co, cpc, thread>>
        /\ Up /\ fz[e][a] = "unstopped" /\ loop \in {Idle, <<e, a>>}
        /\ loop' = <<e, a>> /\ fz' = [fz EXCEPT ![e][a] = "idle"]
        /\ a = "execute" => ~co[e].interrupted
    BY <1>26 DEF FinalizeRecovery, FinalizeRuns, Runs, LoopFree, Outcome,
       Interrupting
  <2>2. /\ rt'[e].final /\ rt'[e].cleanup = "none"
        /\ UNCHANGED <<rt[e].registered, rt[e].owned, rt[e].blocked>>
        /\ \A f \in Execution \ {e} : rt'[f] = rt[f]
    BY <1>26 DEF FinalizeRecovery, TypeOK, RuntimeType, Runtime
  <2>3. /\ row'[e] = "recovery_required"
        /\ task'[e] = IF task[e] \in TERMINAL_TASK THEN task[e]
                      ELSE "INPUT_REQUIRED"
        /\ events'[e] \in {events[e], IF events[e] \in TERMINAL_TASK
                                      THEN events[e] ELSE "INPUT_REQUIRED"}
        /\ \A f \in Execution \ {e} : UNCHANGED <<row[f], task[f], events[f]>>
    BY <1>26 DEF FinalizeRecovery, TypeOK, StoredType, ProcessType, Persisted,
       Emitted
  <2>4. /\ Unsettled(e) \/ Errored(e)
        /\ co[e].at \notin {"none", "queued"}
    BY <2>1, FinalizeAlone
  <2>5. Told(e)' /\ RowKept(e)
    <3>1. CASE Unsettled(e)
      BY <2>1, <2>3, <2>4, <3>1 DEF Told, Unsettled, TERMINAL_TASK, RowKept,
         TERMINAL_EXECUTION
    <3>2. CASE Errored(e)
      <4>1. ~pid[e]
        BY <2>1, <3>2 DEF Errored, Gone
      <4>. QED
        BY <2>1, <2>3, <2>4, <3>2, <4>1 DEF Told, Errored, Failed, Agrees,
           TERMINAL_TASK, RowKept
    <3>. QED
      BY <2>4, <3>1, <3>2
  <2>. QED
    BY <2>1, <2>2, <2>3, <2>5, FinalizeEnds
<1>27. ASSUME NEW e \in Execution, NEW a \in Actor, FinalizeSettle(e, a)
      PROVE  Outcomes' /\ Lasting
  <2>1. /\ UNCHANGED <<pid, worker, mode, todo, co, cpc, thread>>
        /\ Up /\ fz[e][a] = "stopped" /\ loop \in {Idle, <<e, a>>}
        /\ a = "execute" => ~co[e].interrupted
    BY <1>27 DEF FinalizeSettle, FinalizeRuns, Runs, LoopFree, Outcome,
       Interrupting
  <2>2. /\ row'[e] = Kind(e, a)
        /\ task'[e] = IF task[e] \in TERMINAL_TASK THEN task[e]
                      ELSE TaskStateOf(Kind(e, a))
        /\ events'[e] = IF a = "shutdown" \/ events[e] \in TERMINAL_TASK
                        THEN events[e] ELSE TaskStateOf(Kind(e, a))
        /\ \A f \in Execution \ {e} : UNCHANGED <<row[f], task[f], events[f]>>
    BY <1>27 DEF FinalizeSettle, TypeOK, StoredType, ProcessType, Persisted,
       Emitted
  <2>3. /\ Open(e) /\ ~Releasing(e) /\ (Unsettled(e) \/ Errored(e))
        /\ rt[e].blocked /\ rt[e].cleanup = a
        /\ \A b \in Actor \ {a} : fz[e][b] \in {"idle", "enter"}
        /\ co[e].at \notin {"none", "queued"} /\ cpc[e] = "idle"
    BY <2>1, FinalizeAlone
  <2>4. /\ Kind(e, a) \in {"failed", "canceled"}
        /\ TaskStateOf(Kind(e, a)) =
             IF Kind(e, a) = "failed" THEN "FAILED" ELSE "CANCELED"
        /\ a = "shutdown" => Kind(e, a) = "failed"
    BY DEF Kind, TaskStateOf
  <2>5. Errored(e) => Kind(e, a) = "failed"
    BY <2>1 DEF Errored, Kind, Outcome, Cleaning
  <2>6. /\ Told(e)' /\ RowKept(e)
        /\ task'[e] \in TERMINAL_TASK
        /\ events'[e] \in TERMINAL_TASK \cup {"none"}
        /\ a = "shutdown" => Failed(e)'
    <3>1. CASE Unsettled(e)
      BY <2>1, <2>2, <2>3, <2>4, <3>1 DEF Told, Unsettled, TERMINAL_TASK,
         RowKept, Agrees, Failed, TERMINAL_EXECUTION
    <3>2. CASE Errored(e)
      BY <2>1, <2>2, <2>3, <2>4, <2>5, <3>2 DEF Told, Errored, Failed, Agrees,
         TERMINAL_TASK, RowKept
    <3>. QED
      BY <2>3, <3>1, <3>2
  <2>7. CASE rt[e].locked
    <3>1. /\ fz'[e][a] = "release" /\ loop' = Idle /\ UNCHANGED rt
          /\ \A b \in Actor \ {a} : fz'[e][b] = fz[e][b]
          /\ \A f \in Execution \ {e} : fz'[f] = fz[f]
      BY <1>27, <2>7, FinalizeMoved DEF FinalizeSettle, TypeOK
    <3>2. Alone(e)
      BY <2>1, <2>2, <3>1, ServerAssumption DEF Alone, Untouched, Idle
    <3>3. Awaited(e)' /\ Probing(e)'
      BY <2>1, <2>3, <3>1 DEF Outcome, Awaited, Probing, Launching
    <3>9. Closing(e)'
      BY <2>1, <2>3, <3>1 DEF Outcome, Closing, Launching, Up, Actor
    <3>4. Interrupting(e)'
      BY <2>1, <3>1 DEF Outcome, Interrupting, Idle, Actor
    <3>5. Cleaning(e)'
      BY <2>1, <2>3, <2>6, <3>1 DEF Outcome, Cleaning, Actor
    <3>6. Releasing(e)'
      BY <3>1 DEF Releasing
    <3>7. Raising(e)' => Failed(e)' /\ Gone(e)' /\ ~Launching(e)'
                         /\ fz'[e]["cancel"] = "idle"
      <4>. SUFFICES ASSUME Raising(e)'
                    PROVE  /\ Failed(e)' /\ Gone(e)' /\ ~Launching(e)'
                           /\ fz'[e]["cancel"] = "idle"
        OBVIOUS
      <4>1. Raising(e)
        BY <2>1, <2>3 DEF Raising
      <4>2. Gone(e) /\ ~Launching(e) /\ fz[e]["cancel"] = "idle"
        BY <4>1 DEF Outcome, Settling
      <4>3. a = "shutdown"
        BY <2>1, <4>1, <4>2 DEF Outcome, Cleaning, Raising, Actor
      <4>. QED
        BY <2>1, <2>6, <3>1, <4>2, <4>3 DEF Gone, Launching, Actor
    <3>8. Settling(e)'
      BY <3>6, <3>7 DEF Settling
    <3>. QED
      BY <2>6, <3>2, <3>3, <3>4, <3>5, <3>8, <3>9, OutcomeTaken DEF Outcome
  <2>8. CASE ~rt[e].locked
    <3>1. fz' = [fz EXCEPT ![e][a] = "idle"] /\ loop' = <<e, a>>
      BY <1>27, <2>8 DEF FinalizeSettle
    <3>2. /\ rt'[e].final /\ rt'[e].cleanup = "none"
          /\ UNCHANGED <<rt[e].registered, rt[e].owned, rt[e].blocked>>
          /\ \A f \in Execution \ {e} : rt'[f] = rt[f]
      BY <1>27, <2>8 DEF FinalizeSettle, TypeOK, RuntimeType, Runtime
    <3>. QED
      BY <2>1, <2>2, <2>6, <3>1, <3>2, FinalizeEnds
  <2>. QED
    BY <2>7, <2>8
<1>28. ASSUME NEW e \in Execution, NEW a \in Actor, FinalizeRelease(e, a)
      PROVE  Outcomes' /\ Lasting
  <2>1. /\ UNCHANGED <<row, pid, task, worker, mode, todo, co, cpc, thread>>
        /\ UNCHANGED events
        /\ Up /\ fz[e][a] = "releasing" /\ loop \in {Idle, <<e, a>>}
        /\ loop' = <<e, a>> /\ fz' = [fz EXCEPT ![e][a] = "idle"]
        /\ a = "execute" => ~co[e].interrupted
    BY <1>28 DEF FinalizeRelease, stored, FinalizeRuns, Runs, LoopFree, Outcome,
       Interrupting
  <2>2. /\ rt'[e].final /\ rt'[e].cleanup = "none"
        /\ UNCHANGED <<rt[e].registered, rt[e].owned, rt[e].blocked>>
        /\ \A f \in Execution \ {e} : rt'[f] = rt[f]
    BY <1>28 DEF FinalizeRelease, TypeOK, RuntimeType, Runtime
  <2>3. Told(e)' /\ RowKept(e)
    BY <2>1 DEF Outcome, Told, RowKept, Up
  <2>. QED
    BY <2>1, <2>2, <2>3, FinalizeEnds
<1>29. ASSUME NEW e \in Execution, NEW a \in Actor, FinalizeRaises(e, a)
      PROVE  Outcomes' /\ Lasting
  <2>1. UNCHANGED <<row, pid, task, worker>>
    BY <1>29 DEF FinalizeRaises, stored
  <2>2. /\ Up /\ loop \in {Idle, <<e, a>>}
        /\ a = "execute" => ~co[e].interrupted
    BY <1>29 DEF FinalizeRaises, FinalizeRuns, Runs, LoopFree, Outcome,
       Interrupting
  <2>3. fz[e][a] = "stopped"
    BY <1>29, <2>2 DEF FinalizeRaises, LocksThere
  <2>4. CASE Volatile
    <3>1. \A f \in Execution :
            /\ row[f] = "none" => task[f] = "none"
            /\ task[f] \in TERMINAL_TASK => Agrees(row[f], task[f])
      BY <2>2 DEF Outcome, Told
    <3>. QED
      BY <2>1, <2>4, <3>1, OutcomesDied DEF Lasting, RowKept
  <2>5. CASE ~Volatile
    <3>1. /\ a # "shutdown" /\ UNCHANGED <<mode, todo, cpc, thread, events>>
          /\ fz' = [fz EXCEPT ![e][a] = "idle"]
          /\ rt' = [rt EXCEPT ![e].cleanup = "none"]
          /\ \/ a = "cancel" /\ loop' = <<e, a>> /\ UNCHANGED co
             \/ /\ a = "execute" /\ co[e].at = "deadline"
                /\ loop' = <<e, a>> /\ Leave(e, "finally", "raise")
             \/ /\ a = "execute" /\ co[e].at = "handler"
                /\ loop' = <<e, a>> /\ Goto(e, "outer")
             \/ /\ a = "execute" /\ co[e].at = "outer_stop"
                /\ loop' = Idle /\ Goto(e, "done")
      BY <1>29, <2>5 DEF FinalizeRaises
    <3>2. /\ fz'[e][a] = "idle"
          /\ \A b \in Actor \ {a} : fz'[e][b] = fz[e][b]
          /\ \A f \in Execution \ {e} : fz'[f] = fz[f]
      BY <3>1, FinalizeMoved DEF TypeOK
    <3>3. /\ rt'[e].cleanup = "none"
          /\ UNCHANGED <<rt[e].registered, rt[e].owned, rt[e].blocked>>
          /\ UNCHANGED <<rt[e].closing, rt[e].final>>
          /\ \A f \in Execution \ {e} : rt'[f] = rt[f]
      BY <3>1 DEF TypeOK, RuntimeType, Runtime
    <3>4. /\ UNCHANGED <<co[e].rel, co[e].interrupted>>
          /\ \/ a = "cancel" /\ loop' = <<e, a>> /\ UNCHANGED co[e]
             \/ /\ a = "execute" /\ co[e].at = "deadline"
                /\ loop' = <<e, a>>
                /\ co'[e].at = "finally" /\ co'[e].exit = "raise"
             \/ /\ a = "execute" /\ co[e].at = "handler"
                /\ loop' = <<e, a>> /\ co'[e].at = "outer"
                /\ co'[e].exit = co[e].exit
             \/ /\ a = "execute" /\ co[e].at = "outer_stop"
                /\ loop' = Idle /\ co'[e].at = "done"
                /\ co'[e].exit = co[e].exit
          /\ \A f \in Execution \ {e} : co'[f] = co[f]
      BY <3>1 DEF Leave, Goto, TypeOK, CoroutineType, Coroutine
    <3>5. /\ Open(e) /\ ~Releasing(e) /\ (Unsettled(e) \/ Errored(e))
          /\ rt[e].blocked /\ rt[e].cleanup = a
          /\ \A b \in Actor \ {a} : fz[e][b] \in {"idle", "enter"}
          /\ co[e].at \notin {"none", "queued"} /\ cpc[e] = "idle"
      BY <2>2, <2>3, FinalizeAlone
    <3>6. Alone(e) /\ RowKept(e)
      BY <2>1, <2>2, <3>1, <3>2, <3>3, <3>4, ServerAssumption
      DEF Alone, Untouched, Idle, RowKept
    <3>7. Told(e)' /\ Probing(e)' /\ Closing(e)'
      BY <2>1, <3>1, <3>2, <3>3, <3>4, <3>5 DEF Outcome, Told, Probing, Closing,
         Launching, Up
    <3>8. Awaited(e)'
      BY <2>1, <3>1, <3>3, <3>4, <3>5 DEF Outcome, Awaited, Launching
    <3>9. Interrupting(e)'
      BY <2>2, <3>2, <3>4, ServerAssumption
      DEF Outcome, Interrupting, Idle, Actor
    <3>10. Cleaning(e)'
      BY <2>1, <3>1, <3>2, <3>3, <3>4, <3>5
      DEF Outcome, Cleaning, Failed, Actor
    <3>11. /\ Unsettled(e)' <=> Unsettled(e)
           /\ Gone(e) => Gone(e)'
           /\ Launching(e)' <=> Launching(e)
      BY <2>1, <3>1, <3>2 DEF Unsettled, Gone, Launching
    <3>12. Errored(e) => Errored(e)'
      BY <2>1, <2>3, <3>1, <3>2, <3>4, <3>11
      DEF Errored, Failed, Actor, Outcome,
         Cleaning
    <3>13. Raising(e)' => /\ Unsettled(e)' /\ Gone(e)' /\ ~Launching(e)'
                          /\ fz'[e]["cancel"] = "idle"
      <4>. SUFFICES ASSUME Raising(e)'
                    PROVE  /\ Unsettled(e)' /\ Gone(e)' /\ ~Launching(e)'
                           /\ fz'[e]["cancel"] = "idle"
        OBVIOUS
      <4>1. ~(a = "cancel")
        BY <2>3, <3>4, <3>5 DEF Raising, Outcome, Settling
      <4>2. a = "execute" /\ co[e].at = "deadline"
        BY <3>4, <4>1 DEF Raising
      <4>3. Unsettled(e)
        BY <3>5, <4>2 DEF Errored
      <4>4. thread[e] = "returned" /\ rt[e].owned /\ worker[e] # "live"
        BY <2>3, <4>2 DEF Outcome, Awaited, Good, Stopping
      <4>5. worker[e] = "dead"
        BY <4>4 DEF Outcome, Awaited
      <4>6. fz[e]["cancel"] = "idle"
        BY <2>2, <4>2 DEF Outcome, Interrupting
      <4>7. \A b \in Actor : fz'[e][b] # "unstopped"
        BY <3>2, <3>5
      <4>. QED
        BY <2>1, <3>1, <3>2, <3>11, <4>2, <4>3, <4>4, <4>5, <4>6, <4>7
        DEF Gone, Launching, Actor
    <3>14. Settling(e)'
      BY <3>5, <3>11, <3>12, <3>13 DEF Settling
    <3>. QED
      BY <3>6, <3>7, <3>8, <3>9, <3>10, <3>14, OutcomeTaken DEF Outcome
  <2>. QED
    BY <2>4, <2>5
<1>30. ASSUME NEW e \in Execution, Cancel(e)
      PROVE  Outcomes' /\ Lasting
  <2>1. /\ UNCHANGED <<pid, worker, mode, todo, rt, thread>>
        /\ mode = "serving" /\ loop = Idle /\ Up
        /\ task[e] \in {"SUBMITTED", "INPUT_REQUIRED"}
        /\ fz[e]["cancel"] = "idle" /\ cpc[e] = "idle"
    BY <1>30 DEF Cancel, Cancels, LoopFree, Up, stored
  <2>2. /\ co'[e].at = IF co[e].at = "queued" THEN "done" ELSE co[e].at
        /\ UNCHANGED <<co[e].exit, co[e].rel>>
        /\ co'[e].interrupted = IF co[e].at \in {"none", "queued", "done"}
                                THEN co[e].interrupted ELSE TRUE
        /\ \A f \in Execution \ {e} : co'[f] = co[f]
    BY <1>30 DEF Cancel, Disturbed, TypeOK, CoroutineType, Coroutine
  <2>3. fz[e]["shutdown"] = "idle"
    BY <2>1 DEF Outcome, Closing
  <2>4. Launching(e) /\ ~rt[e].blocked =>
          /\ co[e].at = "spawning" /\ rt[e].registered /\ ~rt[e].final
          /\ Open(e) /\ Unsettled(e) /\ rt[e].cleanup = "none"
    <3>. SUFFICES ASSUME Launching(e), ~rt[e].blocked
                  PROVE  /\ co[e].at = "spawning" /\ rt[e].registered
                         /\ ~rt[e].final /\ Open(e) /\ Unsettled(e)
                         /\ rt[e].cleanup = "none"
      OBVIOUS
    <3>1. co[e].at = "spawning" /\ rt[e].registered /\ ~rt[e].final
      BY <2>1 DEF Outcome, Awaited
    <3>2. Open(e) /\ ~Errored(e)
      BY <2>1, <3>1 DEF Open, Errored
    <3>3. \A a \in Actor : fz[e][a] = "idle"
      BY <2>1, <2>3, <3>1 DEF Outcome, Cleaning, Actor
    <3>4. Unsettled(e)
      BY <3>2, <3>3 DEF Outcome, Settling, Releasing
    <3>5. rt[e].cleanup \in Actor \cup {"none"}
      BY DEF TypeOK, RuntimeType, Runtime
    <3>. QED
      BY <3>1, <3>2, <3>3, <3>4, <3>5 DEF Outcome, Cleaning
  <2>5. ~Raising(e)'
    BY <2>2 DEF Raising
  <2>6. co[e].at = "queued" =>
          /\ row[e] = "running" /\ ~pid[e] /\ ~co[e].interrupted
          /\ co[e].rel = "idle" /\ ~rt[e].registered
    BY DEF Good, Scheduled
  <2>7. CASE /\ row[e] \in TERMINAL_EXECUTION
             /\ UNCHANGED <<row, task, events, fz, cpc, loop>>
    <3>1. co[e].at # "queued" /\ ~(Launching(e) /\ ~rt[e].blocked)
      BY <2>4, <2>6, <2>7 DEF Unsettled, TERMINAL_EXECUTION
    <3>2. Alone(e) /\ RowKept(e)
      BY <2>1, <2>2, <2>7 DEF Alone, Untouched, RowKept
    <3>3. Told(e)' /\ Probing(e)' /\ Closing(e)'
      BY <2>1, <2>2, <2>7, <3>1
      DEF Outcome, Told, Probing, Closing, Launching, Up
    <3>4. Awaited(e)'
      BY <2>1, <2>2, <2>7, <3>1 DEF Outcome, Awaited, Launching
    <3>5. Interrupting(e)'
      BY <2>1, <2>2, <2>7, <3>1 DEF Outcome, Interrupting, Idle
    <3>6. Cleaning(e)'
      BY <2>1, <2>2, <2>3, <2>7, <3>1
      DEF Outcome, Cleaning, Failed, TERMINAL_TASK, Actor
    <3>7. Settling(e)'
      BY <2>1, <2>2, <2>5, <2>7, <3>1 DEF Outcome, Settling, Open, Up,
         Unsettled, Failed, Gone, Errored, Releasing, Launching
    <3>. QED
      BY <3>2, <3>3, <3>4, <3>5, <3>6, <3>7, OutcomeTaken DEF Outcome
  <2>8. CASE /\ row[e] \notin TERMINAL_EXECUTION /\ rt[e].registered
             /\ fz' = [fz EXCEPT ![e]["cancel"] = "enter"]
             /\ loop' = <<e, "cancel">>
             /\ UNCHANGED <<row, task, events, cpc>>
    <3>1. /\ fz'[e]["cancel"] = "enter"
          /\ UNCHANGED <<fz[e]["execute"], fz[e]["shutdown"]>>
          /\ \A f \in Execution \ {e} : fz'[f] = fz[f]
      <4>1. /\ fz'[e]["cancel"] = "enter"
            /\ \A b \in Actor \ {"cancel"} : fz'[e][b] = fz[e][b]
            /\ \A f \in Execution \ {e} : fz'[f] = fz[f]
        BY <2>8, FinalizeMoved DEF TypeOK, Actor
      <4>. QED
        BY <4>1 DEF Actor
    <3>2. co[e].at \notin {"none", "queued"}
      BY <2>8 DEF Good, Scheduled
    <3>3. Alone(e) /\ RowKept(e)
      BY <2>1, <2>2, <2>8, <3>1, ServerAssumption
      DEF Alone, Untouched, RowKept, Idle
    <3>4. Told(e)' /\ Probing(e)' /\ Closing(e)'
      BY <2>1, <2>2, <2>8, <3>1, <3>2
      DEF Outcome, Told, Probing, Closing, Launching, Up
    <3>5. Awaited(e)'
      BY <2>1, <2>2, <2>4, <2>8, <3>1, <3>2 DEF Outcome, Awaited, Launching
    <3>6. Interrupting(e)'
      BY <2>1, <2>2, <2>8, <3>1, <3>2 DEF Outcome, Interrupting
    <3>7. Cleaning(e)'
      BY <2>1, <2>2, <2>3, <2>8, <3>1, <3>2
      DEF Outcome, Cleaning, Failed, TERMINAL_TASK, Actor
    <3>8. Open(e)' => Unsettled(e)' \/ Releasing(e)'
      BY <2>1, <2>8, <3>1 DEF Outcome, Settling, Open, Up, Unsettled, Errored,
         Failed, Releasing, Actor, TERMINAL_EXECUTION
    <3>. QED
      BY <2>5, <3>3, <3>4, <3>5, <3>6, <3>7, <3>8, OutcomeTaken
      DEF Outcome, Settling
  <2>9. ASSUME row[e] \notin TERMINAL_EXECUTION, ~rt[e].registered
        PROVE  /\ co'[e].at \in {"none", "done"}
               /\ \A a \in Actor : fz[e][a] = "idle"
               /\ row[e] \in NONTERMINAL
               /\ ~(Launching(e) /\ ~rt[e].blocked)
               /\ events[e] \in TERMINAL_TASK => events[e] = "FAILED" /\ ~pid[e]
    <3>1. co[e].at \in {"none", "queued", "done"}
      BY <2>9 DEF Outcome, Awaited
    <3>2. row[e] \in NONTERMINAL
      BY <2>1, <2>9 DEF Outcome, Told, TypeOK, StoredType, Status, NONTERMINAL,
         TERMINAL_EXECUTION
    <3>3. fz[e]["execute"] = "idle"
      BY <3>1 DEF Outcome, Cleaning
    <3>. QED
      BY <2>1, <2>2, <2>3, <2>4, <2>9, <3>1, <3>2, <3>3
      DEF Outcome, Told, Agrees, NONTERMINAL, Actor
  <2>10. CASE /\ CancelFails(e) /\ task' = Persisted(e, "FAILED")
              /\ row' = [row EXCEPT ![e] = "failed"]
              /\ events' = Emitted(e, "CANCELED")
              /\ UNCHANGED <<fz, cpc, loop>>
    <3>1. /\ row'[e] = "failed" /\ task'[e] = "FAILED"
          /\ events'[e] = IF events[e] \in TERMINAL_TASK THEN events[e]
                          ELSE "CANCELED"
          /\ \A f \in Execution \ {e} : UNCHANGED <<row[f], task[f], events[f]>>
      BY <2>1, <2>10 DEF Persisted, Emitted, TypeOK, StoredType, ProcessType,
         TERMINAL_TASK
    <3>2. /\ row[e] \notin TERMINAL_EXECUTION /\ ~rt[e].registered
          /\ co'[e].at \in {"none", "done"}
          /\ \A a \in Actor : fz[e][a] = "idle"
          /\ ~(Launching(e) /\ ~rt[e].blocked)
          /\ events[e] \in TERMINAL_TASK => events[e] = "FAILED"
      BY <2>9, <2>10 DEF CancelFails
    <3>3. Alone(e) /\ RowKept(e)
      BY <2>1, <2>2, <2>10, <3>1, <3>2 DEF Alone, Untouched, RowKept
    <3>4. Told(e)'
      BY <2>1, <3>1, <3>2 DEF Told, Agrees
    <3>5. Probing(e)' /\ Closing(e)'
      BY <2>1, <2>10, <3>2 DEF Outcome, Probing, Closing
    <3>6. Awaited(e)'
      BY <2>1, <2>2, <2>6, <2>10, <3>2 DEF Outcome, Awaited, Launching
    <3>7. Interrupting(e)'
      BY <2>1, <2>2, <2>6, <2>10, <3>2 DEF Outcome, Interrupting, Idle, Actor
    <3>8. Cleaning(e)'
      BY <2>1, <2>10, <3>2 DEF Outcome, Cleaning, Actor
    <3>9. Settling(e)'
      BY <2>1, <2>10, <3>2 DEF Settling, Open, Raising
    <3>. QED
      BY <3>3, <3>4, <3>5, <3>6, <3>7, <3>8, <3>9, OutcomeTaken DEF Outcome
  <2>11. CASE /\ row[e] \notin TERMINAL_EXECUTION /\ ~rt[e].registered
              /\ pid[e] /\ cpc' = [cpc EXCEPT ![e] = "stop"]
              /\ UNCHANGED <<row, task, events, fz, loop>>
    <3>1. /\ co'[e].at \in {"none", "done"}
          /\ \A a \in Actor : fz[e][a] = "idle"
          /\ row[e] \in NONTERMINAL
          /\ ~(Launching(e) /\ ~rt[e].blocked)
          /\ events[e] \notin TERMINAL_TASK
      BY <2>9, <2>11
    <3>2. cpc'[e] = "stop" /\ \A f \in Execution \ {e} : cpc'[f] = cpc[f]
      BY <2>11 DEF TypeOK, ProcessType
    <3>3. Alone(e) /\ RowKept(e)
      BY <2>1, <2>2, <2>11, <3>2 DEF Alone, Untouched, RowKept
    <3>4. Told(e)'
      BY <2>1, <2>11, <3>1 DEF Outcome, Told, Up
    <3>5. Probing(e)' /\ Closing(e)'
      BY <2>1, <2>11, <3>1, <3>2
      DEF Outcome, Probing, Closing, TERMINAL_TASK
    <3>6. Awaited(e)'
      BY <2>1, <2>2, <2>6, <2>11, <3>1 DEF Outcome, Awaited, Launching
    <3>7. Interrupting(e)'
      BY <2>1, <2>2, <2>6, <2>11, <3>1 DEF Outcome, Interrupting, Idle, Actor
    <3>8. Cleaning(e)'
      BY <2>1, <2>11, <3>1 DEF Outcome, Cleaning, Actor
    <3>9. Settling(e)'
      BY <2>1, <2>11, <3>1 DEF Settling, Open, Raising
    <3>. QED
      BY <3>3, <3>4, <3>5, <3>6, <3>7, <3>8, <3>9, OutcomeTaken DEF Outcome
  <2>. QED
    BY <1>30, <2>7, <2>8, <2>10, <2>11 DEF Cancel, stored
<1>31. ASSUME NEW e \in Execution, CancelStop(e)
      PROVE  Outcomes' /\ Lasting
  <2>1. /\ UNCHANGED <<row, pid, task, mode, todo, loop, rt, co, fz, thread>>
        /\ UNCHANGED events
    BY <1>31 DEF CancelStop, stored
  <2>2. /\ cpc[e] # "idle" /\ worker'[e] \in {worker[e], "dead"}
        /\ \A f \in Execution \ {e} : UNCHANGED <<cpc[f], worker[f]>>
    BY <1>31 DEF CancelStop, TypeOK, ProcessType
  <2>3. Alone(e) /\ RowKept(e)
    BY <2>1, <2>2 DEF Alone, Untouched, RowKept
  <2>4. Told(e)' /\ Probing(e)' /\ Closing(e)'
    BY <2>1, <2>2 DEF Outcome, Told, Probing, Closing, Launching, Up
  <2>5. Awaited(e)' /\ Interrupting(e)' /\ Cleaning(e)'
    BY <2>1, <2>2 DEF Outcome, Awaited, Interrupting, Cleaning, Launching,
       Failed
  <2>6. Settling(e)'
    BY <2>1, <2>2 DEF Outcome, Settling, Open, Raising, Up, Unsettled, Failed,
       Gone, Errored, Releasing, Launching
  <2>. QED
    BY <2>3, <2>4, <2>5, <2>6, OutcomeTaken DEF Outcome
<1>32. ASSUME NEW e \in Execution, CancelAnswer(e)
      PROVE  Outcomes' /\ Lasting
  <2>1. /\ UNCHANGED <<pid, worker, mode, todo, loop, rt, co, fz, thread>>
        /\ cpc[e] # "idle"
    BY <1>32 DEF CancelAnswer
  <2>2. /\ mode = "serving" /\ co[e].at \in {"none", "done"}
        /\ ~rt[e].registered /\ \A a \in Actor : fz[e][a] = "idle"
        /\ row[e] \in NONTERMINAL
        /\ task[e] \notin TERMINAL_TASK /\ events[e] \notin TERMINAL_TASK
    BY <2>1 DEF Outcome, Probing
  <2>3. /\ \/ /\ row'[e] = "canceled" /\ events'[e] = "CANCELED"
              /\ task'[e] = task[e]
           \/ /\ row'[e] = "recovery_required"
              /\ events'[e] = "INPUT_REQUIRED" /\ task'[e] = "INPUT_REQUIRED"
        /\ cpc'[e] = "idle"
        /\ \A f \in Execution \ {e} :
             UNCHANGED <<row[f], task[f], events[f], cpc[f]>>
    BY <1>32, <2>2 DEF CancelAnswer, Persisted, Emitted, TypeOK, StoredType,
       ProcessType
  <2>4. Alone(e) /\ RowKept(e)
    BY <2>1, <2>2, <2>3
    DEF Alone, Untouched, RowKept, NONTERMINAL, TERMINAL_EXECUTION
  <2>5. Told(e)'
    BY <2>1, <2>2, <2>3 DEF Told, Agrees, TERMINAL_TASK
  <2>6. Probing(e)' /\ Closing(e)'
    BY <2>1, <2>2, <2>3 DEF Outcome, Probing, Closing
  <2>7. Awaited(e)' /\ Interrupting(e)'
    BY <2>1 DEF Outcome, Awaited, Interrupting, Launching
  <2>8. Cleaning(e)'
    BY <2>1, <2>2 DEF Outcome, Cleaning, Actor
  <2>9. Settling(e)'
    BY <2>1, <2>2 DEF Settling, Open, Raising
  <2>. QED
    BY <2>4, <2>5, <2>6, <2>7, <2>8, <2>9, OutcomeTaken DEF Outcome
<1>33. ASSUME NEW e \in Execution, CancelReturns(e)
      PROVE  Outcomes' /\ Lasting
  <2>1. /\ UNCHANGED <<row, pid, task, worker, mode, todo, rt, co, fz, cpc>>
        /\ UNCHANGED <<thread, events>>
        /\ loop = <<e, "cancel">> /\ loop' = Idle /\ fz[e]["cancel"] = "idle"
    BY <1>33 DEF CancelReturns, Runs, stored, coroutines
  <2>2. Alone(e) /\ RowKept(e)
    BY <2>1, ServerAssumption DEF Alone, Untouched, RowKept, Idle
  <2>3. Told(e)' /\ Probing(e)' /\ Closing(e)'
    BY <2>1 DEF Outcome, Told, Probing, Closing, Launching, Up
  <2>4. Awaited(e)' /\ Interrupting(e)' /\ Cleaning(e)'
    BY <2>1 DEF Outcome, Awaited, Interrupting, Cleaning, Launching, Failed,
       Idle
  <2>5. Settling(e)'
    BY <2>1 DEF Outcome, Settling, Open, Raising, Up, Unsettled, Failed, Gone,
       Errored, Releasing, Launching
  <2>. QED
    BY <2>2, <2>3, <2>4, <2>5, OutcomeTaken DEF Outcome
<1>34. CASE Shutdown
  <2>1. /\ UNCHANGED <<row, pid, task, worker, rt, co, fz, cpc, thread, events>>
        /\ mode = "serving" /\ mode' = "closing"
        /\ loop' = <<NoExecution, "shutdown">>
        /\ todo' = {e \in Execution : rt[e].registered}
    BY <1>34 DEF Shutdown, stored, coroutines
  <2>2. ASSUME NEW e \in Execution PROVE Outcome(e)'
    <3>1. fz[e]["cancel"] = "idle" /\ cpc[e] = "idle"
      BY <1>34 DEF Shutdown
    <3>2. Told(e)' /\ Probing(e)' /\ Closing(e)'
      BY <2>1, <3>1 DEF Outcome, Told, Probing, Closing, Up
    <3>3. Awaited(e)' /\ Interrupting(e)' /\ Cleaning(e)'
      BY <2>1, <3>1 DEF Outcome, Awaited, Interrupting, Cleaning, Launching,
         Failed
    <3>4. Settling(e)'
      BY <2>1 DEF Outcome, Settling, Open, Raising, Up, Unsettled, Failed, Gone,
         Errored, Releasing, Launching
    <3>. QED
      BY <3>2, <3>3, <3>4 DEF Outcome
  <2>. QED
    BY <2>1, <2>2 DEF Outcomes, Lasting, RowKept
<1>35. ASSUME NEW e \in Execution, ShutdownFinalize(e)
      PROVE  Outcomes' /\ Lasting
  <2>1. /\ UNCHANGED <<row, pid, task, worker, mode, rt, co, cpc, thread>>
        /\ UNCHANGED events
        /\ mode = "closing" /\ e \in todo /\ todo' = todo \ {e}
        /\ loop[2] = "shutdown" /\ loop' = <<e, "shutdown">>
        /\ fz[e]["shutdown"] = "idle"
    BY <1>35 DEF ShutdownFinalize, InShutdown, stored
  <2>2. /\ fz'[e]["shutdown"] = "enter"
        /\ \A b \in Actor \ {"shutdown"} : fz'[e][b] = fz[e][b]
        /\ \A f \in Execution \ {e} : fz'[f] = fz[f]
    BY <1>35, FinalizeMoved DEF ShutdownFinalize, TypeOK, Actor
  <2>3. co[e].at \notin {"none", "queued"} /\ cpc[e] = "idle"
    BY <2>1 DEF Good, Scheduled, Outcome, Probing
  <2>4. Alone(e) /\ RowKept(e)
    BY <2>1, <2>2 DEF Alone, Untouched, RowKept
  <2>5. Told(e)' /\ Probing(e)' /\ Closing(e)'
    BY <2>1, <2>2, <2>3 DEF Outcome, Told, Probing, Closing, Launching, Up,
       Actor
  <2>6. Awaited(e)'
    BY <2>1, <2>2, <2>3 DEF Outcome, Awaited, Closing, Launching, Actor
  <2>7. Interrupting(e)' /\ Cleaning(e)'
    BY <2>1, <2>2, <2>3 DEF Outcome, Interrupting, Cleaning, Failed, Actor
  <2>8. Settling(e)'
    BY <2>1, <2>2 DEF Outcome, Settling, Open, Raising, Up, Unsettled, Failed,
       Gone, Errored, Releasing, Launching, Actor
  <2>. QED
    BY <2>4, <2>5, <2>6, <2>7, <2>8, OutcomeTaken DEF Outcome
<1>36. CASE ShutdownReconcile
  <2>1. /\ UNCHANGED <<row, pid, task, worker, loop, rt, co, fz, cpc, thread>>
        /\ UNCHANGED events
        /\ mode = "closing" /\ mode' = "reconciling"
        /\ todo = {} /\ todo' = Nonterminal
        /\ \A e \in Execution : fz[e]["shutdown"] = "idle"
    BY <1>36 DEF ShutdownReconcile, InShutdown, stored, coroutines
  <2>2. ASSUME NEW e \in Execution PROVE Outcome(e)'
    <3>1. fz[e]["cancel"] = "idle" /\ cpc[e] = "idle"
      BY <2>1 DEF Outcome, Probing, Closing
    <3>2. Launching(e) => rt[e].blocked
      BY <2>1, <3>1 DEF Outcome, Awaited, Closing
    <3>3. Told(e)' /\ Probing(e)'
      BY <2>1, <3>1 DEF Outcome, Told, Probing, Up
    <3>4. Closing(e)'
      BY <2>1, <3>1, <3>2 DEF Closing, Nonterminal, Launching
    <3>5. Awaited(e)' /\ Interrupting(e)' /\ Cleaning(e)'
      BY <2>1, <3>1 DEF Outcome, Awaited, Interrupting, Cleaning, Launching,
         Failed
    <3>6. Settling(e)'
      BY <2>1 DEF Settling, Open, Raising, Up
    <3>. QED
      BY <3>3, <3>4, <3>5, <3>6 DEF Outcome
  <2>. QED
    BY <2>1, <2>2 DEF Outcomes, Lasting, RowKept
<1>37. CASE Restart
  <2>1. /\ UNCHANGED <<row, pid, task, worker, loop, rt, co, fz, cpc, thread>>
        /\ UNCHANGED events
        /\ mode = "down" /\ mode' = "starting" /\ todo' = Nonterminal
    BY <1>37 DEF Restart, stored, coroutines
  <2>2. ASSUME NEW e \in Execution PROVE Outcome(e)'
    <3>1. fz[e]["cancel"] = "idle" /\ cpc[e] = "idle" /\ co[e].at = "none"
      BY <2>1 DEF Outcome, Probing, Closing
    <3>2. Told(e)' /\ Probing(e)'
      BY <2>1, <3>1 DEF Outcome, Told, Probing, Up
    <3>3. Closing(e)'
      BY <2>1, <3>1 DEF Outcome, Closing, Nonterminal, NONTERMINAL
    <3>4. Awaited(e)' /\ Interrupting(e)' /\ Cleaning(e)'
      BY <2>1, <3>1 DEF Outcome, Awaited, Interrupting, Cleaning, Launching,
         Failed
    <3>5. Settling(e)'
      BY <2>1 DEF Settling, Open, Raising, Up
    <3>. QED
      BY <3>2, <3>3, <3>4, <3>5 DEF Outcome
  <2>. QED
    BY <2>1, <2>2 DEF Outcomes, Lasting, RowKept
<1>38. ASSUME NEW e \in Execution,
              ReconcileFailed(e) \/ ReconcileRecovery(e) \/ ReconcileRaises(e)
      PROVE  Outcomes' /\ Lasting
  <2>1. /\ UNCHANGED <<pid, mode, loop, rt, co, fz, cpc, thread, events>>
        /\ mode \in {"starting", "reconciling"} /\ e \in todo
        /\ todo' = todo \ {e}
    BY <1>38 DEF ReconcileFailed, ReconcileRecovery, ReconcileRaises,
       Reconciles, coroutines
  <2>2. /\ row[e] \in NONTERMINAL /\ ~Up /\ cpc[e] = "idle"
        /\ task[e] \in TERMINAL_TASK => task[e] = "FAILED"
        /\ events[e] \in TERMINAL_TASK =>
             /\ row[e] = "recovery_required" /\ events[e] = "FAILED"
             /\ ~pid[e]
    BY <2>1 DEF Outcome, Closing, Probing, Told, Agrees, NONTERMINAL, Up
  <2>3. /\ row' \in { [row EXCEPT ![e] = "failed"],
                      [row EXCEPT ![e] = "recovery_required"] }
        /\ task' \in { Persisted(e, "FAILED"), Persisted(e, "INPUT_REQUIRED") }
        /\ row' = [row EXCEPT ![e] = "failed"] => task' = Persisted(e, "FAILED")
        /\ worker' \in { worker, StoppedWorker(e) }
    BY <1>38 DEF ReconcileFailed, ReconcileRecovery, ReconcileRaises, files,
       TypeOK, StoredType
  <2>4. /\ \/ row'[e] = "failed" /\ task'[e] = "FAILED"
           \/ /\ row'[e] = "recovery_required"
              /\ task'[e] \in {"FAILED", "INPUT_REQUIRED"}
        /\ task[e] \in TERMINAL_TASK => task'[e] = "FAILED"
        /\ worker'[e] \in {worker[e], "dead"}
        /\ \A f \in Execution \ {e} :
             UNCHANGED <<row[f], task[f], worker[f]>>
    BY <2>2, <2>3 DEF Persisted, StoppedWorker, TypeOK, StoredType, ProcessType
  <2>5. Alone(e) /\ RowKept(e)
    BY <2>1, <2>2, <2>4
    DEF Alone, Untouched, RowKept, NONTERMINAL, TERMINAL_EXECUTION
  <2>6. Told(e)'
    BY <2>1, <2>2, <2>4 DEF Outcome, Told, Agrees, TERMINAL_TASK
  <2>7. Probing(e)' /\ Closing(e)'
    BY <2>1, <2>2, <2>4 DEF Outcome, Probing, Closing, Launching
  <2>8. Awaited(e)' /\ Interrupting(e)'
    BY <2>1, <2>4 DEF Outcome, Awaited, Interrupting, Launching
  <2>9. Cleaning(e)'
    BY <2>1, <2>2, <2>4 DEF Outcome, Cleaning, Failed, NONTERMINAL, Closing,
       TERMINAL_TASK
  <2>10. Settling(e)'
    BY <2>1, <2>2 DEF Settling, Open, Raising, Up
  <2>. QED
    BY <2>5, <2>6, <2>7, <2>8, <2>9, <2>10, OutcomeTaken DEF Outcome
<1>39. CASE ReconcileDone
  <2>1. UNCHANGED <<row, pid, worker>> /\ task' = Healed /\ todo = {}
    BY <1>39 DEF ReconcileDone
  <2>2. \A e \in Execution :
          /\ task'[e] = IF row[e] \in TERMINAL_EXECUTION
                            /\ task[e] \notin TERMINAL_TASK
                        THEN TaskStateOf(row[e]) ELSE task[e]
          /\ row[e] \in TERMINAL_EXECUTION =>
               Agrees(row[e], TaskStateOf(row[e]))
    BY <2>1 DEF Healed, Agrees, TaskStateOf, TERMINAL_EXECUTION
  <2>3. ASSUME NEW e \in Execution
        PROVE  /\ row[e] = "none" => task'[e] = "none"
               /\ task'[e] \in TERMINAL_TASK =>
                    \/ Agrees(row[e], task'[e])
                    \/ task'[e] = "FAILED" /\ row[e] \in NONTERMINAL
    BY <2>2 DEF Outcome, Told, TERMINAL_EXECUTION
  <2>4. CASE Volatile
    BY <2>1, <2>3, <2>4, OutcomesDied DEF Lasting, RowKept
  <2>5. CASE ~Volatile
    <3>1. /\ mode = "starting" /\ mode' = "serving"
          /\ UNCHANGED <<todo, loop, rt, co, fz, cpc, thread, events>>
      BY <1>39, <2>5 DEF ReconcileDone, coroutines
    <3>2. ASSUME NEW e \in Execution PROVE Outcome(e)'
      <4>1. /\ co[e].at = "none" /\ cpc[e] = "idle"
            /\ ~rt[e].registered /\ thread[e] = "none"
            /\ \A a \in Actor : fz[e][a] = "idle"
            /\ row[e] \notin {"claimed", "running"}
        BY <2>1, <3>1 DEF Outcome, Closing, Probing, Good, Scheduled
      <4>2. Told(e)'
        BY <2>1, <2>3, <3>1, <4>1
        DEF Outcome, Told, Agrees, NONTERMINAL, Up
      <4>3. Probing(e)' /\ Closing(e)'
        BY <3>1, <4>1 DEF Probing, Closing, Actor
      <4>4. Awaited(e)' /\ Interrupting(e)'
        BY <2>1, <3>1, <4>1 DEF Outcome, Awaited, Interrupting, Launching
      <4>5. Cleaning(e)' /\ Settling(e)'
        BY <3>1, <4>1 DEF Outcome, Cleaning, Settling, Open, Raising, Actor
      <4>. QED
        BY <4>2, <4>3, <4>4, <4>5 DEF Outcome
    <3>. QED
      BY <2>1, <3>2 DEF Outcomes, Lasting, RowKept
  <2>. QED
    BY <2>4, <2>5
<1>40. CASE Crash
  <2>1. Volatile /\ UNCHANGED <<row, task>>
    BY <1>40 DEF Crash, stored
  <2>2. \A e \in Execution :
          /\ row[e] = "none" => task[e] = "none"
          /\ task[e] \in TERMINAL_TASK =>
               \/ Agrees(row[e], task[e])
               \/ task[e] = "FAILED" /\ row[e] \in NONTERMINAL
    BY DEF Outcome, Told
  <2>. QED
    BY <2>1, <2>2, OutcomesDied DEF Lasting, RowKept
<1>41. ASSUME NEW e \in Execution, CrashBetween(e)
      PROVE  Outcomes' /\ Lasting
  <2>1. Volatile /\ \A f \in Execution \ {e} : UNCHANGED <<row[f], task[f]>>
    BY <1>41 DEF CrashBetween, Persisted, stored, TypeOK, StoredType
  <2>2. \A f \in Execution :
          /\ row[f] = "none" => task[f] = "none"
          /\ task[f] \in TERMINAL_TASK =>
               \/ Agrees(row[f], task[f])
               \/ task[f] = "FAILED" /\ row[f] \in NONTERMINAL
    BY DEF Outcome, Told
  <2>3. SUFFICES /\ row'[e] = "none" => task'[e] = "none"
                 /\ task'[e] \in TERMINAL_TASK =>
                      \/ Agrees(row'[e], task'[e])
                      \/ task'[e] = "FAILED" /\ row'[e] \in NONTERMINAL
                 /\ RowKept(e)
    BY <2>1, <2>2, OutcomesDied DEF Lasting, RowKept
  <2>4. ASSUME NEW a \in Actor, FinalizeRuns(e, a), fz[e][a] = "stopped",
               row' = [row EXCEPT ![e] = Kind(e, a)],
               task' \in {task, Persisted(e, TaskStateOf(Kind(e, a)))}
        PROVE  /\ row'[e] # "none"
               /\ task'[e] \in TERMINAL_TASK => Agrees(row'[e], task'[e])
               /\ RowKept(e)
    <3>1. Unsettled(e) \/ Errored(e)
      BY <2>4, FinalizeAlone DEF FinalizeRuns, Runs, LoopFree
    <3>2. Errored(e) => Kind(e, a) = "failed"
      BY <2>4 DEF Errored, Kind, Outcome, Cleaning
    <3>3. /\ Kind(e, a) \in {"failed", "canceled"}
          /\ TaskStateOf(Kind(e, a)) =
               IF Kind(e, a) = "failed" THEN "FAILED" ELSE "CANCELED"
      BY DEF Kind, TaskStateOf
    <3>4. /\ row'[e] = Kind(e, a)
          /\ task'[e] \in {task[e], TaskStateOf(Kind(e, a))}
          /\ task[e] \in TERMINAL_TASK => task'[e] = task[e]
      BY <2>4 DEF Persisted, TypeOK, StoredType
    <3>. QED
      BY <3>1, <3>2, <3>3, <3>4 DEF Unsettled, Errored, Failed, Agrees,
         RowKept, TERMINAL_EXECUTION, TERMINAL_TASK
  <2>5. ASSUME NEW a \in Actor, FinalizeRuns(e, a), fz[e][a] = "unstopped",
               row' = [row EXCEPT ![e] = "recovery_required"],
               UNCHANGED task
        PROVE  /\ row'[e] # "none"
               /\ task'[e] \in TERMINAL_TASK => Agrees(row'[e], task'[e])
               /\ RowKept(e)
    <3>1. Unsettled(e) \/ Errored(e)
      BY <2>5, FinalizeAlone DEF FinalizeRuns, Runs, LoopFree
    <3>2. row'[e] = "recovery_required"
      BY <2>5 DEF TypeOK, StoredType
    <3>. QED
      BY <2>5, <3>1, <3>2 DEF Unsettled, Errored, Failed, Agrees, RowKept,
         TERMINAL_EXECUTION
  <2>6. ASSUME Reconciles(e) \/ CancelFails(e)
        PROVE  row[e] \in NONTERMINAL
    <3>1. CASE Reconciles(e)
      BY <3>1 DEF Reconciles, Outcome, Closing
    <3>2. CASE CancelFails(e)
      BY <2>2, <3>2 DEF CancelFails, Cancels, TypeOK, StoredType, Status,
         NONTERMINAL, TERMINAL_EXECUTION
    <3>. QED
      BY <2>6, <3>1, <3>2
  <2>7. CASE /\ Reconciles(e) \/ CancelFails(e)
             /\ task' = Persisted(e, "FAILED")
             /\ row' = row \/ row' = [row EXCEPT ![e] = "failed"]
    <3>1. row[e] \in NONTERMINAL /\ row'[e] \in {row[e], "failed"}
      BY <2>6, <2>7 DEF TypeOK, StoredType
    <3>2. task'[e] = "FAILED"
      BY <2>2, <2>7, <3>1 DEF Persisted, Agrees, NONTERMINAL, TypeOK, StoredType
    <3>. QED
      BY <3>1, <3>2 DEF Agrees, RowKept, NONTERMINAL, TERMINAL_EXECUTION
  <2>8. CASE /\ Reconciles(e) \/ cpc[e] = "unstopped"
             /\ task' = Persisted(e, "INPUT_REQUIRED") /\ UNCHANGED row
    <3>1. row[e] \in NONTERMINAL
      BY <2>6, <2>8 DEF Outcome, Probing
    <3>2. task'[e] \in {task[e], "INPUT_REQUIRED"}
      BY <2>8 DEF Persisted, TypeOK, StoredType
    <3>. QED
      BY <2>2, <2>8, <3>1, <3>2 DEF RowKept, NONTERMINAL, TERMINAL_TASK
  <2>9. CASE /\ cpc[e] = "stopped" /\ UNCHANGED task
             /\ row' = [row EXCEPT ![e] = "canceled"]
    <3>1. row[e] \in NONTERMINAL /\ task[e] \notin TERMINAL_TASK
      BY <2>9 DEF Outcome, Probing
    <3>2. row'[e] = "canceled"
      BY <2>9 DEF TypeOK, StoredType
    <3>. QED
      BY <2>9, <3>1, <3>2 DEF RowKept, NONTERMINAL, TERMINAL_EXECUTION
  <2>10. CASE UNCHANGED <<row, task>>
    BY <2>2, <2>10 DEF RowKept
  <2>. QED
    BY <1>41, <2>4, <2>5, <2>7, <2>8, <2>9, <2>10 DEF CrashBetween, stored
<1>42. ASSUME NEW e \in Execution,
              WorkerExits(e) \/ PidRecycled(e) \/ StrangerExits(e)
      PROVE  Outcomes' /\ Lasting
  <2>1. /\ UNCHANGED <<row, pid, task, mode, todo, loop, rt, co, fz, cpc>>
        /\ UNCHANGED <<thread, events>>
    BY <1>42 DEF WorkerExits, PidRecycled, StrangerExits, stored, coroutines
  <2>2. /\ worker'[e] = "dead" \/ (worker'[e] = "recycled" /\ ~rt[e].owned)
        /\ \A f \in Execution \ {e} : worker'[f] = worker[f]
    BY <1>42
    DEF WorkerExits, PidRecycled, StrangerExits, TypeOK, ProcessType
  <2>3. Alone(e) /\ RowKept(e)
    BY <2>1, <2>2 DEF Alone, Untouched, RowKept
  <2>4. Told(e)' /\ Probing(e)' /\ Closing(e)'
    BY <2>1 DEF Outcome, Told, Probing, Closing, Launching, Up
  <2>5. Awaited(e)' /\ Interrupting(e)' /\ Cleaning(e)'
    BY <2>1, <2>2 DEF Outcome, Awaited, Interrupting, Cleaning, Launching,
       Failed
  <2>6. Gone(e) /\ co[e].at # "none" => Gone(e)'
    BY <2>1, <2>2 DEF Gone, Outcome, Awaited
  <2>7. Settling(e)'
    BY <2>1, <2>6 DEF Outcome, Settling, Open, Raising, Up, Unsettled, Failed,
       Errored, Releasing, Launching
  <2>. QED
    BY <2>3, <2>4, <2>5, <2>7, OutcomeTaken DEF Outcome
<1>43. CASE UNCHANGED vars
  <2>1. /\ UNCHANGED <<row, pid, task, worker, mode, todo, loop, rt, co, fz>>
        /\ UNCHANGED <<cpc, thread, events>>
    BY <1>43 DEF vars
  <2>2. ASSUME NEW e \in Execution PROVE Outcome(e)'
    <3>1. Told(e)' /\ Probing(e)' /\ Closing(e)'
      BY <2>1 DEF Outcome, Told, Probing, Closing, Launching, Up
    <3>2. Awaited(e)' /\ Interrupting(e)' /\ Cleaning(e)'
      BY <2>1 DEF Outcome, Awaited, Interrupting, Cleaning, Launching, Failed
    <3>3. Settling(e)'
      BY <2>1 DEF Outcome, Settling, Open, Raising, Up, Unsettled, Failed, Gone,
         Errored, Releasing, Launching
    <3>. QED
      BY <3>1, <3>2, <3>3 DEF Outcome
  <2>. QED
    BY <2>1, <2>2 DEF Outcomes, Lasting, RowKept
<1>. QED
  BY <1>1, <1>2, <1>3, <1>4, <1>4a, <1>5, <1>6, <1>7, <1>8, <1>9,
     <1>10, <1>11, <1>12, <1>13, <1>14, <1>15, <1>16, <1>17, <1>18, <1>19, <1>20, <1>21,
     <1>22, <1>23, <1>24, <1>25, <1>26, <1>27, <1>28, <1>29, <1>30, <1>31,
     <1>32, <1>33, <1>34, <1>35, <1>36, <1>37, <1>38, <1>39, <1>40, <1>41,
     <1>42, <1>43
  DEF Next, SpawnThread, ExecuteStep, FinalizeStep, FinalizeThread, Reconcile

\* The first server has told nobody anything.
LEMMA OutcomesInit == Init => Outcomes
<1>. SUFFICES ASSUME Init, NEW e \in Execution
              PROVE  Outcome(e)
  BY DEF Outcomes
<1>1. /\ mode = "serving" /\ todo = {} /\ loop = Idle
      /\ row[e] = "none" /\ pid[e] = FALSE /\ task[e] = "none"
      /\ events[e] = "none" /\ worker[e] = "none"
      /\ rt[e] = NewRuntime /\ co[e] = NewCoroutine
      /\ fz[e] = [a \in Actor |-> "idle"]
      /\ cpc[e] = "idle" /\ thread[e] = "none"
  BY DEF Init
<1>2. Told(e) /\ Probing(e) /\ Closing(e)
  BY <1>1 DEF Told, Probing, Closing, TERMINAL_TASK, NewCoroutine, Actor
<1>3. Awaited(e) /\ Interrupting(e)
  BY <1>1 DEF Awaited, Interrupting, Launching, NewRuntime, NewCoroutine,
     Actor, Idle
<1>4. Cleaning(e) /\ Settling(e)
  BY <1>1 DEF Cleaning, Settling, Open, Raising, NewRuntime, NewCoroutine,
     Actor
<1>. QED
  BY <1>2, <1>3, <1>4 DEF Outcome

\* Nobody will release a lock for e, or ask whether to ...
Dormant(e) ==
  /\ ~rt[e].registered /\ co[e].rel = "idle"
  /\ \A a \in Actor : fz[e][a] = "idle"
  /\ mode = "closing" => e \notin todo

\* ... e has ended without its lock: nothing it still waits for will release
\* one.
Lockless(e) ==
  /\ co[e].at = "done" /\ co[e].rel = "idle" /\ ~rt[e].locked
  /\ ~Releasing(e)
Passive(e) == Dormant(e) \/ Lockless(e)

\* execute has begun, or was canceled before it did.
Started(e) == co[e].at \notin {"none", "queued"}

\* e has released its lock, or is over with whatever it has left.
Past(e) ==
  /\ Started(e)
  /\ ~rt[e].locked \/ (Dormant(e) /\ row[e] \in TERMINAL_EXECUTION)

\* execute is on its way out, with the loop, after its release.
Leaving(e) ==
  /\ loop = <<e, "execute">>
  /\ co[e].at \in {"deadline", "outer_stop", "finally", "except", "outer",
                   "pop"}
  /\ co[e].rel = "idle" /\ \A a \in Actor : fz[e][a] = "idle"

\* owner.json names an execution that has launched; as long as its server is
\* up that one has the lock, and a launch happens under it ...
Owning(e) ==
  /\ co[e].at \in {"none", "queued"} => ~rt[e].locked
  /\ worker[e] = "none" => owner # e
  /\ Up /\ owner = e =>
       IF co[e].at = "none" THEN ~held
       ELSE Started(e) /\ held /\ rt[e].locked
  /\ Launching(e) /\ ~rt[e].blocked => rt[e].locked
  /\ co[e].rel = "closed" => rt[e].blocked
  /\ Started(e) /\ rt[e].registered /\ ~rt[e].locked => ~OwnedAlive(e)

Undisturbed(e) ==
  /\ ~co[e].interrupted /\ co[e].exit # "cancel" /\ co[e].at # "handler"
  /\ fz[e]["cancel"] = "idle" /\ cpc[e] = "idle"

\* ... an execution nobody cancels releases its lock once, on its way out or
\* in the shutdown ...
Plain(e) ==
  e \notin Cancelable =>
    /\ Undisturbed(e)
    /\ mode = "serving" /\ rt[e].registered /\ ~rt[e].locked =>
         Leaving(e) \/ co[e].at = "done"
    /\ Up /\ mode # "serving" /\ (co[e].rel # "idle" \/ Releasing(e))
         /\ ~rt[e].locked => ~held

\* ... the directory is there under owner.json, and under _held while anybody
\* may release it ...
LockPresent ==
  /\ owner # NoExecution => lock # NoExecution
  /\ mode \in {"down", "starting"} => ~held
  /\ Up /\ held /\ lock = NoExecution => \A e \in Execution : Passive(e)

\* ... and lock_acquired, _held and the directory agree until an execution that
\* may be canceled is past its release.
LockAgrees ==
  Up /\ (\A c \in Cancelable : ~Past(c)) =>
    \A e \in Execution : rt[e].locked => lock = e /\ held

Lawful ==
  /\ \A e \in Execution : Owning(e) /\ Plain(e)
  /\ LockPresent /\ LockAgrees

\* No release finds its directory gone.
LEMMA LawfulLocksThere == Lawful => LocksThere
  BY DEF Lawful, LockPresent, Passive, Dormant, Lockless, Releasing, LocksThere,
     UnlockRaises

\* What a step of e does not touch of another one.
LEMMA OthersLawful ==
  ASSUME NEW e \in Execution, Alone(e), NEW f \in Execution \ {e}
  PROVE  /\ Dormant(f) => Dormant(f)'
         /\ Passive(f) => Passive(f)'
         /\ Past(f) => Past(f)'
         /\ Leaving(f) => Leaving(f)'
         /\ Undisturbed(f) => Undisturbed(f)'
         /\ UNCHANGED <<rt[f], co[f], worker[f], mode>>
         /\ Releasing(f)' => Releasing(f)
         /\ Launching(f)' => Launching(f)
         /\ OwnedAlive(f)' => OwnedAlive(f)
<1>1. /\ UNCHANGED <<row[f], pid[f], worker[f], thread[f], cpc[f]>>
      /\ UNCHANGED <<rt[f], co[f], fz[f], mode>>
      /\ f \in todo' <=> f \in todo
      /\ loop = <<f, "execute">> => loop' = <<f, "execute">>
  BY DEF Alone, Untouched
<1>2. /\ Dormant(f) => Dormant(f)'
      /\ Past(f) => Past(f)'
  BY <1>1 DEF Dormant, Past, Started
<1>5. Passive(f) => Passive(f)'
  BY <1>1, <1>2 DEF Passive, Lockless, Releasing
<1>3. /\ Leaving(f) => Leaving(f)'
      /\ Undisturbed(f) => Undisturbed(f)'
  BY <1>1 DEF Leaving, Undisturbed
<1>4. /\ Releasing(f)' => Releasing(f)
      /\ Launching(f)' => Launching(f)
      /\ OwnedAlive(f)' => OwnedAlive(f)
  BY <1>1 DEF Releasing, Launching, OwnedAlive, is_owned_alive
<1>. QED
  BY <1>1, <1>2, <1>3, <1>4, <1>5

\* It is enough to look at the execution that moves.
LEMMA LawTaken ==
  ASSUME Lawful, NEW e \in Execution, Alone(e), Owning(e)', Plain(e)',
         owner' \notin {NoExecution, e} => owner' = owner /\ held' = held,
         held' => held \/ mode = "serving",
         LockPresent', LockAgrees'
  PROVE  Lawful'
<1>1. ASSUME NEW f \in Execution \ {e} PROVE Owning(f)' /\ Plain(f)'
  <2>1. Owning(f) /\ Plain(f)
    BY DEF Lawful
  <2>2. /\ UNCHANGED <<rt[f], co[f], worker[f], mode>>
        /\ Leaving(f) => Leaving(f)'
        /\ Undisturbed(f) => Undisturbed(f)'
        /\ Releasing(f)' => Releasing(f)
        /\ Launching(f)' => Launching(f)
        /\ OwnedAlive(f)' => OwnedAlive(f)
    BY OthersLawful
  <2>3. owner' = f => owner = f /\ held' = held
    BY ServerAssumption
  <2>4. Owning(f)'
    BY <2>1, <2>2, <2>3 DEF Owning, Started, Up
  <2>5. Plain(f)'
    BY <2>1, <2>2 DEF Plain, Up
  <2>. QED
    BY <2>4, <2>5
<1>. QED
  BY <1>1 DEF Lawful

\* A step that leaves directory and _held alone.
LEMMA LawQuiet ==
  ASSUME Lawful, NEW e \in Execution, Alone(e), Owning(e)', Plain(e)',
         UNCHANGED <<lock, held>>,
         owner' = owner \/ (owner' = e /\ lock # NoExecution),
         rt'[e].locked => rt[e].locked,
         Passive(e) => Passive(e)', Past(e) => Past(e)'
  PROVE  Lawful'
<1>1. LockPresent'
  <2>1. \A f \in Execution : Passive(f) => Passive(f)'
    BY OthersLawful
  <2>2. mode' = mode
    BY DEF Alone
  <2>. QED
    BY <2>1, <2>2, ServerAssumption DEF Lawful, LockPresent, Up
<1>2. LockAgrees'
  <2>1. \A f \in Execution : Past(f) => Past(f)'
    BY OthersLawful
  <2>2. \A f \in Execution : rt'[f].locked => rt[f].locked
    BY OthersLawful
  <2>3. mode' = mode
    BY DEF Alone
  <2>4. \A c \in Cancelable : ~Past(c)' => ~Past(c)
    BY <2>1, ServerAssumption
  <2>. QED
    BY <2>2, <2>3, <2>4 DEF Lawful, LockAgrees, Up
<1>. QED
  BY <1>1, <1>2, LawTaken, ServerAssumption

\* A step of one execution, by its loop.
LEMMA AloneMoves ==
  ASSUME NEW e \in Execution, mode' = mode, todo' \in {todo, todo \ {e}},
         \A f \in Execution \ {e} :
           Untouched(f) /\ UNCHANGED <<task[f], events[f]>>,
         \/ loop' = loop
         \/ \A l \in {loop, loop'} :
              l[1] \in {e, NoExecution} \/ l[2] = "shutdown"
  PROVE  Alone(e)
<1>1. ASSUME NEW f \in Execution \ {e}, loop' # loop,
             NEW a \in {"execute", "cancel"}
      PROVE  loop # <<f, a>> /\ loop' # <<f, a>>
  BY <1>1, ServerAssumption
<1>. QED
  BY <1>1 DEF Alone

\* Every step of an execution is such a step.
LEMMA SendAlone ==
  ASSUME TypeOK, NEW e \in Execution,
         \/ Send(e) \/ Dispatch(e) \/ SaveTask(e) \/ WaitOwned(e)
         \/ SpawnThread(e)
         \/ CancelStop(e) \/ CancelAnswer(e) \/ CancelReturns(e)
         \/ ShutdownFinalize(e) \/ CloseGateForRelease(e)
         \/ WorkerExits(e) \/ PidRecycled(e) \/ StrangerExits(e)
  PROVE  Alone(e)
<1>1. mode' = mode /\ todo' \in {todo, todo \ {e}}
  BY DEF Send, Dispatch, SaveTask, WaitOwned, SpawnThread, Launch, WriteOwner,
     RecordPid, SpawnRaises, CancelStop, CancelAnswer, CancelReturns,
     ShutdownFinalize, CloseGateForRelease, WorkerExits, PidRecycled,
     StrangerExits
<1>2. \/ loop' = loop
      \/ \A l \in {loop, loop'} :
           l[1] \in {e, NoExecution} \/ l[2] = "shutdown"
  BY DEF Send, Dispatch, SaveTask, WaitOwned, SpawnThread, Launch, WriteOwner,
     RecordPid, SpawnRaises, CancelStop, CancelAnswer, CancelReturns,
     ShutdownFinalize, CloseGateForRelease, WorkerExits, PidRecycled,
     StrangerExits, Idle, Runs, LoopFree, InShutdown
<1>3. ASSUME NEW f \in Execution \ {e}
      PROVE  Untouched(f) /\ UNCHANGED <<task[f], events[f]>>
  <2>1. UNCHANGED <<row[f], pid[f], worker[f], thread[f], cpc[f]>>
    BY DEF Send, Dispatch, SaveTask, WaitOwned, SpawnThread, Launch,
       WriteOwner, RecordPid, SpawnRaises, CancelStop, CancelAnswer,
       CancelReturns, ShutdownFinalize, CloseGateForRelease, WorkerExits,
       PidRecycled, StrangerExits, stored, coroutines, TypeOK, StoredType,
       ProcessType
  <2>2. UNCHANGED <<rt[f], co[f], fz[f]>>
    BY DEF Send, Dispatch, SaveTask, WaitOwned, SpawnThread, Launch,
       WriteOwner, RecordPid, SpawnRaises, CancelStop, CancelAnswer,
       CancelReturns, ShutdownFinalize, CloseGateForRelease, WorkerExits,
       PidRecycled, StrangerExits, Goto, coroutines, TypeOK, RuntimeType,
       CoroutineType, FinalizeType, Runtime, Coroutine
  <2>3. UNCHANGED <<task[f], events[f]>>
    BY DEF Send, Dispatch, SaveTask, WaitOwned, SpawnThread, Launch,
       WriteOwner, RecordPid, SpawnRaises, CancelStop, CancelAnswer,
       CancelReturns, ShutdownFinalize, CloseGateForRelease, WorkerExits,
       PidRecycled, StrangerExits, Emitted, Persisted, stored, TypeOK,
       StoredType, ProcessType
  <2>. QED
    BY <1>1, <2>1, <2>2, <2>3 DEF Untouched
<1>. QED
  BY <1>1, <1>2, <1>3, AloneMoves

LEMMA ExecuteAlone ==
  ASSUME TypeOK, NEW e \in Execution, ExecuteStep(e)
  PROVE  Alone(e)
<1>1. mode' = mode /\ todo' = todo
  BY DEF ExecuteStep, EvidenceFails, Reject, Prepare, PrepareRaises,
     SpawnReturned, Deliver,
     DeliverNothing, Expire, Finally, Except, Outer, Drained, Pop,
     ReleaseIfSafe, Interrupted, ExecuteResumes
<1>2. \/ loop' = loop
      \/ \A l \in {loop, loop'} : l[1] \in {e, NoExecution}
  <2>1. loop' = loop \/ loop' \in {Idle, <<e, "execute">>}
    BY DEF ExecuteStep, EvidenceFails, Reject, Prepare, PrepareRaises,
       SpawnReturned, Deliver,
       DeliverNothing, Expire, Finally, Except, Outer, Drained, Pop,
       ReleaseIfSafe, Interrupted, ExecuteResumes
  <2>2. loop \in {Idle, <<e, "execute">>}
    BY DEF ExecuteStep, EvidenceFails, Reject, Prepare, PrepareRaises,
       SpawnReturned, Deliver,
       DeliverNothing, Expire, Finally, Except, Outer, Drained, Pop,
       ReleaseIfSafe, Interrupted, ExecuteResumes, Resumes, LoopFree, Runs
  <2>. QED
    BY <2>1, <2>2 DEF Idle
<1>3. ASSUME NEW f \in Execution \ {e}
      PROVE  Untouched(f) /\ UNCHANGED <<task[f], events[f]>>
  <2>1. /\ UNCHANGED <<row[f], pid[f], worker[f], thread[f], cpc[f]>>
        /\ UNCHANGED <<task[f], events[f]>>
    BY DEF ExecuteStep, EvidenceFails, Reject, Prepare, PrepareRaises,
       SpawnReturned, Deliver,
       DeliverNothing, Expire, Finally, Except, Outer, Drained, Pop,
       ReleaseIfSafe, Interrupted, ExecuteResumes, stored, Emitted, TypeOK,
       StoredType, ProcessType
  <2>2. UNCHANGED <<rt[f], fz[f]>>
    BY DEF ExecuteStep, EvidenceFails, Reject, Prepare, PrepareRaises,
       SpawnReturned, Deliver,
       DeliverNothing, Expire, Finally, Except, Outer, Drained, Pop,
       ReleaseIfSafe, Interrupted, ExecuteResumes, TypeOK, RuntimeType,
       FinalizeType, Runtime
  <2>3. UNCHANGED co[f]
    BY DEF ExecuteStep, EvidenceFails, Reject, Prepare, PrepareRaises,
       SpawnReturned, Deliver,
       DeliverNothing, Expire, Finally, Except, Outer, Drained, Pop,
       ReleaseIfSafe, Interrupted, ExecuteResumes, Goto, Leave, TypeOK,
       CoroutineType, Coroutine
  <2>. QED
    BY <1>1, <2>1, <2>2, <2>3 DEF Untouched
<1>. QED
  BY <1>1, <1>2, <1>3, AloneMoves

LEMMA FinalizeStepAlone ==
  ASSUME TypeOK, NEW e \in Execution, NEW a \in Actor, ~Volatile,
         FinalizeStep(e, a) \/ FinalizeThread(e, a)
  PROVE  Alone(e)
<1>1. mode' = mode /\ todo' = todo
  BY DEF FinalizeStep, FinalizeThread, FinalizeEnter, FinalizeGated,
     FinalizeRecovery, FinalizeSettle, FinalizeRelease, FinalizeRaises,
     FinalizeGate, FinalizeStop
<1>2. \/ loop' = loop
      \/ \A l \in {loop, loop'} : l[1] \in {e, NoExecution}
  BY DEF FinalizeStep, FinalizeThread, FinalizeEnter, FinalizeGated,
     FinalizeRecovery, FinalizeSettle, FinalizeRelease, FinalizeRaises,
     FinalizeGate, FinalizeStop, FinalizeRuns, LoopFree, Runs, Idle
<1>3. ASSUME NEW f \in Execution \ {e}
      PROVE  Untouched(f) /\ UNCHANGED <<task[f], events[f]>>
  <2>1. /\ UNCHANGED <<row[f], pid[f], worker[f], thread[f], cpc[f]>>
        /\ UNCHANGED <<task[f], events[f]>>
    BY DEF FinalizeStep, FinalizeThread, FinalizeEnter, FinalizeGated,
       FinalizeRecovery, FinalizeSettle, FinalizeRelease, FinalizeRaises,
       FinalizeGate, FinalizeStop, stored, Emitted, Persisted, TypeOK,
       StoredType, ProcessType
  <2>2. UNCHANGED <<rt[f], fz[f]>>
    BY DEF FinalizeStep, FinalizeThread, FinalizeEnter, FinalizeGated,
       FinalizeRecovery, FinalizeSettle, FinalizeRelease, FinalizeRaises,
       FinalizeGate, FinalizeStop, TypeOK, RuntimeType, FinalizeType, Runtime
  <2>3. UNCHANGED co[f]
    BY DEF FinalizeStep, FinalizeThread, FinalizeEnter, FinalizeGated,
       FinalizeRecovery, FinalizeSettle, FinalizeRelease, FinalizeRaises,
       FinalizeGate, FinalizeStop, Goto, Leave, TypeOK, CoroutineType,
       Coroutine
  <2>. QED
    BY <1>1, <2>1, <2>2, <2>3 DEF Untouched
<1>. QED
  BY <1>1, <1>2, <1>3, AloneMoves

LEMMA CancelAlone ==
  ASSUME TypeOK, NEW e \in Execution, Cancel(e)
  PROVE  Alone(e)
<1>1. mode' = mode /\ todo' = todo
  BY DEF Cancel
<1>2. \/ loop' = loop
      \/ \A l \in {loop, loop'} : l[1] \in {e, NoExecution}
  BY DEF Cancel, Cancels, LoopFree, Idle
<1>3. ASSUME NEW f \in Execution \ {e}
      PROVE  Untouched(f) /\ UNCHANGED <<task[f], events[f]>>
  <2>1. /\ UNCHANGED <<row[f], pid[f], worker[f], thread[f], cpc[f]>>
        /\ UNCHANGED <<task[f], events[f]>>
    BY DEF Cancel, stored, Emitted, Persisted, TypeOK, StoredType, ProcessType
  <2>2. UNCHANGED <<rt[f], fz[f], co[f]>>
    BY DEF Cancel, Disturbed, TypeOK, FinalizeType, CoroutineType, Coroutine
  <2>. QED
    BY <1>1, <2>1, <2>2 DEF Untouched
<1>. QED
  BY <1>1, <1>2, <1>3, AloneMoves

\* A step of e past its launch that leaves the lock and its files alone.
LEMMA LawKept ==
  ASSUME Lawful, NEW e \in Execution, Alone(e), UNCHANGED <<lock, owner, held>>,
         rt'[e].locked = rt[e].locked,
         co'[e].at = co[e].at \/ (Started(e) /\ Started(e)'),
         Launching(e)' => Launching(e),
         rt[e].blocked => rt'[e].blocked,
         co'[e].rel = "closed" => co[e].rel = "closed" \/ rt'[e].blocked,
         rt'[e].registered => rt[e].registered,
         OwnedAlive(e)' => OwnedAlive(e) \/ rt[e].locked,
         worker'[e] = "none" => worker[e] = "none",
         Dormant(e) => Dormant(e)', Lockless(e) => Lockless(e)',
         co[e].at = "done" => co'[e].at = "done",
         row[e] \in TERMINAL_EXECUTION =>
           row'[e] \in TERMINAL_EXECUTION \/ ~Dormant(e),
         e \notin Cancelable /\ Undisturbed(e) =>
           /\ Undisturbed(e)'
           /\ mode = "serving" /\ Leaving(e) /\ rt'[e].registered
                /\ ~rt[e].locked => Leaving(e)'
           /\ ~rt[e].locked /\ (co'[e].rel # "idle" \/ Releasing(e)')
                => co[e].rel # "idle" \/ Releasing(e)
  PROVE  Lawful'
<1>1. mode' = mode
  BY DEF Alone
<1>2. Owning(e) /\ Plain(e)
  BY DEF Lawful
<1>3. Owning(e)'
  BY <1>1, <1>2 DEF Owning, Started, Up
<1>4. Plain(e)'
  BY <1>1, <1>2 DEF Plain, Up
<1>5. Past(e) => Past(e)'
  BY DEF Past, Started
<1>6. Passive(e) => Passive(e)'
  BY DEF Passive
<1>. QED
  BY <1>3, <1>4, <1>5, <1>6, LawQuiet

\* With the server go its lock_acquired flags and _held.
LEMMA LawDied ==
  ASSUME Lawful, Volatile, lock' = lock, owner' \in {owner, NoExecution},
         \A e \in Execution : worker'[e] = "none" => worker[e] = "none"
  PROVE  Lawful'
<1>1. /\ mode' = "down" /\ ~held' /\ ~Up'
      /\ \A e \in Execution :
           /\ rt'[e] = NewRuntime /\ co'[e] = NewCoroutine
           /\ fz'[e] = [a \in Actor |-> "idle"]
           /\ cpc'[e] = "idle" /\ thread'[e] = "none"
  BY DEF Volatile, Up
<1>2. ASSUME NEW e \in Execution PROVE Owning(e)'
  <2>1. worker'[e] = "none" => owner' # e
    BY ServerAssumption DEF Lawful, Owning
  <2>. QED
    BY <1>1, <2>1 DEF Owning, Started, Launching, NewRuntime, NewCoroutine
<1>3. ASSUME NEW e \in Execution PROVE Plain(e)'
  BY <1>1 DEF Plain, Undisturbed, NewCoroutine, Actor
<1>4. LockPresent' /\ LockAgrees'
  BY <1>1 DEF LockPresent, LockAgrees, Lawful
<1>. QED
  BY <1>2, <1>3, <1>4 DEF Lawful

\* A release of e, by its execute or by one that finalizes it, finds the
\* directory as it is to be: nobody else's.
LEMMA LawReleased ==
  ASSUME Lawful, NEW e \in Execution, Alone(e), Up,
         Started(e), Started(e)', ~OwnedAlive(e), rt[e].blocked, ~Leaving(e),
         co[e].rel # "idle" \/ Releasing(e),
         e \notin Cancelable /\ mode = "serving" =>
           rt[e].registered /\ co[e].at # "done",
         lock' = IF held THEN NoExecution ELSE lock,
         owner' = IF held THEN NoExecution ELSE owner,
         held \in BOOLEAN, held' = FALSE,
         ~rt'[e].locked, rt'[e].blocked, worker'[e] = worker[e],
         ~OwnedAlive(e)',
         e \notin Cancelable /\ Undisturbed(e) =>
           Undisturbed(e)' /\ (mode = "serving" => Leaving(e)')
  PROVE  Lawful'
<1>1. mode' = mode
  BY DEF Alone
<1>2. Owning(e) /\ Plain(e) /\ LockPresent /\ LockAgrees
  BY DEF Lawful
<1>3. owner' # e /\ (owner' = NoExecution \/ (owner' = owner /\ ~held))
  BY <1>2, ServerAssumption DEF Owning, Started
<1>4. Owning(e)'
  BY <1>2, <1>3 DEF Owning, Started
<1>5. Plain(e)'
  BY <1>1, <1>2 DEF Plain
<1>6. LockPresent'
  BY <1>2, <1>3 DEF LockPresent
<1>7. LockAgrees'
  <2>1. Past(e)'
    BY DEF Past
  <2>2. CASE e \in Cancelable
    BY <2>1, <2>2 DEF LockAgrees
  <2>3. CASE e \notin Cancelable
    <3>1. \A c \in Cancelable : Past(c) => Past(c)'
      BY <2>3, OthersLawful, ServerAssumption
    <3>2. \A f \in Execution \ {e} : rt'[f] = rt[f]
      BY OthersLawful
    <3>3. CASE rt[e].locked
      BY <1>1, <1>2, <3>1, <3>2, <3>3 DEF LockAgrees
    <3>4. CASE ~rt[e].locked
      <4>1. ~held
        BY <1>2, <2>3, <3>4 DEF Plain, Up
      <4>. QED
        BY <1>1, <1>2, <3>1, <3>2, <4>1 DEF LockAgrees
    <3>. QED
      BY <3>3, <3>4
  <2>. QED
    BY <2>2, <2>3
<1>. QED
  BY <1>3, <1>4, <1>5, <1>6, <1>7, LawTaken

\* With the loop free, all that is left of an execution nobody cancels is
\* passive, once it has released its lock.
LEMMA UnlockedPassive ==
  ASSUME LaunchProtocol, Outcomes, Lawful, LoopFree, mode = "serving",
         NEW e \in Execution \ Cancelable, ~rt[e].locked
  PROVE  Passive(e)
<1>1. Outcome(e) /\ Undisturbed(e) /\ ~Leaving(e)
  BY ServerAssumption DEF Outcomes, Lawful, Plain, LoopFree, Leaving, Idle
<1>2. ~rt[e].registered \/ co[e].at = "done"
  BY <1>1 DEF Lawful, Plain
<1>3. co[e].at \in {"none", "queued", "done"}
  BY <1>1, <1>2 DEF Outcome, Awaited
<1>4. co[e].rel = "idle" /\ fz[e]["execute"] = "idle"
  BY <1>1, <1>3 DEF Outcome, Interrupting, Cleaning
<1>5. fz[e]["cancel"] = "idle" /\ fz[e]["shutdown"] = "idle"
  BY <1>1 DEF Undisturbed, Outcome, Closing
<1>. QED
  BY <1>2, <1>4, <1>5 DEF Passive, Dormant, Lockless, Releasing, Actor

\* A cancel without runtime clears the directory by owner.json: the only one
\* that may have it as well as _held is the execution that is canceled.
LEMMA LawCleared ==
  ASSUME \A e, f \in Cancelable : e = f,
         LaunchProtocol, Outcomes, Lawful, LoopFree, mode = "serving",
         NEW e \in Cancelable, Alone(e), ~rt[e].registered,
         \A a \in Actor : fz[e][a] = "idle",
         row[e] \notin TERMINAL_EXECUTION, row'[e] \in TERMINAL_EXECUTION,
         release_lock_if_owner(e),
         UNCHANGED <<held, rt, fz, thread, worker>>, co'[e].rel = co[e].rel,
         co'[e].at = co[e].at \/ (co[e].at = "queued" /\ co'[e].at = "done")
  PROVE  Lawful'
<1>. e \in Execution
  BY ServerAssumption
<1>1. /\ mode' = mode /\ Up
      /\ Owning(e) /\ LockPresent /\ LockAgrees /\ Outcome(e)
  BY DEF Alone, Up, Lawful, Outcomes
<1>2. co[e].at \in {"none", "queued", "done"} /\ co[e].rel = "idle"
  BY <1>1 DEF Outcome, Awaited, Interrupting
<1>3. Dormant(e) /\ Dormant(e)'
  BY <1>1, <1>2 DEF Dormant
<1>4. Plain(e)'
  BY DEF Plain
<1>5. CASE owner # e
  <2>1. UNCHANGED <<lock, owner>>
    BY <1>5 DEF release_lock_if_owner
  <2>2. Owning(e)'
    BY <1>1, <1>2, <1>5, <2>1
    DEF Owning, Started, Launching, OwnedAlive, is_owned_alive
  <2>3. Past(e) => Past(e)'
    BY <1>2, <1>3 DEF Past, Started
  <2>. QED
    BY <1>3, <1>4, <2>1, <2>2, <2>3, LawQuiet DEF Passive
<1>6. CASE owner = e
  <2>1. owner' = NoExecution /\ lock' = NoExecution
    BY <1>6 DEF release_lock_if_owner
  <2>2. Owning(e)'
    BY <1>1, <1>2, <2>1, ServerAssumption
    DEF Owning, Started, Launching, OwnedAlive, is_owned_alive
  <2>3. CASE co[e].at = "none"
    <3>1. ~held
      BY <1>1, <1>6, <2>3 DEF Owning
    <3>2. LockPresent'
      BY <1>1, <2>1, <3>1 DEF LockPresent
    <3>3. \A c \in Cancelable : ~Past(c)
      BY <2>3 DEF Past, Started
    <3>4. LockAgrees'
      BY <1>1, <3>1, <3>3 DEF LockAgrees
    <3>. QED
      BY <1>4, <2>1, <2>2, <3>2, <3>4, LawTaken
  <2>4. CASE co[e].at # "none"
    <3>1. Started(e) /\ held /\ rt[e].locked
      BY <1>1, <1>6, <2>4 DEF Owning
    <3>2. \A c \in Cancelable : ~Past(c)
      BY <3>1 DEF Past
    <3>3. \A f \in Execution \ {e} : ~rt[f].locked
      BY <1>1, <3>1, <3>2 DEF LockAgrees
    <3>4. \A f \in Execution \ {e} : Passive(f)'
      BY <3>3, UnlockedPassive, OthersLawful
    <3>5. LockPresent'
      BY <1>1, <1>3, <2>1, <3>4 DEF LockPresent, Passive
    <3>6. Past(e)'
      BY <1>2, <1>3, <3>1 DEF Past, Started
    <3>7. LockAgrees'
      BY <3>6 DEF LockAgrees
    <3>. QED
      BY <1>4, <2>1, <2>2, <3>5, <3>7, LawTaken
  <2>. QED
    BY <2>3, <2>4
<1>. QED
  BY <1>5, <1>6

\* Every step keeps Lawful, as long as at most one execution is canceled.
LEMMA LawfulStep ==
  ASSUME \A e, f \in Cancelable : e = f
  PROVE  TypeOK /\ LaunchProtocol /\ Outcomes /\ Lawful /\ [Next]_vars
           => Lawful'
<1>. SUFFICES ASSUME TypeOK, LaunchProtocol, Outcomes, Lawful, [Next]_vars
              PROVE  Lawful'
  OBVIOUS
<1>. \A e \in Execution : /\ Good(e) /\ Outcome(e)
                          /\ Owning(e) /\ Plain(e)
  BY DEF LaunchProtocol, Good, SettledIsStopped, Settled, Outcomes, Lawful
<1>. LocksThere
  BY LawfulLocksThere
<1>a. ASSUME NEW e \in Execution, Started(e), co[e].at # "done"
      PROVE  rt[e].registered /\ ~Dormant(e)
  BY <1>a DEF Outcome, Awaited, Started, Dormant
<1>b. ASSUME NEW e \in Execution, NEW a \in Actor, fz[e][a] # "idle"
      PROVE  Started(e) /\ ~Dormant(e) /\ ~Leaving(e)
  BY <1>b DEF Good, Scheduled, Started, Dormant, Leaving
<1>c. ASSUME LoopFree
      PROVE  \A e \in Execution : ~Leaving(e)
  BY <1>c, ServerAssumption DEF LoopFree, Leaving, Idle
<1>1. ASSUME NEW e \in Execution, Send(e) \/ SaveTask(e) \/ CancelStop(e)
               \/ CancelReturns(e) \/ WorkerExits(e) \/ PidRecycled(e)
               \/ StrangerExits(e)
      PROVE  Lawful'
  <2>1. /\ UNCHANGED <<lock, owner, held, mode, todo, rt, co, fz, thread>>
        /\ Alone(e)
    BY <1>1, SendAlone DEF Send, SaveTask, CancelStop, CancelReturns,
       WorkerExits, PidRecycled, StrangerExits, files, coroutines
  <2>2. /\ worker'[e] = "none" => worker[e] = "none"
        /\ is_owned_alive(e)' /\ rt[e].owned => is_owned_alive(e)
    BY <1>1 DEF Send, SaveTask, CancelStop, CancelReturns, WorkerExits,
       PidRecycled, StrangerExits, is_owned_alive, TypeOK, ProcessType
  <2>3. row[e] \in TERMINAL_EXECUTION => row'[e] \in TERMINAL_EXECUTION
    BY <1>1 DEF Send, SaveTask, CancelStop, CancelReturns, WorkerExits,
       PidRecycled, StrangerExits, stored, TypeOK, StoredType,
       TERMINAL_EXECUTION
  <2>4. cpc[e] = "idle" => cpc'[e] = "idle"
    BY <1>1 DEF Send, SaveTask, CancelStop, CancelReturns, WorkerExits,
       PidRecycled, StrangerExits, coroutines, TypeOK, ProcessType
  <2>5. Leaving(e) => Leaving(e)'
    BY <1>1, <2>1 DEF Leaving, Send, SaveTask, CancelStop, CancelReturns,
       WorkerExits, PidRecycled, StrangerExits, LoopFree, Idle, Runs
  <2>. QED
    BY <2>1, <2>2, <2>3, <2>4, <2>5, LawKept
    DEF Launching, OwnedAlive, Dormant, Lockless, Undisturbed, Releasing
<1>2. ASSUME NEW e \in Execution, Dispatch(e)
      PROVE  Lawful'
  <2>1. /\ UNCHANGED <<lock, owner, held, mode, todo, rt, fz, thread, worker>>
        /\ UNCHANGED cpc
        /\ Alone(e) /\ ~Leaving(e) /\ mode = "serving"
    BY <1>2, SendAlone DEF Dispatch, files, Runs, Leaving, LaunchProtocol
  <2>2. CASE UNCHANGED <<row, co>>
    BY <2>1, <2>2, LawKept
    DEF Launching, OwnedAlive, is_owned_alive, Dormant, Lockless,
        Undisturbed, Releasing
  <2>3. CASE try_dispatch(e) /\ Goto(e, "queued")
    <3>1. /\ co[e].at = "none" /\ co'[e].at = "queued"
          /\ UNCHANGED <<co[e].exit, co[e].rel, co[e].interrupted>>
          /\ worker[e] = "none"
      BY <2>3 DEF try_dispatch, Goto, Good, Fresh, TypeOK, CoroutineType,
         Coroutine
    <3>2. /\ thread[e] = "none" /\ ~rt[e].registered /\ ~rt[e].locked
          /\ co[e].rel = "idle" /\ \A a \in Actor : fz[e][a] = "idle"
      BY <3>1 DEF Good, Scheduled, Owning
    <3>3. Owning(e)'
      BY <2>1, <3>1, <3>2 DEF Owning, Started, Launching
    <3>4. Plain(e)'
      BY <2>1, <3>1, <3>2 DEF Plain, Undisturbed
    <3>5. Passive(e)' /\ ~Past(e)
      BY <2>1, <3>1, <3>2 DEF Passive, Dormant, Past, Started
    <3>. QED
      BY <2>1, <3>3, <3>4, <3>5, LawQuiet
  <2>. QED
    BY <1>2, <2>2, <2>3 DEF Dispatch
<1>3. ASSUME NEW e \in Execution, Reject(e)
      PROVE  Lawful'
  <2>1. /\ UNCHANGED <<lock, owner, mode, todo, fz, thread, worker, cpc>>
        /\ held' = IF lock = NoExecution THEN FALSE ELSE held
        /\ loop' = <<e, "execute">> /\ Alone(e) /\ co[e].at = "queued"
    BY <1>3, ExecuteAlone DEF Reject, files, ExecuteStep
  <2>2. /\ co'[e].at = "outer" /\ rt'[e].registered
        /\ UNCHANGED <<co[e].exit, co[e].rel, co[e].interrupted>>
        /\ UNCHANGED <<rt[e].locked, rt[e].owned, rt[e].blocked>>
    BY <1>3 DEF Reject, Goto, TypeOK, CoroutineType, Coroutine, RuntimeType,
       Runtime
  <2>3. /\ thread[e] = "none" /\ ~rt[e].owned /\ ~rt[e].locked
        /\ co[e].rel = "idle" /\ \A a \in Actor : fz[e][a] = "idle"
        /\ mode = "serving" /\ owner # e
    BY <2>1 DEF Good, Scheduled, Owning
  <2>4. lock = NoExecution => owner = NoExecution
    BY DEF Lawful, LockPresent
  <2>5. Owning(e)'
    BY <2>1, <2>2, <2>3 DEF Owning, Started, Launching, OwnedAlive
  <2>6. Plain(e)'
    BY <2>1, <2>2, <2>3 DEF Plain, Undisturbed, Leaving
  <2>7. LockPresent'
    BY <2>1, <2>3 DEF Lawful, LockPresent
  <2>8. LockAgrees'
    <3>1. Past(e)' /\ ~Past(e)
      BY <2>1, <2>2, <2>3 DEF Past, Started
    <3>2. \A c \in Cancelable : Past(c) => Past(c)'
      BY <2>1, <3>1, OthersLawful, ServerAssumption
    <3>3. \A f \in Execution : rt'[f].locked => rt[f].locked
      BY <2>1, <2>2, OthersLawful
    <3>. QED
      BY <2>1, <2>3, <3>2, <3>3, ServerAssumption
      DEF Lawful, LockAgrees, Up
  <2>. QED
    BY <2>1, <2>3, <2>4, <2>5, <2>6, <2>7, <2>8, LawTaken
<1>3a. ASSUME NEW e \in Execution, EvidenceFails(e)
        PROVE  Lawful'
  <2>1. /\ UNCHANGED <<lock, owner, held, mode, todo, fz, thread, worker, cpc>>
        /\ Alone(e) /\ co[e].at = "queued"
    BY <1>3a, ExecuteAlone DEF EvidenceFails, files, ExecuteStep
  <2>2. /\ co'[e].at = "done" /\ co'[e].exit = "raise"
        /\ UNCHANGED <<co[e].rel, co[e].interrupted>>
        /\ UNCHANGED <<rt[e].locked, rt[e].owned, rt[e].blocked>>
    BY <1>3a DEF EvidenceFails, Leave, TypeOK, CoroutineType, Coroutine,
       RuntimeType, Runtime
  <2>3. /\ thread[e] = "none" /\ ~rt[e].owned /\ ~rt[e].locked
        /\ co[e].rel = "idle" /\ \A a \in Actor : fz[e][a] = "idle"
        /\ mode = "serving" /\ owner # e
    BY <2>1 DEF Good, Scheduled, Owning
  <2>4. Owning(e)'
    BY <2>1, <2>2, <2>3 DEF Owning, Started, Launching, OwnedAlive
  <2>5. Plain(e)'
    BY <2>1, <2>2, <2>3 DEF Plain, Undisturbed
  <2>6. Passive(e)' /\ ~Past(e)
    BY <2>1, <2>2, <2>3 DEF Passive, Lockless, Releasing, Past, Started
  <2>. QED
    BY <2>1, <2>2, <2>4, <2>5, <2>6, LawQuiet
<1>4. ASSUME NEW e \in Execution, Prepare(e) \/ PrepareRaises(e)
      PROVE  Lawful'
  <2>1. /\ UNCHANGED <<owner, mode, todo, fz, worker, cpc>>
        /\ lock = NoExecution /\ lock' = e /\ held'
        /\ Alone(e) /\ co[e].at = "queued"
    BY <1>4, ExecuteAlone DEF Prepare, PrepareRaises, ExecuteStep
  <2>2. /\ co'[e].at \in {"spawning", "except"} /\ co'[e].exit # "cancel"
        /\ UNCHANGED <<co[e].rel, co[e].interrupted>>
        /\ rt'[e].locked
    BY <1>4 DEF Prepare, PrepareRaises, Goto, Leave, TypeOK, CoroutineType,
       Coroutine, RuntimeType, Runtime, Outcome, Interrupting
  <2>3. /\ co[e].rel = "idle" /\ mode = "serving" /\ owner = NoExecution
    BY <2>1 DEF Good, Scheduled, Lawful, LockPresent
  <2>4. Owning(e)'
    BY <2>1, <2>2, <2>3, ServerAssumption DEF Owning, Started
  <2>5. Plain(e)'
    BY <2>1, <2>2, <2>3 DEF Plain, Undisturbed
  <2>6. LockPresent'
    BY <2>1, <2>3, ServerAssumption DEF LockPresent
  <2>7. LockAgrees'
    <3>1. ~Past(e)
      BY <2>1 DEF Past, Started
    <3>2. \A c \in Cancelable : Past(c) => Past(c)'
      BY <2>1, <3>1, OthersLawful, ServerAssumption
    <3>3. \A f \in Execution \ {e} : rt'[f] = rt[f]
      BY <2>1, OthersLawful
    <3>. QED
      BY <2>1, <2>3, <3>2, <3>3, ServerAssumption DEF Lawful, LockAgrees, Up
  <2>. QED
    BY <2>1, <2>3, <2>4, <2>5, <2>6, <2>7, LawTaken
<1>5. ASSUME NEW e \in Execution, Launch(e) \/ RecordPid(e) \/ SpawnRaises(e)
      PROVE  Lawful'
  <2>1. /\ UNCHANGED <<lock, owner, held, mode, todo, co, fz, cpc, loop>>
        /\ Alone(e) /\ Launching(e)
    BY <1>5, SendAlone DEF Launch, RecordPid, SpawnRaises, SpawnThread, files,
       coroutines, Launching
  <2>2. /\ UNCHANGED <<rt[e].locked, rt[e].blocked, rt[e].registered>>
        /\ \/ UNCHANGED <<worker, rt>>
           \/ rt[e].locked /\ worker'[e] = "live"
    BY <1>5, <2>1 DEF Launch, RecordPid, SpawnRaises, SpawnAllowed, coroutines,
       TypeOK, RuntimeType, Runtime, ProcessType, Owning
  <2>3. row' = row \/ ~Dormant(e)
    <3>1. CASE RecordPid(e)
      <4>1. ~rt[e].blocked
        BY <3>1 DEF RecordPid, Outcome, Awaited
      <4>2. co[e].at = "spawning" \/ fz[e]["cancel"] # "idle"
        BY <2>1, <4>1 DEF Outcome, Awaited
      <4>. QED
        BY <4>2, <1>a, <1>b DEF Started, Actor
    <3>. QED
      BY <1>5, <3>1 DEF Launch, SpawnRaises, stored
  <2>. QED
    BY <2>1, <2>2, <2>3, LawKept DEF OwnedAlive, is_owned_alive, Dormant,
       Lockless, Undisturbed, Releasing, Leaving
<1>6. ASSUME NEW e \in Execution, WriteOwner(e)
      PROVE  Lawful'
  <2>1. /\ UNCHANGED <<lock, held, mode, todo, rt, co, fz, cpc, row, worker>>
        /\ UNCHANGED loop
        /\ Alone(e) /\ Launching(e) /\ held /\ lock # NoExecution
        /\ owner' = e /\ thread[e] = "launched"
    BY <1>6, SendAlone DEF WriteOwner, SpawnThread, stored, coroutines,
       Launching
  <2>2. /\ Started(e) /\ rt[e].locked
        /\ worker[e] # "none"
    BY <2>1 DEF Good, Scheduled, Started, Outcome, Awaited, Owning
  <2>3. Owning(e)'
    BY <2>1, <2>2 DEF Owning, Started
  <2>4. Plain(e)'
    BY <2>1, <2>2 DEF Plain, Undisturbed
  <2>5. (Passive(e) => Passive(e)') /\ (Past(e) => Past(e)')
    BY <2>1 DEF Passive, Lockless, Releasing, Dormant, Past, Started
  <2>. QED
    BY <2>1, <2>3, <2>4, <2>5, LawQuiet
<1>7. ASSUME NEW e \in Execution,
             \/ SpawnReturned(e) \/ WaitOwned(e) \/ DeliverNothing(e)
             \/ \E outcome \in {"completed", "failed"} : Deliver(e, outcome)
             \/ Expire(e) \/ Drained(e)
      PROVE  Lawful'
  <2>1. /\ UNCHANGED <<lock, owner, held, mode, todo, thread, worker, cpc>>
        /\ Alone(e)
        /\ co[e].at \in {"spawning", "waiting", "exited", "expired", "drain"}
    BY <1>7, SendAlone, ExecuteAlone
    DEF SpawnReturned, DeliverNothing, Expire, WaitOwned, Deliver, Drained,
        ExecuteStep, files
  <2>2. /\ co'[e].at \in {"waiting", "exited", "expired", "deadline", "finally",
                          "pop"}
        /\ UNCHANGED <<co[e].rel, co[e].interrupted>>
        /\ co'[e].exit \in {co[e].exit, "return", "raise"}
        /\ UNCHANGED <<rt[e].locked, rt[e].owned, rt[e].blocked>>
        /\ UNCHANGED rt[e].registered
    BY <1>7 DEF SpawnReturned, DeliverNothing, Expire, WaitOwned, Deliver,
       Drained, Goto, Leave, TypeOK, CoroutineType, Coroutine, RuntimeType,
       Runtime
  <2>3. /\ UNCHANGED <<fz[e]["cancel"], fz[e]["shutdown"]>>
        /\ fz'[e]["execute"] \in {fz[e]["execute"], "enter"}
    BY <1>7 DEF SpawnReturned, DeliverNothing, Expire, WaitOwned, Deliver,
       Drained, TypeOK, FinalizeType, Actor
  <2>4. Started(e) /\ Started(e)' /\ ~Dormant(e)
    BY <2>1, <2>2, <1>a DEF Started
  <2>5. ~Leaving(e) \/ co' = co
    BY <1>7, <1>c, <2>1 DEF Leaving, SpawnReturned, DeliverNothing, Expire,
       Deliver, Drained, Resumes
  <2>6. Undisturbed(e) => Undisturbed(e)'
    BY <2>1, <2>2, <2>3 DEF Undisturbed, Actor
  <2>7. Releasing(e)' => Releasing(e)
    BY <2>3 DEF Releasing, Actor
  <2>. QED
    BY <2>1, <2>2, <2>4, <2>5, <2>6, <2>7, LawKept
    DEF Launching, OwnedAlive, is_owned_alive, Leaving, Lockless
<1>8. ASSUME NEW e \in Execution, Finally(e) \/ Except(e) \/ Outer(e)
      PROVE  Lawful'
  <2>1. /\ UNCHANGED <<lock, owner, held, mode, todo, thread, worker, cpc, rt>>
        /\ Alone(e) /\ co[e].at \in {"finally", "except", "outer"}
    BY <1>8, ExecuteAlone DEF Finally, Except, Outer, ExecuteStep, files
  <2>2. Started(e) /\ ~Dormant(e) /\ rt[e].registered
    BY <2>1, <1>a DEF Started
  <2>3. /\ co'[e].at \in {"finally", "except", "outer", "handler", "outer_stop",
                          "drain", "pop"}
        /\ UNCHANGED <<co[e].exit, co[e].interrupted>>
        /\ \/ co'[e].rel = co[e].rel
           \/ co'[e].rel = "gate" /\ rt[e].locked
    BY <1>8 DEF Finally, Except, Outer, Goto, TypeOK, CoroutineType, Coroutine
  <2>4. /\ UNCHANGED <<fz[e]["cancel"], fz[e]["shutdown"]>>
        /\ fz'[e]["execute"] \in {fz[e]["execute"], "enter"}
    BY <1>8 DEF Finally, Except, Outer, TypeOK, FinalizeType, Actor
  <2>5. Undisturbed(e) => Undisturbed(e)'
    <3>1. co[e].exit # "cancel" => co'[e].at # "handler"
      BY <1>8 DEF Finally, Except, Outer, Goto, TypeOK, CoroutineType,
         Coroutine
    <3>. QED
      BY <2>1, <2>3, <2>4, <3>1 DEF Undisturbed, Actor
  <2>6. Releasing(e)' => Releasing(e)
    BY <2>4 DEF Releasing, Actor
  <2>7. Undisturbed(e) /\ Leaving(e) /\ ~rt[e].locked => Leaving(e)'
    <3>. SUFFICES ASSUME Undisturbed(e), Leaving(e), ~rt[e].locked
                  PROVE  Leaving(e)'
      OBVIOUS
    <3>1. /\ \A a \in Actor : fz[e][a] = "idle"
          /\ loop = <<e, "execute">> /\ co[e].rel = "idle"
          /\ co[e].exit # "cancel"
      BY DEF Leaving, Undisturbed
    <3>2. rt[e].cleanup = "none" /\ ~OwnedAlive(e)
      BY <2>2, <3>1 DEF Outcome, Cleaning, TypeOK, RuntimeType, Runtime, Owning
    <3>3. /\ UNCHANGED <<loop, fz>> /\ co'[e].rel = "idle"
          /\ co'[e].at \in {"except", "outer", "pop"}
      BY <1>8, <3>1, <3>2 DEF Finally, Except, Outer, Goto, TypeOK,
         CoroutineType, Coroutine
    <3>. QED
      BY <3>1, <3>3 DEF Leaving
  <2>. QED
    BY <2>1, <2>2, <2>3, <2>5, <2>6, <2>7, LawKept
    DEF Launching, OwnedAlive, is_owned_alive, Started, Lockless
<1>9. ASSUME NEW e \in Execution,
             ExecuteResumes(e) \/ Pop(e) \/ CloseGateForRelease(e)
      PROVE  Lawful'
  <2>1. /\ UNCHANGED <<lock, owner, held, mode, todo, thread, worker, cpc, fz>>
        /\ UNCHANGED row
        /\ Alone(e)
    BY <1>9, SendAlone, ExecuteAlone DEF ExecuteResumes, Pop,
       CloseGateForRelease, ExecuteStep, files, stored
  <2>2. co[e].at \notin {"none", "queued", "done"}
    BY <1>9 DEF ExecuteResumes, Pop, CloseGateForRelease, Outcome, Interrupting
  <2>3. Started(e) /\ ~Dormant(e) /\ rt[e].registered
    BY <2>2, <1>a DEF Started
  <2>4. /\ Started(e)'
        /\ UNCHANGED co[e].interrupted
        /\ co'[e].exit \in {co[e].exit, "return"}
        /\ \/ co'[e].rel = co[e].rel
           \/ co[e].rel = "gate" /\ co'[e].rel = "closed" /\ rt'[e].blocked
        /\ co'[e].at = "handler" => co[e].at = "handler"
    BY <1>9, <2>2 DEF ExecuteResumes, Pop, CloseGateForRelease, Goto, Leave,
       Started, TypeOK, CoroutineType, Coroutine, RuntimeType, Runtime
  <2>5. /\ UNCHANGED <<rt[e].locked, rt[e].owned>>
        /\ rt[e].blocked => rt'[e].blocked
    BY <1>9 DEF ExecuteResumes, Pop, CloseGateForRelease, TypeOK, RuntimeType,
       Runtime
  <2>6. Undisturbed(e) => Undisturbed(e)'
    BY <2>1, <2>4 DEF Undisturbed
  <2>7. Undisturbed(e) /\ Leaving(e) /\ rt'[e].registered => Leaving(e)'
    <3>. SUFFICES ASSUME Undisturbed(e), Leaving(e), rt'[e].registered
                  PROVE  Leaving(e)'
      OBVIOUS
    <3>1. /\ ExecuteResumes(e) /\ co[e].rel = "idle"
          /\ loop = <<e, "execute">> /\ co[e].at # "handler"
      BY <1>9 DEF Leaving, Pop, CloseGateForRelease, Undisturbed, TypeOK,
         RuntimeType, Runtime
    <3>2. /\ loop' = loop /\ co'[e].rel = "idle"
          /\ co'[e].at \in {"finally", "pop"}
      BY <3>1 DEF ExecuteResumes, Goto, Leave, TypeOK, CoroutineType,
         Coroutine
    <3>. QED
      BY <2>1, <3>1, <3>2 DEF Leaving
  <2>. QED
    BY <2>1, <2>2, <2>3, <2>4, <2>5, <2>6, <2>7, LawKept
    DEF Launching, OwnedAlive, is_owned_alive, Releasing, Lockless
<1>10. ASSUME NEW e \in Execution, Interrupted(e)
       PROVE  Lawful'
  <2>1. /\ UNCHANGED <<lock, owner, held, mode, todo, thread, worker, row>>
        /\ Alone(e) /\ ~Undisturbed(e)
        /\ co[e].at \notin {"none", "queued", "done"}
    BY <1>10, ExecuteAlone DEF Interrupted, ExecuteStep, files, stored,
       Undisturbed, Outcome, Interrupting, Good, Scheduled
  <2>2. Started(e) /\ ~Dormant(e) /\ rt[e].registered
    BY <2>1, <1>a DEF Started
  <2>3. Started(e)' /\ co'[e].rel = "idle"
    BY <1>10 DEF Interrupted, AfterInterrupt, Started, TypeOK, CoroutineType
  <2>4. /\ UNCHANGED <<rt[e].locked, rt[e].owned, rt[e].registered>>
        /\ rt[e].blocked => rt'[e].blocked
    BY <1>10 DEF Interrupted, TypeOK, RuntimeType, Runtime
  <2>. QED
    BY <2>1, <2>2, <2>3, <2>4, LawKept DEF Launching, OwnedAlive,
       is_owned_alive, Lockless
<1>11. ASSUME NEW e \in Execution, ReleaseIfSafe(e)
       PROVE  Lawful'
  <2>1. /\ UNCHANGED <<mode, todo, thread, worker, row, fz, cpc>>
        /\ Alone(e) /\ Up /\ ~Leaving(e) /\ co[e].rel = "closed"
        /\ co[e].at \in {"finally", "except", "outer"}
    BY <1>11, <1>c, ExecuteAlone DEF ReleaseIfSafe, ExecuteStep, stored,
       Resumes, LoopFree, Outcome, Interrupting
  <2>2. Started(e) /\ ~Dormant(e) /\ rt[e].registered /\ rt[e].blocked
    BY <2>1, <1>a DEF Started, Owning
  <2>3. ~OwnedAlive(e) => ~UnlockRaises
    BY <2>1 DEF LocksThere
  <2>4. /\ co'[e].rel = "idle" /\ loop' = <<e, "execute">>
        /\ co'[e].at \in {"except", "outer", "pop"}
        /\ UNCHANGED <<co[e].exit, co[e].interrupted>>
    BY <1>11, <2>1, <2>3 DEF ReleaseIfSafe, AfterRelease, TypeOK, CoroutineType,
       Coroutine
  <2>5. Started(e)' /\ (Undisturbed(e) => Undisturbed(e)')
    BY <2>1, <2>4 DEF Started, Undisturbed
  <2>6. CASE OwnedAlive(e)
    <3>1. UNCHANGED <<lock, owner, held, rt>>
      BY <1>11, <2>6 DEF ReleaseIfSafe, files
    <3>. QED
      BY <2>1, <2>2, <2>4, <2>5, <3>1, LawKept
      DEF Launching, OwnedAlive, is_owned_alive, Releasing, Lockless
  <2>7. CASE ~OwnedAlive(e)
    <3>1. /\ ~UnlockRaises /\ Unlock
          /\ rt' = [rt EXCEPT ![e].locked = FALSE]
      BY <1>11, <2>3, <2>7 DEF ReleaseIfSafe
    <3>2. /\ lock' = IF held THEN NoExecution ELSE lock
          /\ owner' = IF held THEN NoExecution ELSE owner
          /\ held' = FALSE /\ held \in BOOLEAN
      BY <3>1 DEF Unlock, UnlockRaises, TypeOK, ServerType
    <3>3. ~rt'[e].locked /\ UNCHANGED <<rt[e].blocked, rt[e].owned>>
      BY <3>1 DEF TypeOK, RuntimeType, Runtime
    <3>4. ~OwnedAlive(e)'
      BY <2>1, <2>7, <3>3 DEF OwnedAlive, is_owned_alive
    <3>5. Undisturbed(e) /\ mode = "serving" => Leaving(e)'
      <4>1. fz[e]["execute"] = "idle"
        BY <2>1 DEF Outcome, Cleaning
      <4>2. mode = "serving" => fz[e]["shutdown"] = "idle"
        BY DEF Outcome, Closing
      <4>. QED
        BY <2>1, <2>4, <4>1, <4>2 DEF Leaving, Undisturbed, Actor
    <3>. QED
      BY <2>1, <2>2, <2>5, <2>7, <3>2, <3>3, <3>4, <3>5, LawReleased
  <2>. QED
    BY <2>6, <2>7
<1>12. ASSUME NEW e \in Execution, NEW a \in Actor,
              \/ FinalizeEnter(e, a) \/ FinalizeThread(e, a)
              \/ FinalizeGated(e, a) \/ FinalizeRecovery(e, a)
       PROVE  Lawful'
  <2>1. ~Volatile \/ mode = "down"
    BY <1>12 DEF FinalizeEnter, FinalizeThread, FinalizeGate, FinalizeStop,
       FinalizeGated, FinalizeRecovery, Volatile
  <2>2. mode # "down"
    BY <1>12 DEF FinalizeEnter, FinalizeThread, FinalizeGate, FinalizeStop,
       FinalizeGated, FinalizeRecovery, FinalizeRuns, Runs, LoopFree, Up
  <2>3. /\ UNCHANGED <<lock, owner, held, mode, todo, thread, co, cpc>>
        /\ Alone(e) /\ fz[e][a] # "idle"
    BY <1>12, <2>1, <2>2, FinalizeStepAlone
    DEF FinalizeStep, FinalizeEnter, FinalizeThread, FinalizeGate, FinalizeStop,
        FinalizeGated, FinalizeRecovery, files
  <2>4. Started(e) /\ ~Dormant(e) /\ ~Leaving(e)
    BY <2>3, <1>b
  <2>5. /\ UNCHANGED <<rt[e].locked, rt[e].owned, rt[e].registered>>
        /\ rt[e].blocked => rt'[e].blocked
        /\ \/ worker' = worker
           \/ worker'[e] = "dead"
    BY <1>12 DEF FinalizeEnter, FinalizeThread, FinalizeGate, FinalizeStop,
       FinalizeGated, FinalizeRecovery, TypeOK, RuntimeType, Runtime,
       ProcessType
  <2>6. \/ fz' = fz
        \/ \E at \in FinalizeAt :
             /\ fz' = [fz EXCEPT ![e][a] = at]
             /\ at \in {"release", "releasing"} => fz[e][a] = "release"
    BY <1>12 DEF FinalizeEnter, FinalizeThread, FinalizeGate, FinalizeStop,
       FinalizeGated, FinalizeRecovery, FinalizeAt
  <2>7. Releasing(e)' => Releasing(e)
    BY <2>6, FinalizeMoved DEF Releasing, TypeOK
  <2>8. Undisturbed(e) => Undisturbed(e)'
    BY <2>3, <2>6, FinalizeMoved DEF Undisturbed, TypeOK, Actor
  <2>. QED
    BY <2>3, <2>4, <2>5, <2>7, <2>8, LawKept
    DEF Launching, OwnedAlive, is_owned_alive, Started, Lockless
<1>13. ASSUME NEW e \in Execution, NEW a \in Actor, FinalizeSettle(e, a)
       PROVE  Lawful'
  <2>1. /\ UNCHANGED <<held, mode, todo, thread, co, cpc, worker>>
        /\ Up /\ fz[e][a] # "idle"
    BY <1>13 DEF FinalizeSettle, FinalizeRuns, Runs, LoopFree
  <2>2. Alone(e)
    BY <1>13, <2>1, FinalizeStepAlone DEF FinalizeStep, Volatile, Up
  <2>3. Started(e) /\ ~Dormant(e) /\ ~Leaving(e)
    BY <2>1, <1>b
  <2>4. UNCHANGED <<lock, owner>>
    BY <1>13, <2>1, <2>3 DEF FinalizeSettle, files, release_lock_if_owner,
       Owning, Started
  <2>5. /\ UNCHANGED <<rt[e].locked, rt[e].owned, rt[e].registered>>
        /\ rt[e].blocked = rt'[e].blocked
    BY <1>13 DEF FinalizeSettle, TypeOK, RuntimeType, Runtime
  <2>6. \/ rt[e].locked /\ fz' = [fz EXCEPT ![e][a] = "release"]
        \/ fz' = [fz EXCEPT ![e][a] = "idle"]
    BY <1>13 DEF FinalizeSettle
  <2>7. ~rt[e].locked /\ Releasing(e)' => Releasing(e)
    BY <2>6, FinalizeMoved DEF Releasing, TypeOK
  <2>8. Undisturbed(e) => Undisturbed(e)'
    BY <2>1, <2>6, FinalizeMoved DEF Undisturbed, TypeOK, Actor
  <2>. QED
    BY <2>1, <2>2, <2>3, <2>4, <2>5, <2>7, <2>8, LawKept
    DEF Launching, OwnedAlive, is_owned_alive, Started, Lockless
<1>14. ASSUME NEW e \in Execution, NEW a \in Actor, FinalizeRelease(e, a)
       PROVE  Lawful'
  <2>1. /\ UNCHANGED <<mode, todo, thread, co, cpc, worker, row>>
        /\ Up /\ fz[e][a] = "releasing"
        /\ fz' = [fz EXCEPT ![e][a] = "idle"] /\ loop' = <<e, a>>
    BY <1>14 DEF FinalizeRelease, FinalizeRuns, Runs, LoopFree, stored
  <2>2. Alone(e)
    BY <1>14, <2>1, FinalizeStepAlone DEF FinalizeStep, Volatile, Up
  <2>3. Started(e) /\ Started(e)' /\ ~Dormant(e) /\ ~Leaving(e)
    BY <2>1, <1>b DEF Started
  <2>4. rt[e].blocked /\ UNCHANGED <<rt[e].owned, rt[e].registered>>
        /\ rt'[e].blocked
    BY <1>14, <2>1 DEF FinalizeRelease, TypeOK, RuntimeType, Runtime, Outcome,
       Cleaning
  <2>5. /\ fz'[e][a] = "idle"
        /\ \A b \in Actor \ {a} : fz'[e][b] = fz[e][b]
    <3>1. fz' = [fz EXCEPT ![e][a] = "idle"] /\ FinalizeType
      BY <2>1 DEF TypeOK
    <3>. QED
      BY <3>1 DEF FinalizeType
  <2>6. Undisturbed(e) => Undisturbed(e)'
    BY <2>1, <2>5 DEF Undisturbed, Actor
  <2>7. CASE OwnedAlive(e)
    <3>1. UNCHANGED <<lock, owner, held, rt[e].locked>>
      BY <1>14, <2>7 DEF FinalizeRelease, files, TypeOK, RuntimeType, Runtime
    <3>2. Releasing(e)
      BY <2>1 DEF Releasing
    <3>. QED
      BY <2>1, <2>2, <2>3, <2>4, <2>6, <3>1, <3>2, LawKept
      DEF Launching, OwnedAlive, is_owned_alive, Lockless
  <2>8. CASE ~OwnedAlive(e)
    <3>1. Releasing(e)
      BY <2>1 DEF Releasing
    <3>2. owner = e => held
      BY <2>1, <2>3 DEF Owning, Started
    <3>3. /\ lock' = IF held THEN NoExecution ELSE lock
          /\ owner' = IF held THEN NoExecution ELSE owner
          /\ held' = FALSE /\ held \in BOOLEAN
      BY <1>14, <2>8, <3>2 DEF FinalizeRelease, TypeOK, ServerType
    <3>4. ~rt'[e].locked
      BY <1>14, <2>8 DEF FinalizeRelease, TypeOK, RuntimeType, Runtime
    <3>5. ~OwnedAlive(e)'
      BY <2>1, <2>4, <2>8 DEF OwnedAlive, is_owned_alive
    <3>6. Undisturbed(e) /\ mode = "serving" =>
            rt[e].registered /\ Leaving(e)' /\ co[e].at # "done"
      <4>. SUFFICES ASSUME Undisturbed(e), mode = "serving"
                    PROVE  /\ rt[e].registered /\ Leaving(e)'
                           /\ co[e].at # "done"
        OBVIOUS
      <4>1. fz[e]["cancel"] = "idle" /\ fz[e]["shutdown"] = "idle"
        BY DEF Undisturbed, Outcome, Closing
      <4>2. a = "execute" /\ co[e].at \in {"deadline", "outer_stop"}
        BY <2>1, <4>1 DEF Actor, Outcome, Cleaning, Undisturbed
      <4>3. co[e].rel = "idle" /\ rt[e].registered
        BY <4>2 DEF Outcome, Interrupting, Awaited
      <4>. QED
        BY <2>1, <2>5, <4>1, <4>2, <4>3 DEF Leaving, Actor
    <3>7. e \notin Cancelable => Undisturbed(e)
      BY DEF Plain
    <3>. QED
      BY <2>1, <2>2, <2>3, <2>4, <2>6, <2>8, <3>1, <3>3, <3>4, <3>5, <3>6,
         <3>7, LawReleased
  <2>. QED
    BY <2>7, <2>8
<1>15. ASSUME Volatile, UNCHANGED <<files, worker>>
       PROVE  Lawful'
  BY <1>15, LawDied DEF files
<1>16. ASSUME NEW e \in Execution, NEW a \in Actor, FinalizeRaises(e, a)
       PROVE  Lawful'
  <2>1. CASE ~Volatile
    <3>1. /\ UNCHANGED <<lock, owner, held, mode, todo, thread, cpc, worker>>
          /\ UNCHANGED row
          /\ fz[e][a] # "idle" /\ fz' = [fz EXCEPT ![e][a] = "idle"]
          /\ rt' = [rt EXCEPT ![e].cleanup = "none"]
      BY <1>16, <2>1 DEF FinalizeRaises, files, stored
    <3>2. Alone(e)
      BY <1>16, <2>1, FinalizeStepAlone DEF FinalizeStep
    <3>3. Started(e) /\ ~Dormant(e) /\ ~Leaving(e)
      BY <3>1, <1>b
    <3>4. \/ co' = co
          \/ /\ co[e].at # "done" /\ co'[e].at \in {"finally", "outer", "done"}
             /\ co'[e].exit \in {co[e].exit, "raise"}
             /\ UNCHANGED <<co[e].rel, co[e].interrupted>>
      BY <1>16, <2>1 DEF FinalizeRaises, Leave, Goto, TypeOK, CoroutineType,
         Coroutine
    <3>5. UNCHANGED <<rt[e].locked, rt[e].owned, rt[e].registered,
                      rt[e].blocked>>
      BY <3>1 DEF TypeOK, RuntimeType, Runtime
    <3>6. Releasing(e)' => Releasing(e)
      BY <3>1, FinalizeMoved DEF Releasing, TypeOK
    <3>7. Undisturbed(e) => Undisturbed(e)'
      BY <3>1, <3>4, FinalizeMoved DEF Undisturbed, TypeOK, Actor
    <3>. QED
      BY <3>1, <3>2, <3>3, <3>4, <3>5, <3>6, <3>7, LawKept
      DEF Launching, OwnedAlive, is_owned_alive, Started, Lockless
  <2>2. CASE Volatile
    BY <1>15, <1>16, <2>2 DEF FinalizeRaises
  <2>. QED
    BY <2>1, <2>2
<1>17. ASSUME NEW e \in Execution, Cancel(e)
       PROVE  Lawful'
  <2>1. /\ UNCHANGED <<held, mode, todo, rt, thread, worker>>
        /\ Alone(e) /\ LoopFree /\ mode = "serving" /\ e \in Cancelable
        /\ fz[e]["cancel"] = "idle"
    BY <1>17, CancelAlone DEF Cancel, Cancels
  <2>2. /\ co'[e].rel = co[e].rel
        /\ \/ co'[e].at = co[e].at
           \/ co[e].at = "queued" /\ co'[e].at = "done"
    BY <1>17 DEF Cancel, Disturbed, TypeOK, CoroutineType, Coroutine
  <2>3. co[e].at = "queued" =>
          /\ row[e] = "running" /\ ~pid[e] /\ ~rt[e].registered
    BY DEF Good, Scheduled
  <2>4. CASE \/ row[e] \in TERMINAL_EXECUTION
             \/ rt[e].registered
             \/ pid[e] /\ is_owned_alive(e)
    <3>1. UNCHANGED <<lock, owner, row>>
      BY <1>17, <2>4 DEF Cancel, CancelFails, files, stored
    <3>2. fz' = fz \/ rt[e].registered
      BY <1>17 DEF Cancel
    <3>3. co'[e].at = co[e].at
      BY <2>2, <2>3, <2>4 DEF TERMINAL_EXECUTION
    <3>4. Releasing(e)' => Releasing(e)
      <4>1. fz' = fz \/ fz' = [fz EXCEPT ![e]["cancel"] = "enter"]
        BY <1>17 DEF Cancel
      <4>. QED
        BY <4>1, FinalizeMoved DEF Releasing, TypeOK, Actor
    <3>. QED
      BY <2>1, <2>2, <3>1, <3>2, <3>3, <3>4, LawKept
      DEF Launching, OwnedAlive, is_owned_alive, Dormant, Lockless
  <2>5. CASE /\ row[e] \notin TERMINAL_EXECUTION /\ ~rt[e].registered
             /\ ~(pid[e] /\ is_owned_alive(e))
    <3>1. release_lock_if_owner(e) /\ fz' = fz
      BY <1>17, <2>5 DEF Cancel
    <3>2. row'[e] \in TERMINAL_EXECUTION
      BY <1>17, <2>5 DEF Cancel, TypeOK, StoredType, TERMINAL_EXECUTION
    <3>3. \A a \in Actor : fz[e][a] = "idle"
      <4>1. co[e].at \in {"none", "queued", "done"}
        BY <2>5 DEF Outcome, Awaited
      <4>. QED
        BY <2>1, <4>1 DEF Outcome, Cleaning, Closing, Actor
    <3>. QED
      BY <2>1, <2>2, <2>5, <3>1, <3>2, <3>3, LawCleared
  <2>. QED
    BY <1>17, <2>4, <2>5
<1>18. ASSUME NEW e \in Execution, CancelAnswer(e)
       PROVE  Lawful'
  <2>1. /\ UNCHANGED <<held, mode, todo, rt, thread, worker, fz, co>>
        /\ Alone(e) /\ LoopFree /\ cpc[e] # "idle"
    BY <1>18, SendAlone DEF CancelAnswer
  <2>2. /\ mode = "serving" /\ ~rt[e].registered
        /\ \A a \in Actor : fz[e][a] = "idle"
        /\ row[e] \notin TERMINAL_EXECUTION
    BY <2>1 DEF Outcome, Probing, NONTERMINAL, TERMINAL_EXECUTION
  <2>3. e \in Cancelable
    BY <2>1 DEF Plain, Undisturbed
  <2>4. CASE UNCHANGED files
    BY <2>1, <2>2, <2>3, <2>4, LawKept
    DEF files, Launching, OwnedAlive, is_owned_alive, Dormant, Lockless,
        Releasing
  <2>5. CASE release_lock_if_owner(e) /\ row' = [row EXCEPT ![e] = "canceled"]
    <3>1. row'[e] \in TERMINAL_EXECUTION
      BY <2>5 DEF TypeOK, StoredType, TERMINAL_EXECUTION
    <3>. QED
      BY <2>1, <2>2, <2>3, <2>5, <3>1, LawCleared
  <2>. QED
    BY <1>18, <2>4, <2>5 DEF CancelAnswer
<1>19. CASE Shutdown
  <2>1. /\ UNCHANGED <<lock, owner, held, rt, co, fz, cpc, thread, worker, row>>
        /\ mode = "serving" /\ mode' = "closing" /\ Up /\ Up' /\ LoopFree
        /\ todo' = {e \in Execution : rt[e].registered}
        /\ \A e \in Execution : fz[e]["cancel"] = "idle"
    BY <1>19 DEF Shutdown, files, coroutines, stored, Up, LoopFree
  <2>2. ASSUME NEW e \in Execution
        PROVE  /\ Passive(e) => Passive(e)'
               /\ Past(e) => Past(e)'
    BY <2>1 DEF Passive, Lockless, Releasing, Dormant, Past, Started
  <2>3. ASSUME NEW e \in Execution PROVE Owning(e)'
    BY <2>1 DEF Owning, Started, Launching, OwnedAlive, is_owned_alive
  <2>4. ASSUME NEW e \in Execution PROVE Plain(e)'
    <3>1. rt[e].registered /\ e \notin Cancelable =>
            rt[e].locked \/ co[e].at = "done"
      BY <1>c, <2>1 DEF Plain
    <3>2. co[e].rel # "idle" \/ Releasing(e) =>
            rt[e].registered /\ co[e].at # "done"
      <4>1. fz[e]["shutdown"] = "idle"
        BY <2>1 DEF Outcome, Closing
      <4>. QED
        BY <2>1, <4>1 DEF Releasing, Actor, Outcome, Cleaning, Interrupting,
           Awaited
    <3>3. Undisturbed(e) => Undisturbed(e)'
      BY <2>1 DEF Undisturbed
    <3>4. Releasing(e)' => Releasing(e)
      BY <2>1 DEF Releasing
    <3>. QED
      BY <2>1, <3>1, <3>2, <3>3, <3>4 DEF Plain
  <2>5. LockPresent'
    BY <2>1, <2>2 DEF Lawful, LockPresent
  <2>6. LockAgrees'
    BY <2>1, <2>2, ServerAssumption DEF Lawful, LockAgrees
  <2>. QED
    BY <2>3, <2>4, <2>5, <2>6 DEF Lawful
<1>20. ASSUME NEW e \in Execution, ShutdownFinalize(e)
       PROVE  Lawful'
  <2>1. /\ UNCHANGED <<lock, owner, held, mode, rt, co, cpc, thread, worker>>
        /\ UNCHANGED row
        /\ Alone(e) /\ mode = "closing" /\ e \in todo
        /\ fz' = [fz EXCEPT ![e]["shutdown"] = "enter"]
    BY <1>20, SendAlone DEF ShutdownFinalize, InShutdown, files, stored
  <2>2. Started(e) /\ ~Dormant(e)
    BY <2>1 DEF Good, Scheduled, Started, Dormant
  <2>3. /\ \A b \in Actor \ {"shutdown"} : fz'[e][b] = fz[e][b]
        /\ fz'[e]["shutdown"] = "enter"
    BY <2>1, FinalizeMoved DEF TypeOK, Actor
  <2>4. Releasing(e)' => Releasing(e)
    BY <2>3 DEF Releasing
  <2>5. Undisturbed(e) => Undisturbed(e)'
    BY <2>1, <2>3 DEF Undisturbed, Actor
  <2>. QED
    BY <2>1, <2>2, <2>4, <2>5, LawKept
    DEF Launching, OwnedAlive, is_owned_alive, Started, Lockless
<1>21. ASSUME UNCHANGED <<held, rt, co, fz, cpc, thread>>, ~Up',
              mode' = "starting" => mode \in {"down", "starting"},
              mode' # "down",
              \A e \in Execution : worker'[e] = "none" => worker[e] = "none",
              \A e \in Execution : is_owned_alive(e)' => is_owned_alive(e),
              owner' \in {owner, NoExecution},
              owner' # NoExecution => lock' = lock
       PROVE  Lawful'
  <2>1. ASSUME NEW e \in Execution PROVE Owning(e)'
    BY <1>21, ServerAssumption DEF Owning, Started, Launching, OwnedAlive
  <2>2. ASSUME NEW e \in Execution PROVE Plain(e)'
    BY <1>21 DEF Plain, Undisturbed, Up
  <2>3. LockPresent' /\ LockAgrees'
    BY <1>21 DEF Lawful, LockPresent, LockAgrees
  <2>. QED
    BY <2>1, <2>2, <2>3 DEF Lawful
<1>22. CASE ShutdownReconcile \/ Restart
  <2>1. /\ UNCHANGED <<files, held, coroutines, thread, worker>>
        /\ \/ mode' = "reconciling"
           \/ mode = "down" /\ mode' = "starting"
    BY <1>22 DEF ShutdownReconcile, Restart
  <2>. QED
    BY <2>1, <1>21 DEF files, coroutines, Up, is_owned_alive
<1>23. ASSUME NEW e \in Execution,
              ReconcileFailed(e) \/ ReconcileRecovery(e) \/ ReconcileRaises(e)
       PROVE  Lawful'
  <2>1. /\ UNCHANGED <<held, coroutines, thread, mode>>
        /\ mode \in {"starting", "reconciling"}
        /\ owner' \in {owner, NoExecution}
        /\ owner' # NoExecution => lock' = lock
    BY <1>23 DEF ReconcileFailed, ReconcileRecovery, ReconcileRaises,
       Reconciles, release_lock_if_owner, files
  <2>2. /\ \A f \in Execution : worker'[f] = "none" => worker[f] = "none"
        /\ \A f \in Execution : is_owned_alive(f)' => is_owned_alive(f)
    BY <1>23 DEF ReconcileFailed, ReconcileRecovery, ReconcileRaises,
       StoppedWorker, is_owned_alive, TypeOK, ProcessType
  <2>3. /\ UNCHANGED <<held, rt, co, fz, cpc, thread>> /\ ~Up'
        /\ mode' = "starting" => mode \in {"down", "starting"}
        /\ mode' # "down"
    BY <2>1 DEF coroutines, Up
  <2>. QED
    BY <2>1, <2>2, <2>3, <1>21 DEF is_owned_alive
<1>24. CASE ReconcileDone
  <2>1. CASE ~Volatile
    <3>1. /\ UNCHANGED <<files, held, coroutines, todo, thread, worker, row>>
          /\ mode = "starting" /\ mode' = "serving" /\ ~held
      BY <1>24, <2>1 DEF ReconcileDone, Lawful, LockPresent
    <3>2. ASSUME NEW e \in Execution
          PROVE  /\ co[e].at = "none" /\ thread[e] = "none"
                 /\ ~rt[e].registered /\ ~rt[e].locked
                 /\ co[e].rel = "idle"
      BY <3>1 DEF Outcome, Closing, Good, Scheduled, Owning
    <3>3. ASSUME NEW e \in Execution PROVE Owning(e)' /\ Plain(e)'
      BY <3>1, <3>2 DEF Owning, Started, Launching, Plain, Undisturbed,
         coroutines, files
    <3>4. LockPresent' /\ LockAgrees'
      BY <3>1, <3>2 DEF LockPresent, LockAgrees, Lawful, coroutines, files
    <3>. QED
      BY <3>3, <3>4 DEF Lawful
  <2>2. CASE Volatile
    BY <1>15, <1>24, <2>2 DEF ReconcileDone
  <2>. QED
    BY <2>1, <2>2
<1>25. CASE Crash
  BY <1>15, <1>25 DEF Crash
<1>26. ASSUME NEW e \in Execution, CrashBetween(e)
       PROVE  Lawful'
  <2>1. Volatile /\ lock' = lock /\ owner' \in {owner, NoExecution}
    BY <1>26 DEF CrashBetween, files
  <2>2. \A f \in Execution : worker'[f] = "none" => worker[f] = "none"
    BY <1>26 DEF CrashBetween, StoppedWorker, TypeOK, ProcessType
  <2>. QED
    BY <2>1, <2>2, LawDied
<1>27. CASE UNCHANGED vars
  BY <1>27 DEF vars, Lawful, Owning, Plain, LockPresent, LockAgrees, Past,
     Started, Leaving, Passive, Lockless, Dormant, Undisturbed, Launching, OwnedAlive,
     is_owned_alive, Releasing, Up
<1>. QED
  BY <1>1, <1>2, <1>3, <1>3a, <1>4, <1>5, <1>6, <1>7, <1>8, <1>9,
     <1>10, <1>11, <1>12, <1>13, <1>14, <1>16, <1>17, <1>18, <1>19,
     <1>20, <1>22, <1>23, <1>24, <1>25, <1>26, <1>27
  DEF Next, ExecuteStep, SpawnThread, FinalizeStep, Reconcile

\* The first server holds no lock.
LEMMA LawfulInit == Init => Lawful
<1>. SUFFICES ASSUME Init
              PROVE  Lawful
  OBVIOUS
<1>1. /\ owner = NoExecution /\ ~held
      /\ \A e \in Execution :
           /\ rt[e] = NewRuntime /\ co[e] = NewCoroutine
           /\ fz[e] = [a \in Actor |-> "idle"]
           /\ cpc[e] = "idle" /\ thread[e] = "none"
  BY DEF Init
<1>2. ASSUME NEW e \in Execution PROVE Owning(e)
  <2>1. /\ owner # e /\ ~Started(e) /\ ~Launching(e)
        /\ ~rt[e].locked /\ co[e].rel = "idle"
    BY <1>1, ServerAssumption
    DEF Started, Launching, NewRuntime, NewCoroutine
  <2>. QED
    BY <2>1 DEF Owning
<1>3. \A e \in Execution : Plain(e)
  BY <1>1 DEF Plain, Undisturbed, NewRuntime, NewCoroutine, Actor
<1>4. LockPresent /\ LockAgrees
  BY <1>1 DEF LockPresent, LockAgrees, NewRuntime
<1>. QED
  BY <1>2, <1>3, <1>4 DEF Lawful

\* What Outcomes says of a state and of a step.
LEMMA OutcomesTell ==
  /\ Outcomes => OutcomesAgree
  /\ TypeOK /\ LaunchProtocol /\ Outcomes /\ LocksThere /\ [Next]_vars =>
       [\A e \in Execution :
          row[e] \in TERMINAL_EXECUTION =>
            \/ row'[e] = row[e]
            \/ row[e] = "failed" /\ row'[e] = "recovery_required"]_vars
<1>1. Outcomes => OutcomesAgree
  <2>. SUFFICES ASSUME NEW e \in Execution, Told(e),
                       row[e] \in TERMINAL_EXECUTION, task[e] \in TERMINAL_TASK
                PROVE  \/ task[e] = TaskStateOf(row[e])
                       \/ row[e] = "failed" /\ task[e] = "CANCELED"
    BY DEF Outcomes, Outcome, OutcomesAgree
  <2>1. Agrees(row[e], task[e])
    BY DEF Told, NONTERMINAL, TERMINAL_EXECUTION
  <2>. QED
    BY <2>1 DEF Agrees, TaskStateOf, TERMINAL_EXECUTION
<1>. QED
  BY <1>1, OutcomeStep DEF Lasting, RowKept

\* Whoever is canceled: registry and Task store agree, and a terminal row keeps
\* its outcome, until a release finds that the directory it is to remove is gone
\* (ExecuteLock.release under _held, after a release_lock_if_owner).
THEOREM OutcomesWhileLocksThere ==
  Spec /\ []LocksThere => []OutcomesAgree /\ OutcomeFinal
<1>1. Spec /\ []LocksThere => [](TypeOK /\ LaunchProtocol /\ Outcomes)
  BY OutcomesInit, OutcomeStep, ProtocolHolds, TypeCorrect, PTL DEF Spec
<1>. QED
  BY <1>1, OutcomesTell, PTL DEF Spec, OutcomeFinal

\* So Outcomes holds in every behaviour with cancels of one execution.
LEMMA AlwaysOutcomes ==
  ASSUME \A e, f \in Cancelable : e = f
  PROVE  Spec => [](TypeOK /\ LaunchProtocol /\ Outcomes /\ LocksThere)
<1>1. TypeOK /\ LaunchProtocol /\ Outcomes /\ Lawful /\ [Next]_vars
        => Outcomes' /\ Lawful'
  BY OutcomeStep, LawfulStep, LawfulLocksThere
<1>. QED
  BY <1>1, OutcomesInit, LawfulInit, LawfulLocksThere, ProtocolHolds,
     TypeCorrect, PTL DEF Spec

\* Registry and Task store tell a client the same outcome, but for a failed row
\* with a CANCELED Task, through deadlines, cancels, shutdowns, kills and
\* restarts (finalize, cancel, _persist_failed, _heal_terminal_tasks), of any
\* number of executions of which at most one is ever canceled.
THEOREM OutcomesAgreeHolds ==
  ASSUME \A e, f \in Cancelable : e = f
  PROVE  Spec => []OutcomesAgree
<1>. QED
  BY AlwaysOutcomes, OutcomesTell, PTL

\* A terminal row keeps its outcome (update_execution by finalize, cancel and
\* _reconcile_claim), under the same hypothesis.
THEOREM OutcomeFinalHolds ==
  ASSUME \A e, f \in Cancelable : e = f
  PROVE  Spec => OutcomeFinal
<1>. QED
  BY AlwaysOutcomes, OutcomesTell, PTL DEF Spec, OutcomeFinal
-----------------------------------------------------------------------------
(***************************************************************************)
(* A completed execution leaves no lock, cancels included.  Reports is     *)
(* inductive relative to LaunchProtocol.  A completed execution keeps the  *)
(* lock only until the end of finally: safe_release finds no owned process *)
(* alive and the lock it created, and only an interruption, which the exit *)
(* remembers, skips it.                                                    *)
(***************************************************************************)

\* An execution whose lock directory is there has been dispatched, and its
\* server, if it is still up, has the lock and says so ...
Holding(e) ==
  /\ lock = e => row[e] \notin {"none", "claimed"} /\ co[e].at # "queued"
  /\ lock = e /\ co[e].at # "none" => rt[e].locked /\ held
  /\ rt[e].owned => worker[e] # "recycled"

\* ... and once completed it is about to give it back, or was interrupted.
Reporting(e) ==
  row[e] = "completed" /\ lock = e /\ co[e].at # "none" =>
    /\ co[e].at \notin {"spawning", "waiting", "exited", "expired", "deadline"}
    /\ co[e].exit = "cancel" \/ (co[e].at = "finally" /\ co[e].exit = "return")

Report(e) == Holding(e) /\ Reporting(e)
Reports == \A e \in Execution : Report(e)

\* It is enough to look at the execution that moves.
LEMMA ReportTaken ==
  ASSUME Reports, NEW e \in Execution, Alone(e), Report(e)',
         UNCHANGED <<lock, held>> \/ lock' \in {e, NoExecution}
  PROVE  Reports'
<1>1. ASSUME NEW f \in Execution \ {e} PROVE Report(f)'
  <2>1. /\ UNCHANGED <<row[f], worker[f], rt[f], co[f]>>
        /\ lock' = f => lock = f /\ held' = held
    BY ServerAssumption DEF Alone, Untouched, ServerAssumption
  <2>. QED
    BY <2>1 DEF Reports, Report, Holding, Reporting
<1>. QED
  BY <1>1 DEF Reports

\* After the process has ended nothing is said of an execution's lock.
LEMMA ReportsDied ==
  ASSUME Reports, Volatile, lock' = lock,
         \A e \in Execution :
           row'[e] \in {"none", "claimed"} => row[e] \in {"none", "claimed"}
  PROVE  Reports'
<1>1. \A e \in Execution : rt'[e] = NewRuntime /\ co'[e] = NewCoroutine
  BY DEF Volatile
<1>. QED
  BY <1>1 DEF Reports, Report, Holding, Reporting, NewRuntime, NewCoroutine

\* A step of e that leaves the lock and where execute stands alone.
LEMMA ReportKept ==
  ASSUME Reports, NEW e \in Execution, Alone(e), UNCHANGED <<lock, held>>,
         co'[e].at = co[e].at, co'[e].exit = co[e].exit,
         rt'[e].locked = rt[e].locked,
         rt'[e].owned => worker'[e] # "recycled",
         row'[e] \in {"none", "claimed"} => row[e] \in {"none", "claimed"}
           \/ lock # e,
         row'[e] = "completed" => row[e] = "completed"
  PROVE  Reports'
<1>1. Report(e)'
  BY DEF Reports, Report, Holding, Reporting
<1>. QED
  BY <1>1, ReportTaken

\* Every step keeps it.
LEMMA ReportStep ==
  TypeOK /\ LaunchProtocol /\ Reports /\ [Next]_vars => Reports'
<1>. SUFFICES ASSUME TypeOK, LaunchProtocol, Reports, [Next]_vars
              PROVE  Reports'
  OBVIOUS
<1>. \A e \in Execution : Good(e) /\ Report(e)
  BY DEF LaunchProtocol, Good, SettledIsStopped, Settled, Reports
<1>a. ASSUME NEW e \in Execution, lock = e, Started(e)
      PROVE  ~UnlockRaises /\ held /\ rt[e].locked
  BY <1>a, ServerAssumption
  DEF Started, Report, Holding, UnlockRaises, ServerAssumption
<1>b. ASSUME NEW e \in Execution, row[e] = "completed"
      PROVE  ~OwnedAlive(e)
  BY <1>b DEF Good, Settled, Report, Holding, OwnedAlive, is_owned_alive
<1>1. ASSUME NEW e \in Execution,
             \/ Send(e) \/ SaveTask(e) \/ SpawnThread(e)
             \/ CancelStop(e) \/ CancelReturns(e) \/ ShutdownFinalize(e)
             \/ CloseGateForRelease(e) \/ WorkerExits(e) \/ PidRecycled(e)
             \/ StrangerExits(e)
      PROVE  Reports'
  <2>1. Alone(e) /\ UNCHANGED <<lock, held>>
    BY <1>1, SendAlone DEF Send, SaveTask, SpawnThread, Launch, WriteOwner,
       RecordPid, SpawnRaises, CancelStop, CancelReturns, ShutdownFinalize,
       CloseGateForRelease, WorkerExits, PidRecycled, StrangerExits, files
  <2>2. UNCHANGED <<co[e].at, co[e].exit, rt[e].locked>>
    BY <1>1 DEF Send, SaveTask, SpawnThread, Launch, WriteOwner, RecordPid,
       SpawnRaises, CancelStop, CancelReturns, ShutdownFinalize,
       CloseGateForRelease, WorkerExits, PidRecycled, StrangerExits,
       coroutines, TypeOK, RuntimeType, Runtime, CoroutineType, Coroutine
  <2>3. rt'[e].owned => worker'[e] # "recycled"
    BY <1>1 DEF Send, SaveTask, SpawnThread, Launch, WriteOwner, RecordPid,
       SpawnRaises, CancelStop, CancelReturns, ShutdownFinalize,
       CloseGateForRelease, WorkerExits, PidRecycled, StrangerExits,
       coroutines, TypeOK, RuntimeType, Runtime, ProcessType, Report, Holding
  <2>4. /\ row'[e] \in {"none", "claimed"} => row[e] \in {"none", "claimed"}
        /\ row'[e] = "completed" => row[e] = "completed"
    BY <1>1 DEF Send, SaveTask, SpawnThread, Launch, WriteOwner, RecordPid,
       SpawnRaises, CancelStop, CancelReturns, ShutdownFinalize,
       CloseGateForRelease, WorkerExits, PidRecycled, StrangerExits,
       stored, TypeOK, StoredType
  <2>. QED
    BY <2>1, <2>2, <2>3, <2>4, ReportKept
<1>2. ASSUME NEW e \in Execution, Dispatch(e) \/ WaitOwned(e)
      PROVE  Reports'
  <2>1. Alone(e) /\ UNCHANGED <<lock, held, rt, worker>>
    BY <1>2, SendAlone DEF Dispatch, WaitOwned, files
  <2>2. /\ co'[e].exit = co[e].exit
        /\ \/ row'[e] = row[e] /\ co'[e].at = co[e].at
           \/ row[e] = "claimed" /\ row'[e] = "running"
           \/ /\ row'[e] = row[e] /\ co[e].at = "waiting"
              /\ co'[e].at \in {"exited", "expired"}
    BY <1>2 DEF Dispatch, WaitOwned, try_dispatch, Goto, stored, TypeOK,
       StoredType, CoroutineType, Coroutine
  <2>3. Report(e)'
    BY <2>1, <2>2 DEF Report, Holding, Reporting
  <2>. QED
    BY <2>1, <2>3, ReportTaken
<1>3. ASSUME NEW e \in Execution,
             Reject(e) \/ Prepare(e) \/ PrepareRaises(e) \/ EvidenceFails(e)
      PROVE  Reports'
  <2>1. /\ Alone(e) /\ UNCHANGED worker
        /\ UNCHANGED <<lock, held>> \/ lock' \in {e, NoExecution}
    BY <1>3, ExecuteAlone DEF ExecuteStep, Reject, Prepare, PrepareRaises,
       EvidenceFails, files
  <2>2. /\ row[e] = "running" /\ ~rt[e].owned /\ lock # e
        /\ co[e].at = "queued" /\ e # NoExecution
    BY <1>3, ServerAssumption DEF Reject, Prepare, PrepareRaises,
       EvidenceFails, Good, Scheduled, Report, Holding, ServerAssumption
  <2>3. UNCHANGED rt[e].owned
    BY <1>3 DEF Reject, Prepare, PrepareRaises, EvidenceFails, Leave, TypeOK,
       RuntimeType, Runtime
  <2>4. \/ row'[e] = "running" /\ co'[e].at # "queued"
        \/ row'[e] = "rejected" /\ lock' = lock
    <3>1. CASE Reject(e)
      BY <3>1 DEF Reject, files, TypeOK, StoredType
    <3>2. CASE Prepare(e) \/ PrepareRaises(e) \/ EvidenceFails(e)
      BY <2>2, <3>2 DEF Prepare, PrepareRaises, EvidenceFails, Goto, Leave,
         stored, TypeOK, CoroutineType, Coroutine
    <3>. QED
      BY <1>3, <3>1, <3>2
  <2>5. lock' = e => row'[e] = "running" /\ rt'[e].locked /\ held'
    BY <1>3, <2>2 DEF Reject, Prepare, PrepareRaises, EvidenceFails, Leave,
       stored, files, TypeOK, StoredType, RuntimeType, Runtime
  <2>6. Report(e)'
    BY <2>1, <2>2, <2>3, <2>4, <2>5 DEF Report, Holding, Reporting
  <2>. QED
    BY <2>1, <2>6, ReportTaken
<1>4. ASSUME NEW e \in Execution,
             \/ SpawnReturned(e) \/ DeliverNothing(e) \/ Expire(e)
             \/ \E outcome \in {"completed", "failed"} : Deliver(e, outcome)
             \/ Except(e) \/ Outer(e) \/ Drained(e) \/ Pop(e)
             \/ ExecuteResumes(e)
      PROVE  Reports'
  <2>1. Alone(e) /\ UNCHANGED <<lock, held, worker>>
    BY <1>4, ExecuteAlone DEF ExecuteStep, SpawnReturned, DeliverNothing,
       Expire, Deliver, Except, Outer, Drained, Pop, ExecuteResumes, files
  <2>2. /\ UNCHANGED <<rt[e].locked, rt[e].owned>>
        /\ co[e].at \notin {"none", "queued"} /\ co'[e].at # "queued"
        /\ row'[e] \in {"none", "claimed"} => row[e] \in {"none", "claimed"}
    BY <1>4 DEF SpawnReturned, DeliverNothing, Expire, Deliver, Except, Outer,
       Drained, Pop, ExecuteResumes, Goto, Leave, stored, TypeOK, StoredType,
       RuntimeType, Runtime, CoroutineType, Coroutine
  <2>3. Holding(e)'
    BY <2>1, <2>2 DEF Report, Holding
  <2>4. Reporting(e)'
    BY <1>4, <2>1, <2>2 DEF SpawnReturned, DeliverNothing, Expire, Deliver,
       Except, Outer, Drained, Pop, ExecuteResumes, Goto, Leave, stored,
       TypeOK, StoredType, CoroutineType, Coroutine, Report, Reporting
  <2>. QED
    BY <2>1, <2>3, <2>4, ReportTaken DEF Report
<1>5. ASSUME NEW e \in Execution, Finally(e)
      PROVE  Reports'
  <2>1. Alone(e) /\ UNCHANGED <<lock, held, worker, rt, row>>
    BY <1>5, ExecuteAlone DEF ExecuteStep, Finally, files, stored
  <2>2. /\ co[e].at = "finally" /\ co'[e].at \in {"finally", "except"}
        /\ co'[e].exit = co[e].exit
        /\ rt[e].locked /\ ~OwnedAlive(e) => co'[e].at = "finally"
    BY <1>5 DEF Finally, Goto, TypeOK, CoroutineType, Coroutine
  <2>3. Holding(e)'
    BY <2>1, <2>2 DEF Report, Holding
  <2>4. Reporting(e)'
    BY <1>a, <1>b, <2>1, <2>2 DEF Report, Reporting, Started
  <2>. QED
    BY <2>1, <2>3, <2>4, ReportTaken DEF Report
<1>6. ASSUME NEW e \in Execution, ReleaseIfSafe(e)
      PROVE  Reports'
  <2>1. Alone(e) /\ UNCHANGED <<worker, row>> /\ Started(e)
    BY <1>6, ExecuteAlone DEF ExecuteStep, ReleaseIfSafe, stored, Good,
       Scheduled, Started
  <2>2. UNCHANGED <<lock, held>> \/ lock' \in {e, NoExecution}
    BY <1>6 DEF ReleaseIfSafe, Unlock, UnlockRaises, files, TypeOK, ServerType
  <2>3. CASE OwnedAlive(e)
    <3>1. /\ UNCHANGED <<lock, held, rt>> /\ row[e] # "completed"
          /\ co'[e].at \in {"except", "outer", "pop"}
      BY <1>6, <1>b, <2>3 DEF ReleaseIfSafe, AfterRelease, files, TypeOK,
         CoroutineType, Coroutine
    <3>2. Report(e)'
      BY <2>1, <3>1 DEF Report, Holding, Reporting, Started
    <3>. QED
      BY <2>1, <2>2, <3>2, ReportTaken
  <2>4. CASE ~OwnedAlive(e)
    <3>1. lock' # e
      BY <1>6, <1>a, <2>1, <2>4, ServerAssumption
      DEF ReleaseIfSafe, Unlock, UnlockRaises, files, ServerAssumption
    <3>2. rt'[e].owned = rt[e].owned
      BY <1>6 DEF ReleaseIfSafe, TypeOK, RuntimeType, Runtime
    <3>3. Report(e)'
      BY <2>1, <3>1, <3>2 DEF Report, Holding, Reporting
    <3>. QED
      BY <2>1, <2>2, <3>3, ReportTaken
  <2>. QED
    BY <2>3, <2>4
<1>7. ASSUME NEW e \in Execution, Interrupted(e)
      PROVE  Reports'
  <2>1. Alone(e) /\ UNCHANGED <<lock, held, worker, row>> /\ Started(e)
    BY <1>7, ExecuteAlone DEF ExecuteStep, Interrupted, files, stored, Good,
       Scheduled, Started
  <2>2. /\ UNCHANGED <<rt[e].locked, rt[e].owned>>
        /\ co'[e].at \in {"finally", "except", "outer", "done"}
        /\ co'[e].exit = "cancel"
    BY <1>7 DEF Interrupted, AfterInterrupt, TypeOK, RuntimeType, Runtime,
       CoroutineType, Coroutine
  <2>3. Report(e)'
    BY <2>1, <2>2 DEF Report, Holding, Reporting, Started
  <2>. QED
    BY <2>1, <2>3, ReportTaken
<1>8. ASSUME NEW e \in Execution, NEW a \in Actor, ~Volatile,
             \/ FinalizeEnter(e, a) \/ FinalizeThread(e, a)
             \/ FinalizeGated(e, a) \/ FinalizeRecovery(e, a)
             \/ FinalizeSettle(e, a) \/ FinalizeRelease(e, a)
      PROVE  Reports'
  <2>1. /\ Alone(e) /\ co' = co
        /\ UNCHANGED <<lock, held>> \/ lock' \in {e, NoExecution}
    BY <1>8, FinalizeStepAlone DEF FinalizeStep, FinalizeEnter,
       FinalizeThread, FinalizeGate, FinalizeStop, FinalizeGated,
       FinalizeRecovery, FinalizeSettle, FinalizeRelease, files,
       release_lock_if_owner, UnlockRaises, TypeOK, ServerType
  <2>2. rt'[e].owned => worker'[e] # "recycled"
    BY <1>8 DEF FinalizeEnter, FinalizeThread, FinalizeGate, FinalizeStop,
       FinalizeGated, FinalizeRecovery, FinalizeSettle, FinalizeRelease,
       Report, Holding, TypeOK, RuntimeType, Runtime, ProcessType
  <2>3. /\ row'[e] \in {"none", "claimed"} => row[e] \in {"none", "claimed"}
        /\ row'[e] = "completed" => row[e] = "completed"
    BY <1>8 DEF FinalizeEnter, FinalizeThread, FinalizeGate, FinalizeStop,
       FinalizeGated, FinalizeRecovery, FinalizeSettle, FinalizeRelease, Kind,
       stored, TypeOK, StoredType
  <2>4. Started(e)
    BY <1>8 DEF FinalizeEnter, FinalizeThread, FinalizeGate, FinalizeStop,
       FinalizeGated, FinalizeRecovery, FinalizeSettle, FinalizeRelease, Good,
       Scheduled, Started
  <2>5. lock' = e => lock = e /\ rt'[e].locked = rt[e].locked /\ held' = held
    <3>1. CASE FinalizeRelease(e, a)
      BY <1>a, <2>4, <3>1, ServerAssumption DEF FinalizeRelease, files,
         TypeOK, RuntimeType, Runtime, ServerAssumption
    <3>2. CASE ~FinalizeRelease(e, a)
      BY <1>8, <3>2, ServerAssumption DEF FinalizeEnter,
         FinalizeThread, FinalizeGate, FinalizeStop, FinalizeGated,
         FinalizeRecovery, FinalizeSettle, files, release_lock_if_owner,
         TypeOK, RuntimeType, Runtime, ServerAssumption
    <3>. QED
      BY <3>1, <3>2
  <2>6. Report(e)'
    BY <2>1, <2>2, <2>3, <2>4, <2>5 DEF Report, Holding, Reporting, Started
  <2>. QED
    BY <2>1, <2>6, ReportTaken
<1>9. ASSUME Volatile, lock' = lock,
             \A e \in Execution :
               row'[e] \in {row[e], "failed", "canceled", "recovery_required"}
      PROVE  Reports'
  BY <1>9, ReportsDied
<1>10. ASSUME NEW e \in Execution, NEW a \in Actor, FinalizeRaises(e, a)
       PROVE  Reports'
  <2>1. CASE Volatile
    BY <1>9, <1>10, <2>1 DEF FinalizeRaises, stored, files
  <2>2. CASE ~Volatile
    <3>1. Alone(e) /\ UNCHANGED <<lock, held, worker, row>>
      BY <1>10, <2>2, FinalizeStepAlone DEF FinalizeStep, FinalizeRaises,
         files, stored
    <3>2. UNCHANGED <<rt[e].locked, rt[e].owned>>
      BY <1>10, <2>2 DEF FinalizeRaises, TypeOK, RuntimeType, Runtime
    <3>3. \/ co' = co
          \/ /\ co[e].at \in {"deadline", "handler", "outer_stop"}
             /\ co'[e].at \in {"finally", "outer", "done"}
             /\ co[e].at = "deadline" \/ co'[e].exit = co[e].exit
      BY <1>10, <2>2 DEF FinalizeRaises, Leave, Goto, TypeOK, CoroutineType,
         Coroutine
    <3>4. Report(e)'
      BY <3>1, <3>2, <3>3 DEF Report, Holding, Reporting
    <3>. QED
      BY <3>1, <3>4, ReportTaken
  <2>. QED
    BY <2>1, <2>2
<1>11. ASSUME NEW e \in Execution, Cancel(e) \/ CancelAnswer(e)
       PROVE  Reports'
  <2>1. /\ Alone(e) /\ UNCHANGED <<worker, rt, held>>
        /\ lock' \in {lock, NoExecution}
    BY <1>11, SendAlone, CancelAlone DEF Cancel, CancelAnswer, files,
       release_lock_if_owner
  <2>2. /\ row'[e] \in {"none", "claimed"} => row[e] \in {"none", "claimed"}
        /\ row'[e] = "completed" => row[e] = "completed"
    BY <1>11 DEF Cancel, CancelAnswer, stored, TypeOK, StoredType
  <2>3. /\ co'[e].exit = co[e].exit
        /\ \/ co'[e].at = co[e].at
           \/ co[e].at = "queued" /\ co'[e].at = "done"
    BY <1>11 DEF Cancel, CancelAnswer, Disturbed, TypeOK, CoroutineType,
       Coroutine
  <2>4. Report(e)'
    BY <2>1, <2>2, <2>3, ServerAssumption
    DEF Report, Holding, Reporting, ServerAssumption
  <2>. QED
    BY <2>1, <2>4, ReportTaken
<1>12. ASSUME UNCHANGED <<lock, held, rt, co>>,
              \A e \in Execution :
                /\ row'[e] \in {row[e], "failed", "recovery_required"}
                /\ worker'[e] \in {worker[e], "dead"}
       PROVE  Reports'
  BY <1>12 DEF Reports, Report, Holding, Reporting
<1>13. CASE Shutdown \/ ShutdownReconcile \/ Restart \/ UNCHANGED vars
  BY <1>12, <1>13 DEF Shutdown, ShutdownReconcile, Restart, vars, stored,
     files, coroutines
<1>14. ASSUME NEW e \in Execution, Reconciles(e),
              \/ ReconcileFailed(e) \/ ReconcileRecovery(e)
              \/ ReconcileRaises(e)
       PROVE  Reports'
  <2>1. /\ UNCHANGED <<held, rt, co>> /\ lock' \in {lock, NoExecution}
        /\ \A f \in Execution :
             /\ row'[f] \in {row[f], "failed", "recovery_required"}
             /\ worker'[f] \in {worker[f], "dead"}
    BY <1>14 DEF ReconcileFailed, ReconcileRecovery, ReconcileRaises, files,
       coroutines, release_lock_if_owner, StoppedWorker, TypeOK,
       StoredType, ProcessType
  <2>. QED
    BY <2>1, ServerAssumption
    DEF Reports, Report, Holding, Reporting, ServerAssumption
<1>15. CASE ReconcileDone
  <2>1. CASE Volatile
    BY <1>9, <1>15, <2>1 DEF ReconcileDone, files
  <2>2. CASE ~Volatile
    BY <1>12, <1>15, <2>2 DEF ReconcileDone, files, coroutines
  <2>. QED
    BY <2>1, <2>2
<1>16. CASE Crash
  BY <1>9, <1>16 DEF Crash, stored, files
<1>17. ASSUME NEW e \in Execution, CrashBetween(e)
       PROVE  Reports'
  <2>1. Volatile /\ lock' = lock
    BY <1>17 DEF CrashBetween, files
  <2>2. \A f \in Execution :
          row'[f] \in {row[f], "failed", "canceled", "recovery_required"}
    BY <1>17 DEF CrashBetween, Kind, stored, TypeOK, StoredType
  <2>. QED
    BY <1>9, <2>1, <2>2
<1>18. ASSUME NEW e \in Execution, NEW a \in Actor,
              \/ FinalizeEnter(e, a) \/ FinalizeThread(e, a)
              \/ FinalizeGated(e, a) \/ FinalizeRecovery(e, a)
              \/ FinalizeSettle(e, a) \/ FinalizeRelease(e, a), Volatile
       PROVE  FALSE
  BY <1>18 DEF FinalizeEnter, FinalizeThread, FinalizeGate, FinalizeStop,
     FinalizeGated, FinalizeRecovery, FinalizeSettle, FinalizeRelease,
     FinalizeRuns, Runs, LoopFree, Up, Volatile
<1>. QED
  BY <1>1, <1>2, <1>3, <1>4, <1>5, <1>6, <1>7, <1>8, <1>10, <1>11, <1>13,
     <1>14, <1>15, <1>16, <1>17, <1>18
  DEF Next, ExecuteStep, FinalizeStep, Reconcile, ReconcileFailed,
      ReconcileRecovery, ReconcileRaises

\* The first server holds no lock.
LEMMA ReportsInit == Init => Reports
<1>. SUFFICES ASSUME Init, NEW e \in Execution
              PROVE  Report(e)
  BY DEF Reports
<1>1. /\ lock # e /\ rt[e] = NewRuntime /\ co[e] = NewCoroutine
      /\ row[e] = "none"
  BY ServerAssumption DEF Init, ServerAssumption
<1>. QED
  BY <1>1 DEF Report, Holding, Reporting, NewRuntime, NewCoroutine

\* Once the execute of a completed execution has ended, its lock is given
\* back, as the artifacts say, unless a CancelledError reached execute in its
\* last await (server.py:1080) and the runtime still says that it has it:
\* whatever executions and cancels there are, through shutdowns, kills and
\* restarts.
THEOREM ReportedUnlockedHolds == Spec => []ReportedUnlocked
<1>1. Reports => ReportedUnlocked
  BY DEF Reports, Report, Holding, Reporting, ReportedUnlocked
<1>. QED
  BY <1>1, ReportsInit, ReportStep, ProtocolHolds, TypeCorrect, PTL DEF Spec
=============================================================================
