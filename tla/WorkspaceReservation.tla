------------------------ MODULE WorkspaceReservation ------------------------
(***************************************************************************)
(* What the server promises about the workspace it was configured with:    *)
(* executions take turns.  An execution reserves the workspace, starts at  *)
(* most one worker under that reservation, and the reservation ends only   *)
(* when the worker has.  ExecutionServer is shown to implement this.       *)
(***************************************************************************)
EXTENDS TLAPS

CONSTANTS
  Execution,    \* execution ids
  NoExecution   \* nobody's reservation

VARIABLES
  holder,    \* the execution that has the workspace
  working,   \* executions whose worker runs
  ran        \* executions that have had a worker

vars == <<holder, working, ran>>

Init ==
  /\ holder = NoExecution
  /\ working = {}
  /\ ran = {}

Reserve(e) ==
  /\ holder = NoExecution /\ e \notin ran
  /\ holder' = e
  /\ UNCHANGED <<working, ran>>

Start(e) ==
  /\ holder = e /\ e \notin ran
  /\ working' = working \cup {e}
  /\ ran' = ran \cup {e}
  /\ UNCHANGED holder

Stop(e) ==
  /\ e \in working
  /\ working' = working \ {e}
  /\ UNCHANGED <<holder, ran>>

\* The reservation ends after the worker, or in the step that stops it.
Release(e) ==
  /\ holder = e
  /\ holder' = NoExecution
  /\ working' = working \ {e}
  /\ UNCHANGED ran

Next == \E e \in Execution : Reserve(e) \/ Start(e) \/ Stop(e) \/ Release(e)

Spec == Init /\ [][Next]_vars

\* A worker runs only for the execution that has the workspace, so there is
\* never more than one.
OneWorker == working \subseteq {holder} \cap Execution

\* The reservation protocol admits no two workers in the workspace at a time.
THEOREM Exclusive == ASSUME NoExecution \notin Execution
                     PROVE  Spec => []OneWorker
<1>1. Init => OneWorker
  BY DEF Init, OneWorker
<1>2. OneWorker /\ [Next]_vars => OneWorker'
  <2>. SUFFICES ASSUME OneWorker, Next
                PROVE  OneWorker'
    BY DEF OneWorker, vars
  <2>1. ASSUME NEW e \in Execution, Reserve(e)
        PROVE  OneWorker'
    BY <2>1, NoExecution \notin Execution DEF OneWorker, Reserve
  <2>2. ASSUME NEW e \in Execution, Start(e)
        PROVE  OneWorker'
    BY <2>2 DEF OneWorker, Start
  <2>3. ASSUME NEW e \in Execution, Stop(e)
        PROVE  OneWorker'
    BY <2>3 DEF OneWorker, Stop
  <2>4. ASSUME NEW e \in Execution, Release(e)
        PROVE  OneWorker'
    BY <2>4 DEF OneWorker, Release
  <2>. QED
    BY <2>1, <2>2, <2>3, <2>4 DEF Next
<1>. QED
  BY <1>1, <1>2, PTL DEF Spec
=============================================================================
