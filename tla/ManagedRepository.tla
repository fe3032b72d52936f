-------------------------- MODULE ManagedRepository --------------------------
(***************************************************************************)
(* What `handoff init' promises of a repository: to everybody who looks at *)
(* .handoff-config.json it is either not managed, or managed with all that *)
(* a service needs.  It becomes managed in one step, and stops being       *)
(* managed only while an attempt is open that has written the              *)
(* configuration and may take it back.  The promise ends when a setup is   *)
(* spoilt: its undo has failed or was cut short.  Installation is shown to *)
(* implement this.                                                         *)
(***************************************************************************)
CONSTANTS
  Server, Token, Config,   \* contents of the three files
  NotManaged

VARIABLES
  seen,     \* what the client configuration leads to
  open,     \* an attempt may still take the configuration back
  spoilt    \* nothing is promised any more

Managed == [server : Server, token : Token, config : Config]

Init ==
  /\ seen \in Managed \cup {NotManaged}
  /\ open = FALSE /\ spoilt = FALSE

\* An attempt sets the repository up, or puts back what it has taken away.
SetUp ==
  /\ seen = NotManaged
  /\ seen' \in Managed
  /\ open \/ open'

\* Later changes are to the configuration only: the selection is changed by
\* `handoff model', and the credential stays.
Reconfigure ==
  /\ seen # NotManaged
  /\ \E c \in Config : seen' = [seen EXCEPT !.config = c]

Withdraw ==
  /\ seen # NotManaged /\ open
  /\ seen' = NotManaged

\* An attempt begins to write the configuration, or is over.
Attempt == open' # open /\ seen' = seen

Next ==
  \/ ~spoilt' /\ (SetUp \/ Reconfigure \/ Withdraw \/ Attempt)
  \/ spoilt'

Spec == Init /\ [][Next]_<<seen, open, spoilt>>
=============================================================================
