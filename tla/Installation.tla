---------------------------- MODULE Installation ----------------------------
(***************************************************************************)
(* Installation of the managed integration in a repository: `handoff       *)
(* init' for a new, a manually configured and a managed repository, with   *)
(* its rollback journal (setup.py), `handoff skill install' (skills.py)    *)
(* and `handoff mode' (selection.py).                                      *)
(*                                                                         *)
(* Commands are processes that write the same files.  init and mode take   *)
(* service.lock, skill install takes no lock.  Every step may raise; init  *)
(* then undoes what its journal says, file by file, and each of these      *)
(* undos may itself fail, which nobody hears of.  A command may be killed  *)
(* between its steps, which leaves files and lock as they are.             *)
(***************************************************************************)
EXTENDS Naturals, Sequences

CONSTANTS
  Process,        \* commands that may run at the same time
  NoProcess,
  Absent,         \* instead of the contents of a file that is not there
  NotManaged,     \* see ManagedRepository
  Mode,           \* the run modes of handoff mode, drive and watch
  Commands,       \* bound: the commands that are used
  MaxCommands,    \* bound: how many of them
  MaxFaults       \* bound: commands that are killed, and undos that fail

ASSUME InstallationAssumption ==
  /\ NoProcess \notin Process
  /\ "unset" \notin Mode
  /\ Commands \subseteq {"init", "skill", "mode"}
  /\ MaxCommands \in Nat \ {0} /\ MaxFaults \in Nat

VARIABLES
  file,           \* the contents of each file
  serviceLock,    \* who made the service.lock directory
  cli,            \* what each command is doing
  spoilt,         \* history: the configuration or the token of a setup that
                  \* failed or was killed is not as it should be
  given, faults   \* counters for the bounds

vars == <<file, serviceLock, cli, spoilt, given, faults>>
counters == <<given, faults>>

-----------------------------------------------------------------------------
(* Files.  The contents of a file are the set of things it holds.          *)

\* .handoff-config.json, .handoff-logs/server.json, the service token,
\* .git/info/exclude, HANDOFF.md, the copy of a manual configuration (a part
\* of one counts as none), history.jsonl, and the project's skill folder of one
\* planner host.
File == {"config", "server", "token", "excludes", "handoff", "backup",
         "history", "skill"}

Number == 1..MaxCommands

\* A configuration that was cut off while it was written can be read as none.
\* A token belongs to the command that made it, unless it is empty; a line of
\* the history to the command that appended it.  A skill folder holds a part of
\* a copy, this or an earlier release, or what a removal that was not finished
\* has left, perhaps with the install marker, or what a user made.
Managed == [config : {"managed"}, mode : Mode \cup {"unset"}, planner : BOOLEAN]
Manual == [config |-> "manual", mode |-> "unset", planner |-> FALSE]
Damaged == [config |-> "damaged", mode |-> "unset", planner |-> FALSE]
Credential == {{n} : n \in Number \cup {0}}
Copy == [copy : {"part", "new", "old", "raided", "user"}, marker : BOOLEAN]
Fresh == [copy |-> "new", marker |-> TRUE]

Content(f) ==
  CASE f = "config"   -> Managed \cup {Manual, Damaged}
    [] f = "backup"   -> Managed \cup {Manual, Damaged}
    [] f = "server"   -> {"selection"}
    [] f = "token"    -> {{}} \cup Credential
    [] f = "excludes" -> SUBSET {"generated", "skill"}
    [] f = "handoff"  -> {"template", "task"}
    [] f = "history"  -> SUBSET Number
    [] f = "skill"    -> Copy

ASSUME AbsentAssumption ==
  /\ \A f \in File : \A c \in Content(f) : c # Absent
  /\ NotManaged \notin [server : Content("server"), token : Credential,
                       config : Managed]

IsManaged(c) == c # Absent /\ c.config = "managed"
IsManual(c) == c # Absent /\ c.config = "manual"

\* What is left when write_bytes has opened a file; no other file is modified.
Cut(f) ==
  CASE f = "config" -> Damaged
    [] f \in {"excludes", "history"} -> {}
    [] OTHER -> file[f]

\* tree_digest against the source, the marker and KNOWN_RELEASE_DIGESTS:
\* whatever is neither this release nor an unmodified earlier one is foreign.
skill_state(c) ==
  CASE c = Absent -> "absent"
    [] c # Absent /\ c.copy = "new" -> "current"
    [] c # Absent /\ c.copy = "old" -> "outdated"
    [] OTHER -> "foreign"

-----------------------------------------------------------------------------
(* The journal of an attempt: the former contents of files it has modified *)
(* and, in order, the files it has created.                                *)

JournalOK(journal) ==
  /\ \A f \in File : journal.modified[f] \in Content(f) \cup {Absent}
  /\ journal.created \in Seq(File)

NoJournal == [modified |-> [f \in File |-> Absent], created |-> <<>>]

Created(journal) == {journal.created[i] : i \in DOMAIN journal.created}

\* before_write keeps what a file held before the first write.
BeforeWrite(journal, f) ==
  IF f \in Created(journal) \/ journal.modified[f] # Absent THEN journal
  ELSE IF file[f] = Absent
  THEN [journal EXCEPT !.created = Append(@, f)]
  ELSE [journal EXCEPT !.modified[f] = file[f]]

-----------------------------------------------------------------------------

\* Places of an init after its lock, of the installer of a skill, and others.
Attempting == {"check", "backup", "token", "secret", "server", "excludes",
               "exclude", "handoff", "skill", "update", "config", "history",
               "report"}
Installing == {"journal", "copy", "copying", "marker", "retire", "swap", "raze"}
Ending == {"rollback", "rewrite", "unlock"}
Places == Attempting \cup Installing \cup Ending
          \cup {"idle", "lock", "mode", "release", "append"}

\* Of a command: its options, the kind of configuration it has loaded before
\* the lock, its copy of the exclude file, its journal, whether the nested
\* journal of install_planner_skill names the skill folder, and the file its
\* rollback has opened; for the properties the files it found, and those whose
\* undo has failed.
CommandOK(c) ==
  /\ c.pc \in Places /\ c.name \in {"none", "init", "skill", "mode"}
  /\ c.number \in Number \cup {0}
  /\ c.existing \in {"none", "manual", "managed"}
  /\ c.planner \in BOOLEAN /\ c.mode \in Mode \cup {"unset"}
  /\ c.excludes \in Content("excludes")
  /\ JournalOK(c.journal) /\ c.nested \in BOOLEAN
  /\ c.open \in File \cup {"none"}
  /\ \A f \in File : c.before[f] \in Content(f) \cup {Absent}
  /\ c.failed \subseteq File

Done == [pc |-> "idle", name |-> "none", number |-> 0, existing |-> "none",
         planner |-> FALSE, mode |-> "unset", excludes |-> {},
         journal |-> NoJournal, nested |-> FALSE, open |-> "none",
         before |-> [f \in File |-> Absent], failed |-> {}]

At(p, place) == cli[p].pc = place
In(p, places) == cli[p].pc \in places
Named(p, name) == cli[p].name = name
Goto(p, place) == cli' = [cli EXCEPT ![p].pc = place]
Ends(p) == cli' = [cli EXCEPT ![p] = Done]

\* A journaled write of an init.
Writes(p, f, content, place) ==
  /\ file' = [file EXCEPT ![f] = content]
  /\ cli' = [cli EXCEPT ![p].journal = BeforeWrite(@, f), ![p].pc = place]

\* Where a command holds service.lock.
Holds(p) ==
  /\ serviceLock = p /\ cli[p].name \in {"init", "mode"}
  /\ cli[p].pc \notin {"idle", "lock", "append"}

\* The repository before its first init, set up by hand, or managed; with the
\* user's own task, or an exclude, or a skill folder of any kind.
Init ==
  /\ \E c \in {Absent, Manual,
               [config |-> "managed", mode |-> "unset", planner |-> FALSE]},
        h \in {Absent, "task"},
        s \in [copy : {"old", "user"}, marker : {TRUE}] \cup {Absent} :
       file = [f \in File |->
                 CASE f = "config" -> c
                   [] f = "server" -> IF IsManaged(c) THEN "selection" ELSE Absent
                   [] f = "token" -> IF IsManaged(c) THEN {0} ELSE Absent
                   [] f = "excludes" -> IF IsManaged(c) THEN {"generated"} ELSE {}
                   [] f = "handoff" -> IF IsManaged(c) THEN "task" ELSE h
                   [] f = "skill" -> s
                   [] f = "history" -> IF IsManaged(c) THEN {} ELSE Absent
                   [] OTHER -> Absent]
  /\ serviceLock = NoProcess
  /\ cli = [p \in Process |-> Done]
  /\ spoilt = FALSE /\ given = 0 /\ faults = 0

-----------------------------------------------------------------------------
(* Commands begin.                                                         *)

Begins(p, command) ==
  /\ At(p, "idle")
  /\ given < MaxCommands /\ given' = given + 1
  /\ cli' = [cli EXCEPT ![p] = [command EXCEPT !.number = given + 1]]
  /\ UNCHANGED <<file, serviceLock, spoilt, faults>>

\* run_setup up to the lock: load_config refuses what it cannot read, and a
\* managed configuration without its token.  Collisions are a refusal like
\* others, see Raises.
InitCommand(p, planner, mode) ==
  /\ file["config"] # Damaged
  /\ IsManaged(file["config"]) => file["token"] # Absent
  /\ Begins(p, [Done EXCEPT
       !.pc = "lock", !.name = "init", !.planner = planner, !.mode = mode,
       !.existing = IF file["config"] = Absent THEN "none"
                    ELSE file["config"].config])

SkillCommand(p) ==
  Begins(p, [Done EXCEPT !.pc = "skill", !.name = "skill", !.planner = TRUE])

ModeCommand(p, mode) ==
  /\ IsManaged(file["config"])
  /\ Begins(p, [Done EXCEPT !.pc = "lock", !.name = "mode", !.mode = mode])

\* holding(service_lock): a busy lock ends the command.
TakeLock(p) ==
  /\ At(p, "lock")
  /\ \/ /\ serviceLock = NoProcess
        /\ serviceLock' = p
        /\ cli' = [cli EXCEPT
             ![p].pc = IF Named(p, "init") THEN "check" ELSE "mode",
             ![p].before = file]
     \/ /\ serviceLock # NoProcess
        /\ Ends(p)
        /\ UNCHANGED serviceLock
  /\ UNCHANGED <<file, spoilt, counters>>

Unlock(p) ==
  /\ At(p, "unlock")
  /\ serviceLock' = NoProcess
  /\ Ends(p)
  /\ UNCHANGED <<file, spoilt, counters>>

-----------------------------------------------------------------------------
(* _fresh and _reinit.                                                     *)

\* What each refuses before it writes anything; the configuration it goes by
\* is the one loaded before the lock.
Check(p) ==
  /\ At(p, "check")
  /\ Goto(p, IF cli[p].existing = "managed"
             THEN IF file["server"] # Absent /\ file["token"] # Absent
                  THEN "excludes" ELSE "rollback"
             ELSE IF file["server"] # Absent THEN "rollback"
             ELSE IF cli[p].existing = "manual" THEN "backup" ELSE "token")
  /\ UNCHANGED <<file, serviceLock, spoilt, counters>>

\* The copy has the time in its name: it never replaces an earlier one, which
\* the model then keeps.
Backup(p) ==
  /\ At(p, "backup")
  /\ \/ /\ file["config"] = Absent
        /\ Goto(p, "rollback") /\ UNCHANGED file
     \/ /\ file["config"] # Absent /\ file["backup"] = Absent
        /\ Writes(p, "backup", file["config"], "token")
     \/ /\ file["config"] # Absent /\ file["backup"] # Absent
        /\ Goto(p, "token") /\ UNCHANGED file
  /\ UNCHANGED <<serviceLock, spoilt, counters>>

\* Deviant: the token is not in the journal.
TokenUnjournaled(p) ==
  /\ At(p, "token")
  /\ IF file["token"] # Absent
     THEN Goto(p, "server") /\ UNCHANGED file
     ELSE Goto(p, "secret") /\ file' = [file EXCEPT !["token"] = {}]
  /\ UNCHANGED <<serviceLock, spoilt, counters>>

\* An existing token is kept; a new one is created exclusively, and then
\* written.
write_token(p) ==
  /\ At(p, "token")
  /\ IF file["token"] # Absent
     THEN Goto(p, "server") /\ UNCHANGED file
     ELSE Writes(p, "token", {}, "secret")
  /\ UNCHANGED <<serviceLock, spoilt, counters>>

WriteSecret(p) ==
  /\ At(p, "secret")
  /\ file' = [file EXCEPT !["token"] = {cli[p].number}]
  /\ Goto(p, "server")
  /\ UNCHANGED <<serviceLock, spoilt, counters>>

WriteServer(p) ==
  /\ At(p, "server")
  /\ Writes(p, "server", "selection", "excludes")
  /\ UNCHANGED <<serviceLock, spoilt, counters>>

\* The generated files, and the skill folder when there is a host.
Patterns(p) ==
  (IF Named(p, "init") THEN {"generated"} ELSE {})
    \cup (IF cli[p].planner THEN {"skill"} ELSE {})

\* ensure_excludes and ensure_exclude read the file ...
ReadExcludes(p) ==
  /\ At(p, "excludes")
  /\ IF Patterns(p) \subseteq file["excludes"]
     THEN IF Named(p, "init") THEN Goto(p, "handoff") ELSE Ends(p)
     ELSE cli' = [cli EXCEPT
            ![p].excludes = file["excludes"], ![p].pc = "exclude",
            ![p].journal = IF Named(p, "init") THEN BeforeWrite(@, "excludes")
                           ELSE @]
  /\ UNCHANGED <<file, serviceLock, spoilt, counters>>

\* ... and write it as a whole.
WriteExcludes(p) ==
  /\ At(p, "exclude")
  /\ file' = [file EXCEPT !["excludes"] = cli[p].excludes \cup Patterns(p)]
  /\ IF Named(p, "init") THEN Goto(p, "handoff") ELSE Ends(p)
  /\ UNCHANGED <<serviceLock, spoilt, counters>>

AfterSkill(p) == IF cli[p].existing = "managed" THEN "update" ELSE "config"

\* HANDOFF.md comes from the template, only if absent.
WriteHandoff(p) ==
  /\ At(p, "handoff")
  /\ LET next == IF cli[p].planner THEN "skill" ELSE AfterSkill(p)
     IN  IF file["handoff"] # Absent
         THEN Goto(p, next) /\ UNCHANGED file
         ELSE Writes(p, "handoff", "template", next)
  /\ UNCHANGED <<serviceLock, spoilt, counters>>

-----------------------------------------------------------------------------
(* install_planner_skill of an init, with a nested journal, and install of *)
(* handoff skill, without one.                                             *)

SkillDone(p) ==
  IF Named(p, "init")
  THEN cli' = [cli EXCEPT
         ![p].pc = AfterSkill(p), ![p].nested = FALSE,
         ![p].journal.created = IF cli[p].nested THEN Append(@, "skill") ELSE @]
  ELSE Goto(p, "excludes")

\* A SkillError or OSError: init rolls the nested journal back, says so as a
\* warning and goes on; skill install ends, and nothing is rolled back.
SkillFails(p) ==
  /\ IF Named(p, "init")
     THEN Goto(p, IF cli[p].nested THEN "raze" ELSE AfterSkill(p))
     ELSE Ends(p)
  /\ UNCHANGED file

\* Is there a copy the host would find?  One of the user, or in a folder of
\* another name, may be there whatever the project has.
skill_available(state) ==
  IF state \in {"current", "outdated"} THEN {TRUE} ELSE BOOLEAN

\* The state decides: a foreign copy is refused, a current one gets the marker
\* it lacks, an outdated one is replaced.  init installs nothing where a copy
\* is available, unless it is one to replace.
InspectSkill(p) ==
  /\ At(p, "skill")
  /\ LET state == skill_state(file["skill"])
     IN  \E available \in skill_available(state) :
           LET skipped == Named(p, "init") /\ state # "outdated" /\ available
           IN  \/ /\ skipped
                  /\ Goto(p, AfterSkill(p))
                  /\ UNCHANGED file
               \/ /\ ~skipped /\ state = "foreign"
                  /\ SkillFails(p)
               \/ /\ ~skipped /\ state = "current"
                  /\ file' = [file EXCEPT !["skill"].marker = TRUE]
                  /\ SkillDone(p)
               \/ /\ state = "outdated"
                  /\ Goto(p, "retire")
                  /\ UNCHANGED file
               \/ /\ ~skipped /\ state = "absent"
                  /\ Goto(p, IF Named(p, "init") THEN "journal" ELSE "copy")
                  /\ UNCHANGED file
  /\ UNCHANGED <<serviceLock, spoilt, counters>>

\* before_write of the nested journal; it cannot read a folder.
JournalSkill(p) ==
  /\ At(p, "journal")
  /\ IF file["skill"] = Absent
     THEN /\ cli' = [cli EXCEPT ![p].pc = "copy", ![p].nested = TRUE]
          /\ UNCHANGED file
     ELSE SkillFails(p)
  /\ UNCHANGED <<serviceLock, spoilt, counters>>

\* Deviant: the folder is marked before it is filled.
BeginMarked(p) ==
  /\ At(p, "copy")
  /\ IF file["skill"] = Absent
     THEN /\ file' = [file EXCEPT !["skill"] = [copy |-> "part", marker |-> TRUE]]
          /\ Goto(p, "copying")
     ELSE SkillFails(p)
  /\ UNCHANGED <<serviceLock, spoilt, counters>>

\* copytree makes the folder, which must not exist, and fills it ...
BeginCopy(p) ==
  /\ At(p, "copy")
  /\ IF file["skill"] = Absent
     THEN /\ file' = [file EXCEPT !["skill"] = [copy |-> "part", marker |-> FALSE]]
          /\ Goto(p, "copying")
     ELSE SkillFails(p)
  /\ UNCHANGED <<serviceLock, spoilt, counters>>

EndCopy(p) ==
  /\ At(p, "copying")
  /\ IF file["skill"] # Absent
     THEN /\ file' = [file EXCEPT !["skill"].copy =
                         IF @ = "raided" THEN @ ELSE "new"]
          /\ Goto(p, "marker")
     ELSE SkillFails(p)
  /\ UNCHANGED <<serviceLock, spoilt, counters>>

\* ... and _write_marker comes last.
WriteMarker(p) ==
  /\ At(p, "marker")
  /\ IF file["skill"] # Absent
     THEN /\ file' = [file EXCEPT !["skill"].marker = TRUE]
          /\ SkillDone(p)
     ELSE SkillFails(p)
  /\ UNCHANGED <<serviceLock, spoilt, counters>>

\* An upgrade is prepared in a folder of its own; then the old copy is renamed
\* away ...
Retire(p) ==
  /\ At(p, "retire")
  /\ IF file["skill"] # Absent
     THEN /\ file' = [file EXCEPT !["skill"] = Absent]
          /\ Goto(p, "swap")
     ELSE SkillFails(p)
  /\ UNCHANGED <<serviceLock, spoilt, counters>>

\* ... and the new one is renamed to its place, if that is still free.
Swap(p) ==
  /\ At(p, "swap")
  /\ IF file["skill"] = Absent
     THEN /\ file' = [file EXCEPT !["skill"] = Fresh]
          /\ SkillDone(p)
     ELSE SkillFails(p)
  /\ UNCHANGED <<serviceLock, spoilt, counters>>

\* The nested rollback: rmtree gives up, unheard, where it cannot go on, as
\* when another command puts a file into the folder it has just emptied.
Raze(p) ==
  /\ At(p, "raze")
  /\ \/ file' = [file EXCEPT !["skill"] = Absent]
     \/ UNCHANGED file
  /\ cli' = [cli EXCEPT ![p].pc = AfterSkill(p), ![p].nested = FALSE]
  /\ UNCHANGED <<serviceLock, spoilt, counters>>

-----------------------------------------------------------------------------
(* The configuration comes last; a new one before its line of history, a   *)
(* changed one after it.                                                   *)

\* What _reinit makes of the configuration it reads.
Updated(p) ==
  [file["config"] EXCEPT
     !.planner = @ \/ cli[p].planner,
     !.mode = IF cli[p].mode = "unset" THEN @ ELSE cli[p].mode]

Update(p) ==
  /\ At(p, "update")
  /\ Goto(p, IF ~IsManaged(file["config"]) THEN "rollback"
             ELSE IF Updated(p) = file["config"] THEN "report"
             ELSE IF Updated(p).mode # file["config"].mode THEN "history"
             ELSE "config")
  /\ UNCHANGED <<file, serviceLock, spoilt, counters>>

WriteConfig(p) ==
  /\ At(p, "config")
  /\ \/ /\ cli[p].existing = "managed"
        /\ Writes(p, "config", Updated(p), "report")
     \/ /\ cli[p].existing # "managed"
        /\ Writes(p, "config", [config |-> "managed", mode |-> cli[p].mode,
                                planner |-> cli[p].planner], "history")
  /\ UNCHANGED <<serviceLock, spoilt, counters>>

\* append_history
Appended(p) ==
  (IF file["history"] = Absent THEN {} ELSE file["history"])
    \cup {cli[p].number}

WriteHistory(p) ==
  /\ At(p, "history")
  /\ Writes(p, "history", Appended(p),
            IF cli[p].existing = "managed" THEN "config" ELSE "report")
  /\ UNCHANGED <<serviceLock, spoilt, counters>>

\* _next_steps, which looks at skill folders and may raise like everything
\* before it.
Report(p) ==
  /\ At(p, "report")
  /\ Goto(p, "unlock")
  /\ UNCHANGED <<file, serviceLock, spoilt, counters>>

-----------------------------------------------------------------------------
(* handoff mode                                                            *)

\* Deviant: the mode is set in a configuration that is not managed.
SetAnyMode(p) ==
  /\ At(p, "mode")
  /\ IF file["config"] # Absent /\ file["config"].mode # cli[p].mode
     THEN /\ file' = [file EXCEPT !["config"].mode = cli[p].mode]
          /\ Goto(p, "release")
     ELSE /\ Goto(p, "unlock")
          /\ UNCHANGED file
  /\ UNCHANGED <<serviceLock, spoilt, counters>>

\* set_mode reads and writes the configuration under the lock ...
SetMode(p) ==
  /\ At(p, "mode")
  /\ IF IsManaged(file["config"]) /\ file["config"].mode # cli[p].mode
     THEN /\ file' = [file EXCEPT !["config"].mode = cli[p].mode]
          /\ Goto(p, "release")
     ELSE /\ Goto(p, "unlock")
          /\ UNCHANGED file
  /\ UNCHANGED <<serviceLock, spoilt, counters>>

Release(p) ==
  /\ At(p, "release")
  /\ serviceLock' = NoProcess
  /\ Goto(p, "append")
  /\ UNCHANGED <<file, spoilt, counters>>

\* ... and appends to the history after it.
AppendHistory(p) ==
  /\ At(p, "append")
  /\ file' = [file EXCEPT !["history"] = Appended(p)]
  /\ Ends(p)
  /\ UNCHANGED <<serviceLock, spoilt, counters>>

-----------------------------------------------------------------------------
(* Failures.                                                               *)

\* Any step may raise: a refusal of the provider, of the planner's work or of
\* a collision, a full disk, a missing permission.
Raises(p) ==
  /\ \/ /\ Named(p, "init") /\ In(p, Attempting)
        /\ Goto(p, "rollback") /\ UNCHANGED file
     \/ /\ Named(p, "init") /\ In(p, Installing \ {"raze"})
        /\ SkillFails(p)
     \/ /\ Named(p, "skill") /\ In(p, Attempting \cup Installing)
        /\ Ends(p) /\ UNCHANGED file
     \/ /\ At(p, "mode")
        /\ Goto(p, "unlock") /\ UNCHANGED file
     \/ /\ At(p, "append")
        /\ Ends(p) /\ UNCHANGED file
  /\ UNCHANGED <<serviceLock, spoilt, counters>>

\* A file whose write fails is already in the journal.
Writing(p, f) ==
  \/ f \in {"backup", "token", "handoff"} /\ At(p, f) /\ file[f] = Absent
  \/ f \in {"server", "config", "history"} /\ At(p, f)

WriteFails(p) ==
  /\ \E f \in File :
       /\ Writing(p, f)
       /\ cli' = [cli EXCEPT ![p].journal = BeforeWrite(@, f), ![p].pc = "rollback"]
  /\ UNCHANGED <<file, serviceLock, spoilt, counters>>

\* Ctrl-C is not an Exception: it leaves install_planner_skill without the
\* rollback of the nested journal, which run_setup does not know.
Interrupt(p) ==
  /\ Named(p, "init") /\ In(p, Attempting \cup Installing)
  /\ cli' = [cli EXCEPT ![p].pc = "rollback", ![p].nested = FALSE]
  /\ UNCHANGED <<file, serviceLock, spoilt, counters>>

\* rollback restores the modified files: write_bytes empties a file and then
\* writes it ...
Restore(p) ==
  /\ At(p, "rollback")
  /\ \E f \in File :
       /\ cli[p].journal.modified[f] # Absent
       /\ file' = [file EXCEPT ![f] = Cut(f)]
       /\ cli' = [cli EXCEPT ![p].pc = "rewrite", ![p].open = f]
  /\ UNCHANGED <<serviceLock, spoilt, counters>>

\* Done with f, whose undo may have failed.
Restored(p, f, failed) ==
  cli' = [cli EXCEPT ![p].pc = "rollback", ![p].open = "none",
                     ![p].journal.modified[f] = Absent,
                     ![p].failed = @ \cup failed]

Rewrite(p) ==
  /\ At(p, "rewrite")
  /\ LET f == cli[p].open
     IN  /\ file' = [file EXCEPT ![f] = cli[p].journal.modified[f]]
         /\ Restored(p, f, {})
  /\ UNCHANGED <<serviceLock, spoilt, counters>>

\* ... and an OSError of either is suppressed.
RestoreFails(p) ==
  /\ \E f \in File :
       /\ cli[p].journal.modified[f] # Absent
       /\ \/ At(p, "rollback")
          \/ At(p, "rewrite") /\ cli[p].open = f
       /\ Restored(p, f, {f})
       /\ spoilt' = (spoilt \/ f = "config")
  /\ faults < MaxFaults /\ faults' = faults + 1
  /\ UNCHANGED <<file, serviceLock, given>>

\* Deviants: created files are removed before the modified ones are restored;
\* the first one first.
RemoveAtOnce(p) ==
  /\ At(p, "rollback")
  /\ LET created == cli[p].journal.created
     IN  /\ created # <<>>
         /\ file' = [file EXCEPT ![created[Len(created)]] = Absent]
         /\ cli' = [cli EXCEPT ![p].journal.created =
                      SubSeq(created, 1, Len(created) - 1)]
  /\ UNCHANGED <<serviceLock, spoilt, counters>>

RemoveOldest(p) ==
  /\ At(p, "rollback")
  /\ \A f \in File : cli[p].journal.modified[f] = Absent
  /\ LET created == cli[p].journal.created
     IN  /\ created # <<>>
         /\ file' = [file EXCEPT ![Head(created)] = Absent]
         /\ cli' = [cli EXCEPT ![p].journal.created = Tail(created)]
  /\ UNCHANGED <<serviceLock, spoilt, counters>>

\* The next file to remove is f: the created ones come after all modified ones,
\* the last one first.
Removes(p, f) ==
  /\ At(p, "rollback")
  /\ \A g \in File : cli[p].journal.modified[g] = Absent
  /\ cli[p].journal.created # <<>>
  /\ f = cli[p].journal.created[Len(cli[p].journal.created)]

Remove(p) ==
  /\ \E f \in File :
       /\ Removes(p, f)
       /\ file' = [file EXCEPT ![f] = Absent]
  /\ cli' = [cli EXCEPT ![p].journal.created = SubSeq(@, 1, Len(@) - 1)]
  /\ UNCHANGED <<serviceLock, spoilt, counters>>

\* An OSError of unlink or rmtree is suppressed as well.
RemoveFails(p) ==
  /\ \E f \in File :
       /\ Removes(p, f) /\ file[f] # Absent
       /\ cli' = [cli EXCEPT
            ![p].journal.created = SubSeq(@, 1, Len(@) - 1),
            ![p].failed = @ \cup {f}]
       /\ spoilt' = (spoilt \/ f \in {"config", "token"})
  /\ faults < MaxFaults /\ faults' = faults + 1
  /\ UNCHANGED <<file, serviceLock, given>>

\* rmtree of either journal takes the skill folder apart file by file; the
\* marker is one of them.
Raid(p) ==
  /\ At(p, "raze") \/ Removes(p, "skill")
  /\ file["skill"] # Absent
  /\ \E marker \in {file["skill"].marker, FALSE} :
       file' = [file EXCEPT !["skill"] = [copy |-> "raided", marker |-> marker]]
  /\ UNCHANGED <<serviceLock, cli, spoilt, counters>>

EndRollback(p) ==
  /\ At(p, "rollback")
  /\ cli[p].journal = NoJournal
  /\ Goto(p, "unlock")
  /\ UNCHANGED <<file, serviceLock, spoilt, counters>>

\* A token that a killed init has left empty stays, and the next init keeps it.
Kill(p) ==
  /\ ~At(p, "idle")
  /\ faults < MaxFaults /\ faults' = faults + 1
  /\ spoilt' = \/ spoilt
               \/ "token" \in Created(cli[p].journal) /\ file["token"] = {}
  /\ Ends(p)
  /\ UNCHANGED <<file, serviceLock, given>>

\* What the refusals ask of the human after a kill: remove the lock, and move
\* aside a server.json without a managed configuration.
RemoveLock ==
  /\ serviceLock # NoProcess /\ ~Holds(serviceLock)
  /\ serviceLock' = NoProcess
  /\ UNCHANGED <<file, cli, spoilt, counters>>

MoveAside ==
  /\ serviceLock = NoProcess
  /\ file["server"] # Absent /\ ~IsManaged(file["config"])
  /\ file' = [file EXCEPT !["server"] = Absent]
  /\ UNCHANGED <<serviceLock, cli, spoilt, counters>>

-----------------------------------------------------------------------------

Step(p) ==
  \/ TakeLock(p) \/ Unlock(p) \/ Release(p)
  \/ Check(p) \/ Backup(p) \/ write_token(p) \/ WriteSecret(p)
  \/ WriteServer(p) \/ ReadExcludes(p) \/ WriteExcludes(p) \/ WriteHandoff(p)
  \/ InspectSkill(p) \/ JournalSkill(p) \/ BeginCopy(p) \/ EndCopy(p)
  \/ WriteMarker(p) \/ Retire(p) \/ Swap(p) \/ Raze(p) \/ Raid(p)
  \/ Update(p) \/ WriteConfig(p) \/ WriteHistory(p) \/ Report(p)
  \/ SetMode(p) \/ AppendHistory(p)
  \/ Raises(p) \/ WriteFails(p) \/ Interrupt(p)
  \/ Restore(p) \/ Rewrite(p) \/ RestoreFails(p)
  \/ Remove(p) \/ RemoveFails(p) \/ EndRollback(p)

Begin(p) ==
  \/ /\ "init" \in Commands
     /\ \E planner \in BOOLEAN, mode \in Mode \cup {"unset"} :
          InitCommand(p, planner, mode)
  \/ "skill" \in Commands /\ SkillCommand(p)
  \/ "mode" \in Commands /\ \E mode \in Mode : ModeCommand(p, mode)

Next ==
  \/ \E p \in Process : Begin(p) \/ Step(p) \/ Kill(p)
  \/ RemoveLock \/ MoveAside

Spec == Init /\ [][Next]_vars

-----------------------------------------------------------------------------

TypeOK ==
  /\ \A f \in File : file[f] \in Content(f) \cup {Absent}
  /\ serviceLock \in Process \cup {NoProcess}
  /\ \A p \in Process : CommandOK(cli[p])
  /\ spoilt \in BOOLEAN
  /\ given \in 0..MaxCommands /\ faults \in 0..MaxFaults

\* The install marker is the last thing written: through failures, kills and
\* with two commands, a marked copy has been copied to the end (_write_marker).
\* What a removal takes out of it before, or leaves of it afterwards, is another
\* matter: the rollback of an init may take apart the folder that another
\* command is filling, which then marks what is left.  Nor does it hold with
\* three commands: when that rollback has removed the folder, a third one may
\* begin anew in its place.
MarkedComplete ==
  file["skill"] # Absent /\ file["skill"].marker => file["skill"].copy # "part"

\* The settings of a manual configuration are in place or in the backup at
\* every moment, also during a rollback and after a kill (_fresh,
\* Journal.rollback), unless the rollback cannot write the configuration: it
\* goes on and removes the backup all the same.
SettingsRecoverable ==
  [][IsManual(file["config"]) \/ IsManual(file["backup"])
       => \/ IsManual(file'["config"]) \/ IsManual(file'["backup"])
          \/ \E p \in Process : "config" \in cli[p].failed]_vars

\* An init that fails leaves the files that are written under service.lock as
\* it found them (run_setup, Journal), but for those whose undo fails in turn.
RolledBack ==
  [][\A p \in Process :
       At(p, "rollback") /\ cli'[p].pc = "unlock" =>
         \A f \in {"config", "server", "token", "backup", "handoff"} \ cli[p].failed :
           file[f] = cli[p].before[f]]_vars

\* An attempt that has written the configuration, or tried to, may yet take it
\* back.
Open ==
  \E p \in Process :
    /\ Holds(p)
    /\ \/ "config" \in Created(cli[p].journal)
       \/ cli[p].journal.modified["config"] # Absent

\* Whoever sees a managed configuration finds server.json and a credential, at
\* every moment of an init, of its rollback and after a kill; the credential
\* stays while it is in use, and the configuration is taken back only by an
\* attempt that has written it.  This is the promise in ManagedRepository; it
\* ends when an undo of the configuration or of the token fails, or a kill
\* leaves the token empty.
Promise ==
  INSTANCE ManagedRepository WITH
    Server <- Content("server"), Token <- Credential, Config <- Managed,
    seen <- IF IsManaged(file["config"])
            THEN [server |-> file["server"], token |-> file["token"],
                  config |-> file["config"]]
            ELSE NotManaged,
    open <- Open
SetupIsAtomic == Promise!Spec
=============================================================================
