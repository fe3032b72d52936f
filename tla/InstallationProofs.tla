------------------------- MODULE InstallationProofs -------------------------
(***************************************************************************)
(* Theorems about Installation, for any number of commands at a time, of   *)
(* commands, and of kills and failed undos.  The last one, about the       *)
(* marker of the skill folder, is for one command at a time or for two     *)
(* commands at all: with three it does not hold.                           *)
(***************************************************************************)
EXTENDS Installation, TLAPS

-----------------------------------------------------------------------------
(* Types, as sets.                                                         *)

Anything == (UNION {Content(f) : f \in File}) \cup {Absent}
Files == {g \in [File -> Anything] :
            \A f \in File : g[f] \in Content(f) \cup {Absent}}
\* The exclude file is always there, so no journal says that it was created.
Present == {g \in Files : g["excludes"] # Absent}
Creatable == File \ {"excludes"}
Lists == Seq(Creatable)
Journals == [modified : Files, created : Lists]
ExcludeFiles == Content("excludes")

Command ==
  [pc : Places, name : {"none", "init", "skill", "mode"},
   number : Number \cup {0}, existing : {"none", "manual", "managed"},
   planner : BOOLEAN, mode : Mode \cup {"unset"}, excludes : ExcludeFiles,
   journal : Journals, nested : BOOLEAN, open : File \cup {"none"},
   before : Files, failed : SUBSET File]

Typed ==
  /\ file \in Present
  /\ serviceLock \in Process \cup {NoProcess}
  /\ cli \in [Process -> Command] /\ spoilt \in BOOLEAN
  /\ given \in 0..MaxCommands /\ faults \in 0..MaxFaults

LEMMA FileNames ==
  {"config", "server", "token", "excludes", "handoff", "backup", "history",
   "skill"} = File
BY DEF File

LEMMA Contents ==
  /\ Content("config") = Managed \cup {Manual, Damaged}
  /\ Content("backup") = Managed \cup {Manual, Damaged}
  /\ Content("server") = {"selection"}
  /\ Content("token") = {{}} \cup Credential
  /\ Content("excludes") = SUBSET {"generated", "skill"}
  /\ Content("handoff") = {"template", "task"}
  /\ Content("history") = SUBSET Number
  /\ Content("skill") = Copy
BY DEF Content

LEMMA ContentAnything == \A f \in File : Content(f) \cup {Absent} \subseteq Anything
<1> SUFFICES ASSUME NEW f \in File, NEW v \in Content(f) PROVE v \in Anything
  BY DEF Anything
<1>1. Content(f) \in {Content(h) : h \in File} OBVIOUS
<1> QED BY <1>1 DEF Anything

LEMMA FileAt ==
  ASSUME NEW g \in Files, NEW f \in File
  PROVE  g[f] \in Content(f) \cup {Absent}
BY DEF Files

LEMMA FileExcept ==
  ASSUME NEW g \in Files, NEW f \in File, NEW v \in Content(f) \cup {Absent}
  PROVE  /\ [g EXCEPT ![f] = v] \in Files
         /\ [g EXCEPT ![f] = v][f] = v
         /\ \A h \in File \ {f} : [g EXCEPT ![f] = v][h] = g[h]
<1> DEFINE e == [g EXCEPT ![f] = v]
<1>1. g \in [File -> Anything] BY DEF Files
<1>2. v \in Anything BY ContentAnything
<1>3. e \in [File -> Anything] BY <1>1, <1>2
<1>4. e[f] = v /\ \A h \in File \ {f} : e[h] = g[h] BY <1>1
<1> HIDE DEF e
<1>5. ASSUME NEW h \in File PROVE e[h] \in Content(h) \cup {Absent}
  <2>1. CASE h = f BY <1>4, <2>1
  <2>2. CASE h # f BY <1>4, <2>2, FileAt
  <2> QED BY <2>1, <2>2
<1>6. e \in Files BY <1>3, <1>5 DEF Files
<1> QED BY <1>4, <1>6 DEF e

LEMMA Written ==
  ASSUME file \in Present, NEW f \in File, NEW v \in Content(f) \cup {Absent},
         file' = [file EXCEPT ![f] = v], f = "excludes" => v # Absent
  PROVE  /\ file' \in Present /\ file'[f] = v
         /\ \A h \in File \ {f} : file'[h] = file[h]
<1>1. PICK g \in Files : g = file BY DEF Present
<1>2. /\ [g EXCEPT ![f] = v] \in Files
      /\ [g EXCEPT ![f] = v][f] = v
      /\ \A h \in File \ {f} : [g EXCEPT ![f] = v][h] = g[h]
  BY FileExcept
<1>3. file' = [g EXCEPT ![f] = v] BY <1>1
<1>4. file'["excludes"] # Absent
  <2>1. CASE f = "excludes" BY <1>2, <1>3, <2>1
  <2>2. CASE f # "excludes" BY <1>1, <1>2, <1>3, <2>2, FileNames DEF Present
  <2> QED BY <2>1, <2>2
<1> QED BY <1>1, <1>2, <1>3, <1>4 DEF Present

LEMMA NoFiles == [f \in File |-> Absent] \in Files
BY ContentAnything DEF Files, Anything

LEMMA TypedOK == Typed => TypeOK
<1> SUFFICES ASSUME Typed PROVE TypeOK OBVIOUS
<1>1. \A f \in File : file[f] \in Content(f) \cup {Absent}
  BY FileAt DEF Typed, Present
<1>2. ASSUME NEW p \in Process PROVE CommandOK(cli[p])
  <2> DEFINE c == cli[p]
  <2>1. c \in Command BY DEF Typed
  <2> HIDE DEF c
  <2>2. c.journal.modified \in Files /\ c.journal.created \in Seq(File)
        /\ c.before \in Files
    BY <2>1 DEF Command, Journals, Lists, Creatable
  <2>3. JournalOK(c.journal) BY <2>2, FileAt DEF JournalOK
  <2>4. \A f \in File : c.before[f] \in Content(f) \cup {Absent} BY <2>2, FileAt
  <2>5. CommandOK(c) BY <2>1, <2>3, <2>4 DEF Command, CommandOK, ExcludeFiles
  <2> QED BY <2>5 DEF c
<1> QED BY <1>1, <1>2 DEF TypeOK, Typed

-----------------------------------------------------------------------------
(* The inductive invariant.  An attempt is the run of an init under         *)
(* service.lock; `before' is what it found.                                *)

\* The files that are written under service.lock only.
Important == {"config", "server", "token", "backup", "handoff"}

Early == {"backup", "token", "secret", "server"}
Late == {"excludes", "exclude", "handoff", "skill", "update", "config",
         "history", "report"} \cup Installing

InLock(c) == c.name \in {"init", "mode"} /\ c.pc \notin {"idle", "lock", "append"}

\* No setup is spoilt.
Sound == spoilt = FALSE

\* At most one command is between the lock and its release.
Excluded == \A p \in Process : InLock(cli[p]) => serviceLock = p

\* Which places a command passes; it has a number of its own, and a rollback
\* has only opened a file of which it knows what was in it.
Routes(c) ==
  /\ c.name = "none" => c.pc = "idle"
  /\ c.name # "none" => c.number \in Number
  /\ c.name = "skill" =>
       c.pc \in {"skill", "excludes", "exclude"} \cup (Installing \ {"raze"})
  /\ c.name = "mode" => c.pc \in {"lock", "mode", "release", "append", "unlock"}
  /\ c.name = "init" => c.pc \in {"lock"} \cup Ending \cup Attempting \cup Installing
  /\ c.pc = "rewrite" => c.open \in File /\ c.journal.modified[c.open] # Absent

Untouched(journal, f) == f \notin Created(journal) /\ journal.modified[f] = Absent

\* The configuration is created after server.json and the token.
Ordered(journal) ==
  \A k, l \in DOMAIN journal.created :
    /\ journal.created[k] = "config"
    /\ journal.created[l] \in {"server", "token"}
    => l < k

\* The journal of an attempt tells what the files were; only the configuration
\* is ever modified, so nothing else that was there before can be lost when an
\* undo fails.
AttemptTrue(c) ==
  /\ \A f \in Important :
       /\ f \in Created(c.journal) => c.before[f] = Absent
       /\ c.journal.modified[f] \in {Absent, c.before[f]}
       /\ Untouched(c.journal, f) /\ f \notin c.failed => file[f] = c.before[f]
       /\ f # "config" => /\ c.journal.modified[f] = Absent
                          /\ f \in c.failed => c.before[f] = Absent
  /\ Ordered(c.journal)
  /\ "config" \in c.failed \/ "token" \in c.failed => ~Sound
  /\ IsManaged(c.before["config"]) /\ Sound =>
       c.before["server"] # Absent /\ c.before["token"] \notin {Absent, {}}

\* What an attempt relies on at each place.
StageTrue(c) ==
  /\ c.pc = "check" => c.journal = NoJournal
  /\ c.pc \notin Ending => c.failed = {}
  /\ c.existing = "managed" =>
       /\ c.pc \notin Early
       /\ c.pc \in Late \ {"report"} => Untouched(c.journal, "config")
       /\ c.pc \in {"config", "history"} => IsManaged(c.before["config"])
  /\ c.existing # "managed" =>
       /\ c.pc # "update"
       /\ c.pc \in Early \cup Late => c.before["server"] = Absent
       /\ c.pc \in (Early \cup Late) \ {"history", "report"} =>
            Untouched(c.journal, "config")
       /\ c.pc \in Early => Untouched(c.journal, "server")
       /\ c.pc \in {"backup", "token"} => Untouched(c.journal, "token")
       /\ c.pc = "secret" => "token" \in Created(c.journal)
       /\ c.pc \in {"server"} \cup Late =>
            file["token"] # Absent /\ (Sound => file["token"] # {})
       /\ c.pc \in Late => file["server"] # Absent
       /\ c.pc = "backup" => c.existing = "manual"

Attempts ==
  \A p \in Process : cli[p].name = "init" =>
    /\ cli[p].pc = "lock" => cli[p].journal = NoJournal /\ cli[p].failed = {}
    /\ InLock(cli[p]) => AttemptTrue(cli[p]) /\ StageTrue(cli[p])

\* An attempt that has created the token, and may still write or remove it.
Filler(c) ==
  /\ c.name = "init" /\ c.pc \in {"secret", "rollback", "rewrite"}
  /\ "token" \in Created(c.journal)

\* While no setup is spoilt, a managed configuration is there with what a
\* service needs ...
Usable ==
  Sound /\ IsManaged(file["config"]) =>
    file["server"] # Absent /\ file["token"] \notin {Absent, {}}

\* ... and a token is empty only in the hands of who creates it.
Filled == Sound /\ file["token"] = {} => \E p \in Process : Filler(cli[p])

Complete == Usable /\ Filled

\* Either there are no settings of a manual configuration anywhere, and none
\* can come back ...
NoSettings ==
  /\ ~IsManual(file["config"]) /\ ~IsManual(file["backup"])
  /\ \A p \in Process : cli[p].name = "init" /\ InLock(cli[p]) =>
       ~IsManual(cli[p].journal.modified["config"])

\* ... or they are in place or in the backup, and every init knows that there
\* is a configuration; they are in the backup before anything else is written
\* to their place.
Kept(config, backup) ==
  /\ config # Absent /\ backup \in {Absent, Manual}
  /\ IsManual(config) \/ IsManual(backup)

HasSettings ==
  /\ Kept(file["config"], file["backup"])
  /\ \A p \in Process : cli[p].name = "init" =>
       /\ cli[p].existing # "none"
       /\ InLock(cli[p]) =>
            /\ Kept(cli[p].before["config"], cli[p].before["backup"])
            /\ /\ cli[p].existing = "manual"
               /\ cli[p].pc \in (Early \cup Late) \ {"backup"}
               => IsManual(file["backup"])
            /\ cli[p].journal.modified["config"] # Absent => IsManual(file["backup"])

Consistent ==
  /\ Typed /\ Excluded
  /\ \A p \in Process : Routes(cli[p])
  /\ Attempts /\ Complete
  /\ NoSettings \/ HasSettings

\* A rollback could not put the configuration back.
Lost == \E p \in Process : "config" \in cli[p].failed

\* What a step does: the settings stay but for such a rollback.
Keeps == Consistent' /\ (HasSettings => HasSettings' \/ Lost)

-----------------------------------------------------------------------------
(* Configurations and journals.                                            *)

LEMMA Kinds ==
  ASSUME NEW c \in Content("config") \cup {Absent}
  PROVE  /\ IsManaged(c) <=> c \in Managed
         /\ IsManual(c) <=> c = Manual
         /\ c = Absent \/ IsManaged(c) \/ IsManual(c) \/ c = Damaged
         /\ ~(IsManaged(c) /\ IsManual(c))
         /\ c \in {Absent, Damaged} => ~IsManaged(c) /\ ~IsManual(c)
         /\ Damaged # Absent
<1>1. \A d \in Managed \cup {Manual, Damaged} : d # Absent
  BY AbsentAssumption, Contents, FileNames
<1>2. \A d \in Managed : d.config = "managed"
  BY DEF Managed
<1>3. Manual.config = "manual" /\ Damaged.config = "damaged" BY DEF Manual, Damaged
<1> QED BY <1>1, <1>2, <1>3, Contents DEF IsManaged, IsManual

LEMMA EmptyJournal ==
  /\ NoJournal \in Journals
  /\ Created(NoJournal) = {}
  /\ \A f \in File : NoJournal.modified[f] = Absent
  /\ Ordered(NoJournal)
BY NoFiles DEF NoJournal, Journals, Lists, Creatable, Created, Ordered

LEMMA Appends ==
  ASSUME NEW j \in Journals, NEW f \in Creatable
  PROVE  LET k == [j EXCEPT !.created = Append(@, f)] IN
         /\ k \in Journals /\ k.modified = j.modified
         /\ Created(k) = Created(j) \cup {f}
         /\ /\ Ordered(j)
            /\ f \in {"server", "token"} => "config" \notin Created(j)
            => Ordered(k)
<1> DEFINE k == [j EXCEPT !.created = Append(@, f)]
           s == j.created
<1>1. s \in Seq(Creatable) /\ j.modified \in Files BY DEF Journals, Lists
<1>2. k.created = Append(s, f) /\ k.modified = j.modified /\ k \in Journals
  BY <1>1 DEF Journals, Lists
<1>3. /\ DOMAIN Append(s, f) = DOMAIN s \cup {Len(s) + 1}
      /\ \A i \in DOMAIN s : Append(s, f)[i] = s[i]
      /\ Append(s, f)[Len(s) + 1] = f
      /\ \A i \in DOMAIN s : i \in Nat /\ i < Len(s) + 1
      /\ Len(s) \in Nat
  BY <1>1
<1>4. Created(k) = Created(j) \cup {f}
  BY <1>2, <1>3, Zenon DEF Created
<1>5. ASSUME Ordered(j),
             f \in {"server", "token"} => "config" \notin Created(j),
             NEW m \in DOMAIN k.created, NEW l \in DOMAIN k.created,
             k.created[m] = "config", k.created[l] \in {"server", "token"}
      PROVE  l < m
  <2>1. CASE m \in DOMAIN s /\ l \in DOMAIN s
    BY <1>2, <1>3, <1>5, <2>1 DEF Ordered
  <2>2. CASE m = Len(s) + 1
    <3>1. l # m BY <1>5, <2>2
    <3>2. l \in DOMAIN s BY <3>1, <2>2, <1>2, <1>3, <1>5
    <3> QED BY <3>2, <2>2, <1>3
  <2>3. CASE m \in DOMAIN s /\ l = Len(s) + 1
    <3>1. "config" \in Created(j) BY <2>3, <1>2, <1>3, <1>5 DEF Created
    <3> QED BY <3>1, <2>3, <1>2, <1>3, <1>5
  <2> QED BY <2>1, <2>2, <2>3, <1>2, <1>3, <1>5
<1> HIDE DEF k
<1>6. /\ Ordered(j)
      /\ f \in {"server", "token"} => "config" \notin Created(j)
      => Ordered(k)
  BY <1>5 DEF Ordered
<1> QED BY <1>2, <1>4, <1>6 DEF k

LEMMA DropsLast ==
  ASSUME NEW j \in Journals, j.created # <<>>
  PROVE  LET s == j.created
             k == [j EXCEPT !.created = SubSeq(s, 1, Len(s) - 1)] IN
         /\ k \in Journals /\ k.modified = j.modified
         /\ s[Len(s)] \in Creatable /\ s[Len(s)] \in Created(j)
         /\ Created(j) = Created(k) \cup {s[Len(s)]}
         /\ Ordered(j) =>
              /\ Ordered(k)
              /\ s[Len(s)] \in {"server", "token"} => "config" \notin Created(j)
<1> DEFINE s == j.created
           t == SubSeq(s, 1, Len(s) - 1)
           k == [j EXCEPT !.created = t]
<1>1. s \in Seq(Creatable) /\ j.modified \in Files BY DEF Journals, Lists
<1>2. /\ Len(s) \in Nat \ {0} /\ DOMAIN s = 1..Len(s)
      /\ \A i \in DOMAIN s : s[i] \in Creatable
  BY <1>1
<1>3. /\ t \in Seq(Creatable) /\ DOMAIN t = 1..(Len(s) - 1)
      /\ \A i \in DOMAIN t : t[i] = s[i]
  BY <1>1, <1>2
<1>4. k.created = t /\ k.modified = j.modified /\ k \in Journals
  BY <1>1, <1>3 DEF Journals, Lists
<1>5. DOMAIN s = DOMAIN t \cup {Len(s)} /\ Len(s) \in DOMAIN s
  BY <1>2, <1>3
<1> HIDE DEF k, t
<1>6. Created(j) = Created(k) \cup {s[Len(s)]}
  BY <1>3, <1>4, <1>5, Zenon DEF Created
<1>7. Ordered(j) => Ordered(k)
  BY <1>3, <1>4, <1>5 DEF Ordered
<1>8. ASSUME Ordered(j), s[Len(s)] \in {"server", "token"},
             "config" \in Created(j)
      PROVE  FALSE
  <2>1. PICK i \in DOMAIN s : s[i] = "config" BY <1>8 DEF Created
  <2>2. Len(s) < i BY <2>1, <1>5, <1>8 DEF Ordered
  <2> QED BY <2>1, <2>2, <1>2
<1>9. s[Len(s)] \in Creatable BY <1>2, <1>5
<1>10. s[Len(s)] \in Created(j) BY <1>6
<1> QED BY <1>4, <1>6, <1>7, <1>8, <1>9, <1>10 DEF k, t

\* before_write keeps the journal true to what a file was before.
LEMMA Journaled ==
  ASSUME Typed, NEW j \in Journals, NEW f \in File
  PROVE  LET k == BeforeWrite(j, f) IN
         /\ k \in Journals
         /\ \A h \in File \ {f} : /\ h \in Created(k) <=> h \in Created(j)
                                  /\ k.modified[h] = j.modified[h]
         /\ ~Untouched(k, f)
         /\ ~Untouched(j, f) => k = j
         /\ Untouched(j, f) /\ file[f] = Absent =>
              Created(k) = Created(j) \cup {f} /\ k.modified = j.modified
         /\ Untouched(j, f) /\ file[f] # Absent =>
              Created(k) = Created(j) /\ k.modified[f] = file[f]
         /\ /\ Ordered(j)
            /\ f \in {"server", "token"} => "config" \notin Created(j)
            => Ordered(k)
<1> DEFINE k == BeforeWrite(j, f)
<1>1. j.modified \in Files /\ file \in Files BY DEF Journals, Typed, Present
<1>2. CASE ~Untouched(j, f)
  <2>1. k = j BY <1>2 DEF BeforeWrite, Untouched
  <2> HIDE DEF k
  <2> QED BY <1>2, <2>1 DEF k
<1>3. CASE Untouched(j, f) /\ file[f] = Absent
  <2>1. k = [j EXCEPT !.created = Append(@, f)]
    BY <1>3 DEF BeforeWrite, Untouched
  <2> HIDE DEF k
  <2>a. f \in Creatable BY <1>3 DEF Creatable, Typed, Present
  <2>2. /\ k \in Journals /\ k.modified = j.modified
        /\ Created(k) = Created(j) \cup {f}
        /\ /\ Ordered(j)
           /\ f \in {"server", "token"} => "config" \notin Created(j)
           => Ordered(k)
    BY <2>1, <2>a, Appends
  <2>3. ~Untouched(k, f) BY <2>2 DEF Untouched
  <2> QED BY <1>3, <2>2, <2>3 DEF k
<1>4. CASE Untouched(j, f) /\ file[f] # Absent
  <2>1. k = [j EXCEPT !.modified[f] = file[f]]
    BY <1>4 DEF BeforeWrite, Untouched
  <2> HIDE DEF k
  <2>2. k.created = j.created /\ k.modified = [j.modified EXCEPT ![f] = file[f]]
        /\ k \in [modified : {k.modified}, created : {j.created}]
    BY <2>1 DEF Journals
  <2>3. file[f] \in Content(f) \cup {Absent} BY <1>1, FileAt
  <2>4. /\ k.modified \in Files /\ k.modified[f] = file[f]
        /\ \A h \in File \ {f} : k.modified[h] = j.modified[h]
    BY <1>1, <2>2, <2>3, FileExcept
  <2>5. k \in Journals BY <2>2, <2>4 DEF Journals
  <2>6. Created(k) = Created(j) /\ Ordered(j) => Ordered(k)
    BY <2>2 DEF Created, Ordered
  <2>7. Created(k) = Created(j) BY <2>2 DEF Created
  <2>8. Ordered(j) => Ordered(k) BY <2>2 DEF Ordered
  <2>9. ~Untouched(k, f) BY <2>4, <1>4 DEF Untouched
  <2> QED BY <1>4, <2>4, <2>5, <2>7, <2>8, <2>9 DEF k
<1> QED BY <1>2, <1>3, <1>4

-----------------------------------------------------------------------------
(* The parts of a step of one command that the invariant needs.            *)

LEMMA CommandTyped ==
  ASSUME NEW c \in Command
  PROVE  /\ c.journal \in Journals /\ c.before \in Files
         /\ c.journal.modified \in Files
         /\ c.journal.created \in Lists
         /\ c.pc \in Places /\ c.name \in {"none", "init", "skill", "mode"}
         /\ c.existing \in {"none", "manual", "managed"}
BY DEF Command, Journals, Lists

LEMMA ImportantFiles == Important \subseteq File
BY FileNames DEF Important

\* Steps of p keep the others' part of the invariant: who has no lock touches
\* none of the important files.
OnlyBy(p) ==
  /\ cli' \in [Process -> Command] /\ file' \in Present
  /\ \A q \in Process \ {p} : cli'[q] = cli[q]
  /\ InLock(cli[p]) \/ \A f \in Important : file'[f] = file[f]
  /\ spoilt' \in BOOLEAN /\ (Sound' => Sound)
  /\ given' \in 0..MaxCommands /\ faults' \in 0..MaxFaults

\* The new owner of the lock.
LockMoves(p) ==
  \/ /\ serviceLock' = serviceLock
     /\ InLock(cli'[p]) => InLock(cli[p])
  \/ /\ serviceLock = NoProcess /\ serviceLock' = p
  \/ /\ serviceLock = p /\ serviceLock' = NoProcess
     /\ ~InLock(cli'[p])

\* The invariant as far as p is concerned.
AttemptOf(p) ==
  cli[p].name = "init" =>
    /\ cli[p].pc = "lock" => cli[p].journal = NoJournal /\ cli[p].failed = {}
    /\ InLock(cli[p]) => AttemptTrue(cli[p]) /\ StageTrue(cli[p])

NoSettingsOf(p) ==
  /\ ~IsManual(file["config"]) /\ ~IsManual(file["backup"])
  /\ cli[p].name = "init" /\ InLock(cli[p]) =>
       ~IsManual(cli[p].journal.modified["config"])

HasSettingsOf(p) ==
  /\ Kept(file["config"], file["backup"])
  /\ cli[p].name = "init" =>
       /\ cli[p].existing # "none"
       /\ InLock(cli[p]) =>
            /\ Kept(cli[p].before["config"], cli[p].before["backup"])
            /\ /\ cli[p].existing = "manual"
               /\ cli[p].pc \in (Early \cup Late) \ {"backup"}
               => IsManual(file["backup"])
            /\ cli[p].journal.modified["config"] # Absent => IsManual(file["backup"])

\* An empty token is in the hands of p, or not its affair.
TokenOf(p) ==
  Sound' /\ file'["token"] = {} =>
    \/ Filler(cli'[p])
    \/ file["token"] = {} /\ ~Filler(cli[p])

\* The rollback of p has failed to put the configuration back.
LostBy(p) ==
  InLock(cli[p]) /\ "config" \in cli[p].failed /\ NoSettingsOf(p)'

LEMMA AttemptTrueSame ==
  ASSUME NEW c, \A f \in Important : file'[f] = file[f], Sound' => Sound,
         AttemptTrue(c)
  PROVE  AttemptTrue(c)'
BY DEF AttemptTrue, Untouched, IsManaged, Ordered, Created

LEMMA StageTrueSame ==
  ASSUME NEW c, \A f \in Important : file'[f] = file[f], Sound' => Sound,
         StageTrue(c)
  PROVE  StageTrue(c)'
<1>1. file'["server"] = file["server"] /\ file'["token"] = file["token"]
  BY DEF Important
<1> QED BY <1>1 DEF StageTrue, Untouched, IsManaged, Created

LEMMA Composes ==
  ASSUME Consistent, NEW p \in Process, OnlyBy(p), LockMoves(p),
         (Routes(cli[p]) /\ AttemptOf(p) /\ Usable)', TokenOf(p),
         NoSettings => NoSettingsOf(p)',
         HasSettings => HasSettingsOf(p)' \/ LostBy(p)
  PROVE  Keeps
<1>1. Typed' BY DEF Consistent, Typed, OnlyBy, LockMoves
<1>2. Excluded'
  <2>1. \A q \in Process : InLock(cli[q]) => serviceLock = q
    BY DEF Consistent, Excluded
  <2>2. \A q \in Process \ {p} : InLock(cli'[q]) => serviceLock = q
    BY <2>1 DEF OnlyBy
  <2>3. InLock(cli'[p]) => serviceLock' = p BY <2>1 DEF LockMoves
  <2>4. \A q \in Process \ {p} : InLock(cli'[q]) => serviceLock' = q
    BY <2>2, InstallationAssumption DEF LockMoves
  <2> QED BY <2>3, <2>4 DEF Excluded, InLock
<1>3. ASSUME NEW q \in Process \ {p}, InLock(cli[q])
      PROVE  /\ \A f \in Important : file'[f] = file[f]
             /\ ~InLock(cli[p])
  <2>1. serviceLock = q BY <1>3 DEF Consistent, Excluded
  <2>2. ~InLock(cli[p])
    <3> SUFFICES ASSUME InLock(cli[p]) PROVE FALSE OBVIOUS
    <3>1. serviceLock = p BY DEF Consistent, Excluded
    <3> QED BY <3>1, <2>1
  <2> QED BY <2>2 DEF OnlyBy
<1>4. ASSUME NEW q \in Process \ {p} PROVE Routes(cli[q])' /\ AttemptOf(q)'
  <2>1. PICK d : d = cli[q] /\ d = cli'[q] BY <1>4 DEF OnlyBy
  <2>2. Routes(d) BY <2>1, <1>4 DEF Consistent
  <2>3. Routes(cli[q])' BY <2>1, <2>2 DEF Routes
  <2>4. d.name = "init" /\ d.pc = "lock" => d.journal = NoJournal /\ d.failed = {}
    BY <2>1, <1>4 DEF Consistent, Attempts
  <2>5. ASSUME d.name = "init", InLock(d) PROVE (AttemptTrue(d) /\ StageTrue(d))'
    <3>1. AttemptTrue(d) /\ StageTrue(d)
      BY <2>1, <2>5, <1>4 DEF Consistent, Attempts
    <3>2. \A f \in Important : file'[f] = file[f] BY <2>1, <2>5, <1>3
    <3> QED BY <3>1, <3>2, AttemptTrueSame, StageTrueSame DEF OnlyBy
  <2>6. AttemptTrue(d)' <=> AttemptTrue(cli[q])'
    BY <2>1 DEF AttemptTrue
  <2>7. StageTrue(d)' <=> StageTrue(cli[q])'
    BY <2>1 DEF StageTrue
  <2>8. InLock(d) <=> InLock(cli[q])' BY <2>1 DEF InLock
  <2> QED BY <2>1, <2>3, <2>4, <2>5, <2>6, <2>7, <2>8 DEF AttemptOf
<1>5. Attempts' BY <1>4 DEF Attempts, AttemptOf
<1>6. \A q \in Process : Routes(cli[q])' BY <1>4
<1>7. ASSUME NEW q \in Process \ {p} PROVE cli'[q] = cli[q] BY DEF OnlyBy
<1>8. Filled'
  <2> SUFFICES ASSUME Sound', file'["token"] = {}
               PROVE  \E q \in Process : Filler(cli'[q])
    BY DEF Filled, Filler
  <2>1. CASE Filler(cli'[p]) BY <2>1
  <2>2. CASE file["token"] = {} /\ ~Filler(cli[p])
    <3>1. Sound BY DEF OnlyBy
    <3>2. PICK q \in Process : Filler(cli[q])
      BY <2>2, <3>1 DEF Consistent, Complete, Filled
    <3>3. q # p BY <2>2, <3>2
    <3>4. cli'[q] = cli[q] BY <3>3, <1>7
    <3>5. Filler(cli'[q]) BY <3>2, <3>4
    <3> QED BY <3>5
  <2> QED BY <2>1, <2>2 DEF TokenOf
<1>9. ASSUME NoSettings PROVE NoSettings'
  <2>1. NoSettingsOf(p)' BY <1>9
  <2>2. \A q \in Process \ {p} : cli'[q].name = "init" /\ InLock(cli'[q]) =>
          ~IsManual(cli'[q].journal.modified["config"])
    BY <1>7, <1>9 DEF NoSettings
  <2> QED BY <2>1, <2>2 DEF NoSettings, NoSettingsOf, IsManual, InLock
<1>10. ASSUME HasSettings, HasSettingsOf(p)' PROVE HasSettings'
  <2>2. \A q \in Process \ {p} : cli'[q].name = "init" =>
          /\ cli'[q].existing # "none"
          /\ InLock(cli'[q]) =>
               /\ Kept(cli'[q].before["config"], cli'[q].before["backup"])
               /\ /\ cli'[q].existing = "manual"
                  /\ cli'[q].pc \in (Early \cup Late) \ {"backup"}
                  => IsManual(file'["backup"])
               /\ cli'[q].journal.modified["config"] # Absent =>
                    IsManual(file'["backup"])
    <3> SUFFICES ASSUME NEW q \in Process \ {p}, cli[q].name = "init"
                 PROVE  /\ cli[q].existing # "none"
                        /\ InLock(cli[q]) =>
                             /\ Kept(cli[q].before["config"], cli[q].before["backup"])
                             /\ /\ cli[q].existing = "manual"
                                /\ cli[q].pc \in (Early \cup Late) \ {"backup"}
                                => IsManual(file'["backup"])
                             /\ cli[q].journal.modified["config"] # Absent =>
                                  IsManual(file'["backup"])
      BY <1>7
    <3>1. InLock(cli[q]) => file'["backup"] = file["backup"]
      BY <1>3 DEF Important
    <3> QED BY <3>1, <1>10 DEF HasSettings
  <2> QED BY <1>10, <2>2 DEF HasSettings, HasSettingsOf, Kept, IsManual, InLock
<1>11. ASSUME LostBy(p) PROVE NoSettings' /\ Lost
  <2>1. \A q \in Process \ {p} : ~InLock(cli'[q])
    BY <1>3, <1>7, <1>11 DEF LostBy
  <2>2. NoSettings'
    BY <2>1, <1>11 DEF LostBy, NoSettings, NoSettingsOf, IsManual, InLock
  <2>3. Lost BY <1>11 DEF LostBy, Lost
  <2> QED BY <2>2, <2>3
<1>12. NoSettings' \/ HasSettings'
  BY <1>9, <1>10, <1>11 DEF Consistent
<1>13. HasSettings => HasSettings' \/ Lost BY <1>10, <1>11
<1> HIDE DEF NoSettings, HasSettings
<1> QED BY <1>1, <1>2, <1>5, <1>6, <1>8, <1>12, <1>13
        DEF Consistent, Complete, Keeps

-----------------------------------------------------------------------------
(* What the usual changes of a command leave.                              *)

\* The rest of a command when its place, its journal or its nested journal
\* changes.
Rest(c, d) ==
  /\ d.name = c.name /\ d.existing = c.existing /\ d.before = c.before
  /\ d.number = c.number /\ d.planner = c.planner /\ d.mode = c.mode
  /\ d.failed = c.failed

\* Equal as far as the important files go.
SameJournal(j, k) ==
  /\ \A f \in Important : /\ f \in Created(k) <=> f \in Created(j)
                          /\ k.modified[f] = j.modified[f]
  /\ Ordered(j) => Ordered(k)

LEMMA DoneTyped == Done \in Command /\ Done.name = "none" /\ Done.pc = "idle"
BY EmptyJournal, NoFiles, Contents
   DEF Done, Command, Places, ExcludeFiles, Number

LEMMA EndsFacts ==
  ASSUME Typed, NEW p \in Process, Ends(p)
  PROVE  /\ cli' \in [Process -> Command]
         /\ \A q \in Process \ {p} : cli'[q] = cli[q]
         /\ cli'[p].name = "none" /\ cli'[p].pc = "idle"
BY DoneTyped DEF Typed, Ends

LEMMA GotoFacts ==
  ASSUME Typed, NEW p \in Process, NEW place \in Places, Goto(p, place)
  PROVE  /\ cli' \in [Process -> Command]
         /\ \A q \in Process \ {p} : cli'[q] = cli[q]
         /\ cli'[p].pc = place /\ cli'[p].journal = cli[p].journal
         /\ Rest(cli[p], cli'[p])
BY DEF Typed, Goto, Command, Rest

LEMMA JournalFacts ==
  ASSUME Typed, NEW p \in Process, NEW place \in Places, NEW j \in Journals,
         cli' = [cli EXCEPT ![p].journal = j, ![p].pc = place]
  PROVE  /\ cli' \in [Process -> Command]
         /\ \A q \in Process \ {p} : cli'[q] = cli[q]
         /\ cli'[p].pc = place /\ cli'[p].journal = j
         /\ Rest(cli[p], cli'[p])
<1> DEFINE d == [cli[p] EXCEPT !.journal = j, !.pc = place]
<1>1. cli[p] \in Command /\ cli \in [Process -> Command] BY DEF Typed
<1>2. d \in Command BY <1>1 DEF Command
<1>3. /\ d.pc = place /\ Rest(cli[p], d)
      /\ d.journal = j
  BY <1>1 DEF Command, Rest
<1>4. cli' = [cli EXCEPT ![p] = d] BY <1>1, Zenon DEF Command
<1> HIDE DEF d
<1> QED BY <1>1, <1>2, <1>3, <1>4

LEMMA NestedFacts ==
  ASSUME Typed, NEW p \in Process, NEW place \in Places, NEW b \in BOOLEAN,
         cli' = [cli EXCEPT ![p].pc = place, ![p].nested = b]
  PROVE  /\ cli' \in [Process -> Command]
         /\ \A q \in Process \ {p} : cli'[q] = cli[q]
         /\ cli'[p].pc = place /\ cli'[p].journal = cli[p].journal
         /\ Rest(cli[p], cli'[p])
<1> DEFINE d == [cli[p] EXCEPT !.pc = place, !.nested = b]
<1>1. cli[p] \in Command /\ cli \in [Process -> Command] BY DEF Typed
<1>2. d \in Command BY <1>1 DEF Command
<1>3. /\ d.pc = place /\ Rest(cli[p], d)
      /\ d.journal = cli[p].journal
  BY <1>1 DEF Command, Rest
<1>4. cli' = [cli EXCEPT ![p] = d] BY <1>1, Zenon DEF Command
<1> HIDE DEF d
<1> QED BY <1>1, <1>2, <1>3, <1>4

LEMMA SameSame == \A j : SameJournal(j, j)
BY DEF SameJournal

\* A step that leaves the important files and their part of the journal.
LEMMA QuietAttempt ==
  ASSUME NEW c, NEW d, \A f \in Important : file'[f] = file[f], Sound' => Sound,
         d.before = c.before, d.failed = c.failed,
         SameJournal(c.journal, d.journal), AttemptTrue(c)
  PROVE  AttemptTrue(d)'
<1>1. \A f \in Important :
        /\ f \in Created(d.journal) <=> f \in Created(c.journal)
        /\ d.journal.modified[f] = c.journal.modified[f]
        /\ Untouched(d.journal, f) <=> Untouched(c.journal, f)
        /\ file'[f] = file[f]
  BY DEF SameJournal, Untouched
<1>2. \A f \in Important :
        /\ f \in Created(d.journal) => d.before[f] = Absent
        /\ d.journal.modified[f] \in {Absent, d.before[f]}
        /\ Untouched(d.journal, f) /\ f \notin d.failed => file'[f] = d.before[f]
        /\ f # "config" => /\ d.journal.modified[f] = Absent
                           /\ f \in d.failed => d.before[f] = Absent
  BY <1>1 DEF AttemptTrue
<1>3. Ordered(d.journal) BY DEF SameJournal, AttemptTrue
<1>4. /\ "config" \in d.failed \/ "token" \in d.failed => ~Sound'
      /\ IsManaged(d.before["config"]) /\ Sound' =>
           d.before["server"] # Absent /\ d.before["token"] \notin {Absent, {}}
  BY DEF AttemptTrue
<1> HIDE DEF Sound
<1> QED BY <1>2, <1>3, <1>4 DEF AttemptTrue, Untouched, IsManaged, Created, Ordered

LEMMA QuietStage ==
  ASSUME NEW c, NEW d, \A f \in Important : file'[f] = file[f], Sound' => Sound,
         d.before = c.before, d.existing = c.existing, d.failed = c.failed,
         SameJournal(c.journal, d.journal), StageTrue(c),
         \/ d.pc \in {"rollback", "unlock"}
         \/ /\ c.pc \in Late \ {"report"} /\ d.pc \in Late
            /\ c.existing = "managed" => d.pc \notin {"config", "history"}
            /\ c.existing # "managed" => c.pc # "history" /\ d.pc # "update"
  PROVE  StageTrue(d)'
<1>1. \A f \in {"config", "server", "token", "backup"} :
        /\ f \in Created(d.journal) <=> f \in Created(c.journal)
        /\ Untouched(d.journal, f) <=> Untouched(c.journal, f)
        /\ file'[f] = file[f]
  BY DEF SameJournal, Untouched, Important
<1>2. d.pc # "check" /\ d.pc \notin Early
  BY DEF Late, Early, Installing
<1>3. CASE d.pc \in {"rollback", "unlock"}
  BY <1>2, <1>3 DEF StageTrue, Late, Early, Installing, Ending
<1>4. CASE d.pc \notin {"rollback", "unlock"}
  <2>1. c.pc \in Late \ {"report"} /\ d.pc \in Late BY <1>4
  <2>2. d.existing = "managed" => d.pc \notin {"config", "history"}
    BY <1>4
  <2>3. ASSUME d.existing # "managed"
        PROVE  /\ d.pc # "update" /\ d.before["server"] = Absent
               /\ Untouched(d.journal, "config")
               /\ file'["token"] # Absent /\ file'["server"] # Absent
               /\ Sound' => file'["token"] # {}
    <3>1. /\ c.existing # "managed" /\ c.pc # "history" /\ d.pc # "update"
      BY <1>4, <2>3
    <3>2. /\ c.before["server"] = Absent /\ Untouched(c.journal, "config")
          /\ file["token"] # Absent /\ file["server"] # Absent
          /\ Sound => file["token"] # {}
      BY <3>1, <2>1 DEF StageTrue
    <3> QED BY <3>1, <3>2, <1>1
  <2>a. d.existing = "managed" => Untouched(d.journal, "config")
    BY <1>1, <2>1 DEF StageTrue
  <2>b. d.failed = {}
    BY <2>1 DEF StageTrue, Late, Ending, Installing
  <2> HIDE DEF Early, Late, Sound
  <2>4. d.pc \notin {"backup", "token", "secret", "server"} BY <1>2 DEF Early
  <2> QED BY <1>2, <2>1, <2>2, <2>3, <2>4, <2>a, <2>b
          DEF StageTrue, Untouched, IsManaged, Created
<1> QED BY <1>3, <1>4

LEMMA QuietStep ==
  ASSUME Consistent, NEW p \in Process, OnlyBy(p), LockMoves(p),
         \A f \in Important : file'[f] = file[f], Routes(cli[p])',
         Sound' /\ file["token"] = {} /\ Filler(cli[p]) =>
           cli'[p].name = "init" /\ cli'[p].pc = "rollback",
         cli'[p].name = "init" =>
           /\ cli[p].name = "init" /\ InLock(cli[p]) /\ cli'[p].pc # "lock"
           /\ Rest(cli[p], cli'[p])
           /\ SameJournal(cli[p].journal, cli'[p].journal)
           /\ \/ cli'[p].pc \in {"rollback", "unlock"}
              \/ /\ cli[p].pc \in Late \ {"report"} /\ cli'[p].pc \in Late
                 /\ cli[p].existing = "managed" =>
                      cli'[p].pc \notin {"config", "history"}
                 /\ cli[p].existing # "managed" =>
                      cli[p].pc # "history" /\ cli'[p].pc # "update"
              \/ /\ StageTrue(cli[p])'
                 /\ /\ cli[p].existing = "manual"
                    /\ cli'[p].pc \in (Early \cup Late) \ {"backup"}
                    => \/ cli[p].pc \in (Early \cup Late) \ {"backup"}
                       \/ HasSettings => IsManual(file["backup"])
  PROVE  Keeps
<1>1. /\ file'["config"] = file["config"] /\ file'["backup"] = file["backup"]
      /\ file'["server"] = file["server"] /\ file'["token"] = file["token"]
  BY DEF Important
<1>2. Usable' BY <1>1 DEF Consistent, Complete, Usable, IsManaged, OnlyBy
<1>3. PICK c : c = cli[p] OBVIOUS
<1>4. PICK d : d = cli'[p] OBVIOUS
<1>a. Sound' => Sound BY DEF OnlyBy
<1>5. CASE d.name # "init"
  <2>1. AttemptOf(p)' BY <1>4, <1>5 DEF AttemptOf
  <2>2. NoSettings => NoSettingsOf(p)'
    BY <1>1, <1>4, <1>5 DEF NoSettings, NoSettingsOf, IsManual
  <2>3. HasSettings => HasSettingsOf(p)'
    BY <1>1, <1>4, <1>5 DEF HasSettings, HasSettingsOf, IsManual, Kept
  <2>4. TokenOf(p) BY <1>1, <1>4, <1>5 DEF TokenOf
  <2> QED BY <1>2, <2>1, <2>2, <2>3, <2>4, Composes
<1>6. CASE d.name = "init"
  <2>1. AttemptTrue(c) /\ StageTrue(c)
    BY <1>3, <1>4, <1>6 DEF Consistent, Attempts
  <2>2. AttemptTrue(d)'
    BY <1>a, <1>3, <1>4, <1>6, <2>1, QuietAttempt DEF Rest
  <2>3. AttemptTrue(cli[p])' BY <2>2, <1>4 DEF AttemptTrue
  <2>4. StageTrue(cli[p])'
    <3>1. CASE StageTrue(cli[p])' BY <3>1
    <3>2. CASE ~StageTrue(cli[p])'
      <4>1. /\ \/ d.pc \in {"rollback", "unlock"}
               \/ /\ c.pc \in Late \ {"report"} /\ d.pc \in Late
                  /\ c.existing = "managed" => d.pc \notin {"config", "history"}
                  /\ c.existing # "managed" => c.pc # "history" /\ d.pc # "update"
            /\ Rest(c, d) /\ SameJournal(c.journal, d.journal)
        BY <1>3, <1>4, <1>6, <3>2
      <4>2. StageTrue(d)'
        BY <1>a, <2>1, <4>1, QuietStage DEF Rest
      <4> QED BY <4>2, <1>4 DEF StageTrue
    <3> QED BY <3>1, <3>2
  <2>5. AttemptOf(p)' BY <1>4, <1>6, <2>3, <2>4 DEF AttemptOf
  <2>6. /\ c.name = "init" /\ InLock(c) /\ Rest(c, d)
        /\ SameJournal(c.journal, d.journal)
        /\ /\ d.existing = "manual" /\ d.pc \in (Early \cup Late) \ {"backup"}
           => \/ c.pc \in (Early \cup Late) \ {"backup"}
              \/ HasSettings => IsManual(file["backup"])
    BY <1>3, <1>4, <1>6 DEF Rest, Early, Late, Installing
  <2>b. /\ d.journal.modified["config"] = c.journal.modified["config"]
        /\ "token" \in Created(d.journal) <=> "token" \in Created(c.journal)
    BY <2>6 DEF SameJournal, Important
  <2>7. NoSettings => NoSettingsOf(p)'
    <3> SUFFICES ASSUME NoSettings PROVE NoSettingsOf(p)' OBVIOUS
    <3>1. ~IsManual(c.journal.modified["config"])
      BY <1>3, <2>6 DEF NoSettings
    <3> QED BY <1>1, <1>4, <3>1, <2>b DEF NoSettings, NoSettingsOf, IsManual
  <2>8. HasSettings => HasSettingsOf(p)'
    <3> SUFFICES ASSUME HasSettings PROVE HasSettingsOf(p)' OBVIOUS
    <3>1. /\ c.existing # "none"
          /\ Kept(c.before["config"], c.before["backup"])
          /\ /\ c.existing = "manual" /\ c.pc \in (Early \cup Late) \ {"backup"}
             => IsManual(file["backup"])
          /\ c.journal.modified["config"] # Absent => IsManual(file["backup"])
      BY <1>3, <2>6 DEF HasSettings
    <3>2. d.existing = c.existing /\ d.before = c.before BY <2>6 DEF Rest
    <3>3. /\ d.existing = "manual" /\ d.pc \in (Early \cup Late) \ {"backup"}
          => IsManual(file["backup"])
      BY <3>1, <3>2, <2>6
    <3> HIDE DEF Early, Late
    <3> QED BY <1>1, <1>4, <3>1, <3>2, <3>3, <2>b
            DEF HasSettings, HasSettingsOf, IsManual, Kept
  <2>9. TokenOf(p)
    <3> SUFFICES ASSUME Sound', file["token"] = {}, Filler(c) PROVE Filler(d)
      BY <1>1, <1>3, <1>4 DEF TokenOf
    <3>1. d.pc = "rollback" BY <1>3, <1>4
    <3> QED BY <1>6, <2>b, <3>1 DEF Filler
  <2> QED BY <1>2, <2>5, <2>7, <2>8, <2>9, Composes
<1> QED BY <1>5, <1>6

LEMMA EndStep ==
  ASSUME Consistent, NEW p \in Process, Ends(p), file' \in Present,
         \A f \in Important : file'[f] = file[f], LockMoves(p),
         Sound' /\ file["token"] = {} => ~Filler(cli[p]),
         spoilt' \in BOOLEAN, Sound' => Sound,
         given' \in 0..MaxCommands, faults' \in 0..MaxFaults
  PROVE  Keeps
<1>1. /\ cli' \in [Process -> Command] /\ cli'[p].name = "none"
      /\ \A q \in Process \ {p} : cli'[q] = cli[q]
      /\ cli'[p].pc = "idle"
  BY EndsFacts DEF Consistent
<1>2. Routes(cli[p])' BY <1>1 DEF Routes
<1> QED BY <1>1, <1>2, QuietStep DEF OnlyBy

LEMMA Here ==
  ASSUME Consistent, NEW p \in Process
  PROVE  /\ Typed /\ cli[p] \in Command /\ Routes(cli[p])
         /\ cli[p].pc \in Places /\ cli[p].journal \in Journals
         /\ cli[p].name \in {"none", "init", "skill", "mode"}
         /\ cli[p].existing \in {"none", "manual", "managed"}
         /\ given \in 0..MaxCommands /\ faults \in 0..MaxFaults
         /\ spoilt \in BOOLEAN
         /\ file \in Files /\ file \in Present /\ file["excludes"] # Absent
         /\ \A f \in File : file[f] \in Content(f) \cup {Absent}
         /\ InLock(cli[p]) => serviceLock = p
         /\ cli[p].name = "init" /\ InLock(cli[p]) =>
              AttemptTrue(cli[p]) /\ StageTrue(cli[p])
BY CommandTyped, FileAt DEF Consistent, Typed, Present, Attempts, Excluded

-----------------------------------------------------------------------------
(* Commands begin, lock, unlock and are killed.                            *)

LEMMA BeginsFacts ==
  ASSUME Typed, NEW p \in Process, NEW command \in Command, Begins(p, command)
  PROVE  /\ cli' \in [Process -> Command]
         /\ \A q \in Process \ {p} : cli'[q] = cli[q]
         /\ cli'[p].name = command.name /\ cli'[p].pc = command.pc
         /\ cli'[p].existing = command.existing
         /\ cli'[p].journal = command.journal /\ cli'[p].failed = command.failed
         /\ cli'[p].number \in Number /\ cli[p].pc = "idle"
         /\ given' \in 0..MaxCommands
         /\ UNCHANGED <<file, serviceLock, spoilt, faults>>
<1>1. given + 1 \in Number
  BY InstallationAssumption DEF Typed, Begins, Number
<1> DEFINE d == [command EXCEPT !.number = given + 1]
<1>2. d \in Command /\ d.number = given + 1 /\ d.name = command.name
      /\ d.pc = command.pc /\ d.existing = command.existing
      /\ d.journal = command.journal /\ d.number \in Number
      /\ d.failed = command.failed
  BY <1>1 DEF Command
<1>3. cli' = [cli EXCEPT ![p] = d] /\ cli[p].pc = "idle" BY DEF Begins, At
<1>4. given' \in 0..MaxCommands /\ UNCHANGED <<file, serviceLock, spoilt, faults>>
  BY <1>1 DEF Begins, Number
<1> HIDE DEF d
<1> QED BY <1>2, <1>3, <1>4 DEF Typed

LEMMA InitCommandKeeps ==
  ASSUME Consistent, NEW p \in Process, NEW planner \in BOOLEAN,
         NEW mode \in Mode \cup {"unset"}, InitCommand(p, planner, mode)
  PROVE  Keeps
<1> DEFINE existing == IF file["config"] = Absent THEN "none"
                       ELSE file["config"].config
           command == [Done EXCEPT
             !.pc = "lock", !.name = "init", !.planner = planner, !.mode = mode,
             !.existing = existing]
<1>1. file["config"] \in Content("config") \cup {Absent} BY Here, FileNames
<1>b. file["config"] # Damaged BY DEF InitCommand
<1>2. existing \in {"none", "manual", "managed"}
  BY <1>1, <1>b, Contents DEF Managed, Manual
<1>3. Begins(p, command) BY DEF InitCommand
<1>a. file["config"] # Absent => existing # "none"
  BY <1>1, <1>b, Contents DEF Managed, Manual
<1> HIDE DEF existing
<1>4. /\ command \in Command /\ command.pc = "lock" /\ command.name = "init"
      /\ command.existing = existing /\ command.journal = NoJournal
      /\ command.failed = {}
  BY <1>2, DoneTyped DEF Done, Command, Places
<1> HIDE DEF command
<1>5. /\ cli' \in [Process -> Command]
      /\ \A q \in Process \ {p} : cli'[q] = cli[q]
      /\ cli'[p].name = "init" /\ cli'[p].pc = "lock"
      /\ cli'[p].existing = existing /\ cli'[p].journal = NoJournal
      /\ cli'[p].failed = {} /\ cli'[p].number \in Number /\ cli[p].pc = "idle"
      /\ given' \in 0..MaxCommands
      /\ UNCHANGED <<file, serviceLock, spoilt, faults>>
  BY <1>3, <1>4, BeginsFacts, Here
<1>6. OnlyBy(p) /\ LockMoves(p)
  BY <1>5, Here DEF OnlyBy, LockMoves, InLock, Sound
<1>7. (Routes(cli[p]) /\ AttemptOf(p) /\ Usable)' /\ TokenOf(p)
  BY <1>5 DEF Routes, AttemptOf, InLock, Consistent, Complete, Usable, Sound,
              IsManaged, TokenOf, Filler
<1>8. NoSettings => NoSettingsOf(p)'
  BY <1>5 DEF NoSettings, NoSettingsOf, IsManual, InLock
<1>9. HasSettings => HasSettingsOf(p)'
  BY <1>5, <1>a DEF HasSettings, HasSettingsOf, IsManual, InLock, Kept
<1> QED BY <1>6, <1>7, <1>8, <1>9, Composes

LEMMA BeginOtherKeeps ==
  ASSUME Consistent, NEW p \in Process, NEW command \in Command,
         Begins(p, command),
         \/ command.name = "skill" /\ command.pc = "skill"
         \/ command.name = "mode" /\ command.pc = "lock"
  PROVE  Keeps
<1>1. /\ cli' \in [Process -> Command]
      /\ \A q \in Process \ {p} : cli'[q] = cli[q]
      /\ cli'[p].name = command.name /\ cli'[p].pc = command.pc
      /\ cli'[p].number \in Number /\ cli[p].pc = "idle"
      /\ given' \in 0..MaxCommands
      /\ UNCHANGED <<file, serviceLock, spoilt, faults>>
  BY BeginsFacts, Here
<1>2. OnlyBy(p) /\ LockMoves(p)
  BY <1>1, Here DEF OnlyBy, LockMoves, InLock, Sound
<1>3. Routes(cli[p])' BY <1>1 DEF Routes
<1>4. ~Filler(cli[p]) BY <1>1 DEF Filler
<1> QED BY <1>1, <1>2, <1>3, <1>4, QuietStep

LEMMA BeginKeeps ==
  ASSUME Consistent, NEW p \in Process, Begin(p)
  PROVE  Keeps
<1>1. CASE \E planner \in BOOLEAN, mode \in Mode \cup {"unset"} :
             InitCommand(p, planner, mode)
  BY <1>1, InitCommandKeeps
<1>2. CASE SkillCommand(p)
  <2> DEFINE c == [Done EXCEPT !.pc = "skill", !.name = "skill", !.planner = TRUE]
  <2>1. c \in Command /\ c.name = "skill" /\ c.pc = "skill"
    BY DoneTyped DEF Done, Command, Places, Attempting
  <2>2. Begins(p, c) BY <1>2 DEF SkillCommand
  <2> QED BY <2>1, <2>2, BeginOtherKeeps
<1>3. ASSUME NEW mode \in Mode, ModeCommand(p, mode) PROVE Keeps
  <2> DEFINE c == [Done EXCEPT !.pc = "lock", !.name = "mode", !.mode = mode]
  <2>1. c \in Command /\ c.name = "mode" /\ c.pc = "lock"
    BY DoneTyped DEF Done, Command, Places
  <2>2. Begins(p, c) BY <1>3 DEF ModeCommand
  <2> QED BY <2>1, <2>2, BeginOtherKeeps
<1> QED BY <1>1, <1>2, <1>3, Zenon DEF Begin

LEMMA TakeLockKeeps ==
  ASSUME Consistent, NEW p \in Process, TakeLock(p)
  PROVE  Keeps
<1>1. /\ cli[p].pc = "lock" /\ cli[p].name \in {"init", "mode"}
      /\ UNCHANGED <<file, spoilt, given, faults>>
  BY Here DEF TakeLock, At, Routes, Attempting, Installing, counters
<1>4. ~Filler(cli[p]) BY <1>1 DEF Filler
<1>2. CASE serviceLock = NoProcess
  <2> DEFINE place == IF Named(p, "init") THEN "check" ELSE "mode"
             d == [cli[p] EXCEPT !.pc = place, !.before = file]
  <2>1. /\ serviceLock' = p
        /\ cli' = [cli EXCEPT ![p].pc = place, ![p].before = file]
    BY <1>2, InstallationAssumption DEF TakeLock
  <2>2. place \in {"check", "mode"} /\ place \in Places
        /\ (place = "check" <=> cli[p].name = "init")
    BY DEF Named, Places, Attempting
  <2> HIDE DEF place
  <2>3. /\ d \in Command /\ d.pc = place /\ d.before = file
        /\ d.name = cli[p].name /\ d.existing = cli[p].existing
        /\ d.number = cli[p].number
        /\ d.journal = cli[p].journal /\ d.failed = cli[p].failed
    BY <2>2, Here DEF Command
  <2>4. cli' = [cli EXCEPT ![p] = d] BY <2>1, Here, Zenon DEF Typed, Command
  <2> HIDE DEF d
  <2>5. /\ cli' \in [Process -> Command] /\ cli'[p] = d
        /\ \A q \in Process \ {p} : cli'[q] = cli[q]
    BY <2>3, <2>4, Here DEF Typed
  <2>6. OnlyBy(p) /\ LockMoves(p)
    BY <1>1, <1>2, <2>1, <2>5, Here DEF OnlyBy, LockMoves, Sound
  <2>7. Routes(cli[p])' /\ Usable'
    BY <1>1, <2>2, <2>3, <2>5, Here
       DEF Routes, Attempting, Consistent, Complete, Usable, Sound, IsManaged
  <2>a. d.name = "init" => d.journal = NoJournal /\ d.failed = {} /\ d.pc = "check"
    BY <1>1, <2>2, <2>3 DEF Consistent, Attempts
  <2>8. AttemptOf(p)'
    <3> SUFFICES ASSUME d.name = "init"
                 PROVE  d.pc # "lock" /\ (AttemptTrue(cli[p]) /\ StageTrue(cli[p]))'
      BY <2>5 DEF AttemptOf
    <3>1. d.journal = NoJournal /\ d.pc = "check" /\ d.failed = {} BY <2>a
    <3>2. AttemptTrue(cli[p])'
      <4>1. d.before = file /\ file' = file BY <1>1, <2>3
      <4>2. \A f \in Important :
              /\ f \notin Created(d.journal) /\ d.journal.modified[f] = Absent
              /\ file'[f] = d.before[f]
        BY <3>1, <4>1, EmptyJournal, ImportantFiles
      <4>3. Ordered(d.journal) BY <3>1, EmptyJournal
      <4>4. IsManaged(d.before["config"]) /\ Sound' =>
              d.before["server"] # Absent /\ d.before["token"] \notin {Absent, {}}
        BY <4>1, <1>1 DEF Consistent, Complete, Usable, Sound
      <4> HIDE DEF Sound
      <4> QED BY <2>5, <3>1, <4>2, <4>3, <4>4
              DEF AttemptTrue, Untouched, IsManaged, Important, Ordered, Created
    <3>3. StageTrue(cli[p])'
      BY <2>5, <3>1 DEF StageTrue, Early, Late, Installing
    <3> QED BY <3>1, <3>2, <3>3
  <2>9. NoSettings => NoSettingsOf(p)'
    <3>1. d.name = "init" => ~IsManual(d.journal.modified["config"])
      BY <2>a, EmptyJournal, FileNames DEF IsManual
    <3> QED BY <1>1, <2>5, <3>1 DEF NoSettings, NoSettingsOf, IsManual
  <2>10. HasSettings => HasSettingsOf(p)'
    <3>1. d.name = "init" => /\ d.pc \notin Early \cup Late
                             /\ d.journal.modified["config"] = Absent
      BY <2>a, EmptyJournal, FileNames DEF Early, Late, Installing
    <3> QED BY <1>1, <2>3, <2>5, <3>1 DEF HasSettings, HasSettingsOf, IsManual, Kept
  <2>11. TokenOf(p) BY <1>1, <1>4 DEF TokenOf
  <2> QED BY <2>6, <2>7, <2>8, <2>9, <2>10, <2>11, Composes
<1>3. CASE serviceLock # NoProcess
  <2>1. Ends(p) /\ serviceLock' = serviceLock BY <1>3 DEF TakeLock
  <2>2. cli'[p].name = "none" BY <2>1, EndsFacts, Here
  <2>3. LockMoves(p) BY <2>1, <2>2 DEF LockMoves, InLock
  <2> QED BY <1>1, <1>4, <2>1, <2>3, EndStep, Here DEF Sound
<1> QED BY <1>2, <1>3

LEMMA UnlockKeeps ==
  ASSUME Consistent, NEW p \in Process, Unlock(p)
  PROVE  Keeps
<1>1. cli[p].pc = "unlock" /\ cli[p].name \in {"init", "mode"}
  BY Here DEF Unlock, At, Routes, Installing
<1>2. serviceLock = p BY <1>1, Here DEF InLock
<1>3. Ends(p) /\ serviceLock' = NoProcess /\ UNCHANGED <<file, spoilt, given, faults>>
  BY DEF Unlock, counters
<1>4. cli'[p].name = "none" BY <1>3, EndsFacts, Here
<1>5. LockMoves(p) BY <1>2, <1>3, <1>4 DEF LockMoves, InLock
<1>6. ~Filler(cli[p]) BY <1>1 DEF Filler
<1> QED BY <1>3, <1>5, <1>6, EndStep, Here DEF Sound

LEMMA KillKeeps ==
  ASSUME Consistent, NEW p \in Process, Kill(p)
  PROVE  Keeps
<1>1. /\ Ends(p) /\ UNCHANGED <<file, serviceLock, given>>
      /\ faults' \in 0..MaxFaults
      /\ spoilt' = \/ spoilt
                   \/ "token" \in Created(cli[p].journal) /\ file["token"] = {}
  BY Here, InstallationAssumption DEF Kill
<1>2. cli'[p].name = "none" BY <1>1, EndsFacts, Here
<1>3. LockMoves(p) BY <1>1, <1>2 DEF LockMoves, InLock
<1>4. spoilt' \in BOOLEAN BY <1>1
<1>5. /\ Sound' => Sound
      /\ Sound' /\ file["token"] = {} => ~Filler(cli[p])
  BY <1>1, Here DEF Sound, Filler
<1> QED BY <1>1, <1>3, <1>4, <1>5, EndStep, Here

LEMMA ReleaseKeeps ==
  ASSUME Consistent, NEW p \in Process, Release(p)
  PROVE  Keeps
<1>1. cli[p].pc = "release" /\ cli[p].name = "mode"
  BY Here DEF Release, At, Routes, Attempting, Installing, Ending
<1>2. serviceLock = p BY <1>1, Here DEF InLock
<1>3. /\ Goto(p, "append") /\ serviceLock' = NoProcess
      /\ UNCHANGED <<file, spoilt, given, faults>>
  BY DEF Release, counters
<1>4. /\ cli' \in [Process -> Command]
      /\ \A q \in Process \ {p} : cli'[q] = cli[q]
      /\ cli'[p].pc = "append" /\ cli'[p].name = "mode"
      /\ cli'[p].number = cli[p].number
  BY <1>1, <1>3, GotoFacts, Here DEF Places, Rest
<1>5. OnlyBy(p) /\ LockMoves(p)
  BY <1>2, <1>3, <1>4, Here DEF OnlyBy, LockMoves, InLock, Sound
<1>6. Routes(cli[p])' BY <1>1, <1>4, Here DEF Routes
<1>7. ~Filler(cli[p]) BY <1>1 DEF Filler
<1> QED BY <1>3, <1>4, <1>5, <1>6, <1>7, QuietStep

\* A human removes a lock nobody is inside of, or moves server.json aside.
LEMMA HumanKeeps ==
  ASSUME Consistent, RemoveLock \/ MoveAside
  PROVE  Keeps
<1>1. /\ cli' = cli /\ UNCHANGED <<spoilt, given, faults>>
      /\ serviceLock' \in {serviceLock, NoProcess}
  BY DEF RemoveLock, MoveAside, counters
<1>2. ASSUME NEW p \in Process, InLock(cli[p])
      PROVE  file' = file /\ serviceLock' = p
  <2>1. serviceLock = p BY <1>2 DEF Consistent, Excluded
  <2>2. ~MoveAside BY <2>1, InstallationAssumption DEF MoveAside
  <2>3. ~RemoveLock BY <2>1, <1>2 DEF RemoveLock, Holds, InLock
  <2> QED BY <2>2, <2>3
<1>3. Excluded'
  BY <1>1, <1>2 DEF Excluded, InLock
<1>4. \A p \in Process : Routes(cli[p])' BY <1>1 DEF Consistent, Routes
<1>5. /\ file' \in Present /\ file'["config"] = file["config"]
      /\ file'["backup"] = file["backup"] /\ file'["token"] = file["token"]
      /\ file'["server"] # file["server"] => ~IsManaged(file["config"])
  <2>1. file \in Present BY DEF Consistent, Typed
  <2>2. CASE RemoveLock BY <2>1, <2>2 DEF RemoveLock
  <2>3. CASE MoveAside
    <3>1. /\ file' = [file EXCEPT !["server"] = Absent]
          /\ ~IsManaged(file["config"])
      BY <2>3 DEF MoveAside
    <3>2. "server" \in File /\ Absent \in Content("server") \cup {Absent}
      BY FileNames
    <3>3. file' \in Present /\ \A h \in File \ {"server"} : file'[h] = file[h]
      BY <2>1, <3>1, <3>2, Written
    <3> QED BY <3>1, <3>3, FileNames
  <2> QED BY <2>2, <2>3
<1>6. Typed' BY <1>1, <1>5 DEF Consistent, Typed
<1>7. Complete'
  BY <1>1, <1>5 DEF Consistent, Complete, Usable, Filled, Filler, Sound, IsManaged
<1>8. Attempts'
  <2> SUFFICES ASSUME NEW p \in Process, cli[p].name = "init"
               PROVE  /\ cli[p].pc = "lock" =>
                           cli[p].journal = NoJournal /\ cli[p].failed = {}
                      /\ InLock(cli[p]) => (AttemptTrue(cli[p]) /\ StageTrue(cli[p]))'
    BY <1>1 DEF Attempts, InLock
  <2>1. cli[p].pc = "lock" => cli[p].journal = NoJournal /\ cli[p].failed = {}
    BY DEF Consistent, Attempts
  <2>2. ASSUME InLock(cli[p]) PROVE (AttemptTrue(cli[p]) /\ StageTrue(cli[p]))'
    <3>1. AttemptTrue(cli[p]) /\ StageTrue(cli[p])
      BY <2>2 DEF Consistent, Attempts
    <3>2. file' = file BY <1>2, <2>2
    <3> QED BY <3>1, <3>2, <1>1
            DEF AttemptTrue, StageTrue, Untouched, IsManaged, Ordered, Created, Sound
  <2> QED BY <2>1, <2>2
<1>9. NoSettings => NoSettings'
  BY <1>1, <1>5 DEF NoSettings, IsManual, InLock
<1>10. HasSettings => HasSettings'
  BY <1>1, <1>5 DEF HasSettings, IsManual, InLock, Kept
<1> QED BY <1>3, <1>4, <1>6, <1>7, <1>8, <1>9, <1>10 DEF Consistent, Keeps

-----------------------------------------------------------------------------
(* Steps that leave the important files alone.                             *)

LEMMA WriteElsewhere ==
  ASSUME Typed, NEW f \in File \ Important, NEW v \in Content(f) \cup {Absent},
         file' = [file EXCEPT ![f] = v], f = "excludes" => v # Absent
  PROVE  file' \in Present /\ \A h \in Important : file'[h] = file[h]
<1>1. file \in Present /\ f \in File BY DEF Typed
<1>2. file' \in Present /\ \A h \in File \ {f} : file'[h] = file[h]
  BY <1>1, Written
<1> QED BY <1>2, ImportantFiles

\* The change of a command at one of the later places.
Continues(p, place) ==
  /\ cli' \in [Process -> Command] /\ file' \in Present
  /\ \A q \in Process \ {p} : cli'[q] = cli[q]
  /\ \A f \in Important : file'[f] = file[f]
  /\ UNCHANGED <<serviceLock, spoilt, counters>>
  /\ cli'[p].pc = place /\ Rest(cli[p], cli'[p])
  /\ SameJournal(cli[p].journal, cli'[p].journal)

LEMMA ContinuesKeeps ==
  ASSUME Consistent, NEW p \in Process, NEW place, Continues(p, place),
         cli[p].name \in {"init", "skill"}, cli[p].pc \in Late,
         cli[p].name = "skill" =>
           place \in {"excludes", "exclude"} \cup (Installing \ {"raze"}),
         cli[p].name = "init" =>
           \/ place \in {"rollback", "unlock"}
           \/ /\ place \in Late /\ cli[p].pc # "report"
              /\ cli[p].existing = "managed" => place \notin {"config", "history"}
              /\ cli[p].existing # "managed" =>
                   cli[p].pc # "history" /\ place # "update"
  PROVE  Keeps
<1>1. cli[p].pc \notin {"idle", "lock", "append"} BY DEF Late, Installing
<1>2. /\ cli'[p].name = cli[p].name /\ cli'[p].pc = place
      /\ cli'[p].number = cli[p].number
  BY DEF Continues, Rest
<1>3. OnlyBy(p) /\ LockMoves(p)
  BY <1>1, <1>2, Here DEF OnlyBy, LockMoves, Continues, InLock, Sound, counters
<1>4. Routes(cli[p])'
  BY <1>2, Here DEF Routes, Late, Attempting, Ending, Installing
<1>5. cli[p].name = "init" => InLock(cli[p]) /\ place # "lock"
  BY <1>1 DEF InLock, Late, Installing
<1>6. ~Filler(cli[p]) BY DEF Filler, Late, Installing
<1> HIDE DEF Late
<1> QED BY <1>2, <1>3, <1>4, <1>5, <1>6, QuietStep DEF Continues

LEMMA GotoContinues ==
  ASSUME Consistent, NEW p \in Process, NEW place \in Places, Goto(p, place),
         file' \in Present, \A f \in Important : file'[f] = file[f],
         UNCHANGED <<serviceLock, spoilt, counters>>
  PROVE  Continues(p, place)
<1>1. /\ cli' \in [Process -> Command]
      /\ \A q \in Process \ {p} : cli'[q] = cli[q]
      /\ cli'[p].pc = place /\ cli'[p].journal = cli[p].journal
      /\ Rest(cli[p], cli'[p])
  BY GotoFacts, Here
<1> QED BY <1>1, SameSame DEF Continues

LEMMA EndKeeps ==
  ASSUME Consistent, NEW p \in Process, Ends(p), ~Filler(cli[p]),
         file' \in Present, \A f \in Important : file'[f] = file[f],
         UNCHANGED <<serviceLock, spoilt, counters>>
  PROVE  Keeps
<1>1. cli'[p].name = "none" BY EndsFacts, Here
<1>2. LockMoves(p) BY <1>1 DEF LockMoves, InLock
<1> QED BY <1>2, EndStep, Here DEF Sound, counters

Skilling == {"skill"} \cup Installing

LEMMA AtSkill ==
  ASSUME Consistent, NEW p \in Process, cli[p].pc \in Skilling
  PROVE  /\ cli[p].name \in {"init", "skill"} /\ cli[p].pc \in Late
         /\ cli[p].pc \notin {"history", "report"} /\ ~Filler(cli[p])
         /\ AfterSkill(p) \in Late \cap Places
         /\ cli[p].existing = "managed" => AfterSkill(p) = "update"
         /\ cli[p].existing # "managed" => AfterSkill(p) = "config"
BY Here DEF Skilling, Late, Installing, Routes, AfterSkill, Places, Attempting, Ending,
            Filler

LEMMA CreatedField ==
  ASSUME NEW c \in Command, NEW place \in Places, NEW s
  PROVE  [c EXCEPT !.pc = place, !.nested = FALSE, !.journal.created = s]
         = [c EXCEPT !.pc = place, !.nested = FALSE,
              !.journal = [c.journal EXCEPT !.created = s]]
BY DEF Command, Journals

LEMMA SkillDoneKeeps ==
  ASSUME Consistent, NEW p \in Process, cli[p].pc \in Skilling, SkillDone(p),
         file' \in Present, \A f \in Important : file'[f] = file[f],
         UNCHANGED <<serviceLock, spoilt, counters>>
  PROVE  Keeps
<1>1. CASE cli[p].name = "init"
  <2> DEFINE j == IF cli[p].nested
                  THEN [cli[p].journal EXCEPT !.created = Append(@, "skill")]
                  ELSE cli[p].journal
             place == AfterSkill(p)
             d == [cli[p] EXCEPT !.pc = place, !.nested = FALSE, !.journal = j]
  <2>1. j \in Journals /\ SameJournal(cli[p].journal, j)
    <3>1. "skill" \in Creatable /\ "skill" \notin Important
      BY FileNames DEF Creatable, Important
    <3>2. CASE cli[p].nested
      <4>1. PICK k : k = [cli[p].journal EXCEPT !.created = Append(@, "skill")]
        OBVIOUS
      <4>2. /\ k \in Journals /\ k.modified = cli[p].journal.modified
            /\ Created(k) = Created(cli[p].journal) \cup {"skill"}
            /\ Ordered(cli[p].journal) => Ordered(k)
        BY <3>1, <4>1, Appends, Here
      <4> QED BY <3>1, <3>2, <4>1, <4>2 DEF SameJournal
    <3>3. CASE ~cli[p].nested BY <3>3, SameSame, Here
    <3> QED BY <3>2, <3>3
  <2>2. cli' = [cli EXCEPT ![p].pc = place, ![p].nested = FALSE,
                  ![p].journal.created =
                     IF cli[p].nested THEN Append(@, "skill") ELSE @]
    BY <1>1, Zenon DEF SkillDone, Named
  <2>3. PICK s : s = IF cli[p].nested
                     THEN Append(cli[p].journal.created, "skill")
                     ELSE cli[p].journal.created
    OBVIOUS
  <2>4. j = [cli[p].journal EXCEPT !.created = s]
    BY <2>3, Here DEF Journals
  <2>5. cli' = [cli EXCEPT ![p] = d]
    <3> HIDE DEF j
    <3>1. place \in Places BY AtSkill
    <3> HIDE DEF place
    <3>2. cli' = [cli EXCEPT ![p].pc = place, ![p].nested = FALSE,
                    ![p].journal.created = s]
      BY <2>2, <2>3, Zenon
    <3>3. cli' = [cli EXCEPT ![p] =
            [cli[p] EXCEPT !.pc = place, !.nested = FALSE, !.journal.created = s]]
      BY <3>2, Zenon
    <3>4. [cli[p] EXCEPT !.pc = place, !.nested = FALSE, !.journal.created = s]
          = [cli[p] EXCEPT !.pc = place, !.nested = FALSE,
               !.journal = [cli[p].journal EXCEPT !.created = s]]
      BY <3>1, CreatedField, Here
    <3> QED BY <3>3, <3>4, <2>4, Zenon
  <2> HIDE DEF j
  <2>6. place \in Late \cap Places BY AtSkill
  <2> HIDE DEF place
  <2>7. d \in Command /\ d.pc = place /\ d.journal = j /\ Rest(cli[p], d)
    BY <2>1, <2>6, Here DEF Command, Rest
  <2> HIDE DEF d
  <2>8. /\ cli' \in [Process -> Command] /\ cli'[p] = d
        /\ \A q \in Process \ {p} : cli'[q] = cli[q]
    BY <2>5, <2>7, Here DEF Typed
  <2>9. Continues(p, place) BY <2>1, <2>7, <2>8 DEF Continues
  <2> QED BY <1>1, <2>9, AtSkill, ContinuesKeeps DEF place
<1>2. CASE cli[p].name # "init"
  <2>1. Goto(p, "excludes") BY <1>2 DEF SkillDone, Named
  <2>2. "excludes" \in Places BY DEF Places, Attempting
  <2>3. Continues(p, "excludes") BY <2>1, <2>2, GotoContinues
  <2> QED BY <1>2, <2>3, AtSkill, ContinuesKeeps
<1> QED BY <1>1, <1>2

LEMMA SkillFailsKeeps ==
  ASSUME Consistent, NEW p \in Process, cli[p].pc \in Skilling, SkillFails(p),
         UNCHANGED <<serviceLock, spoilt, counters>>
  PROVE  Keeps
<1>1. file' = file /\ file' \in Present BY Here DEF SkillFails
<1>2. CASE cli[p].name = "init"
  <2>1. PICK place : place = IF cli[p].nested THEN "raze" ELSE AfterSkill(p)
    OBVIOUS
  <2>2. Goto(p, place) BY <1>2, <2>1 DEF SkillFails, Named
  <2>3. /\ place \in Places /\ place \in Late
        /\ cli[p].existing = "managed" => place \in {"raze", "update"}
        /\ cli[p].existing # "managed" => place \in {"raze", "config"}
    BY <2>1, AtSkill DEF Places, Late, Installing
  <2>4. Continues(p, place) BY <1>1, <2>2, <2>3, GotoContinues
  <2> QED BY <1>2, <2>3, <2>4, AtSkill, ContinuesKeeps
<1>3. CASE cli[p].name # "init"
  <2>1. Ends(p) BY <1>3 DEF SkillFails, Named
  <2> QED BY <1>1, <2>1, AtSkill, EndKeeps
<1> QED BY <1>2, <1>3

\* A step of the installer that goes on to another of its places.
LEMMA SkillGoesKeeps ==
  ASSUME Consistent, NEW p \in Process, cli[p].pc \in Skilling,
         NEW place \in Installing \ {"raze"}, Goto(p, place),
         file' \in Present, \A f \in Important : file'[f] = file[f],
         UNCHANGED <<serviceLock, spoilt, counters>>
  PROVE  Keeps
<1>1. place \in Places /\ place \in Late /\ place \notin {"config", "history", "update"}
  BY DEF Places, Late, Installing
<1>2. Continues(p, place) BY <1>1, GotoContinues
<1> QED BY <1>1, <1>2, AtSkill, ContinuesKeeps

LEMMA SkillContents ==
  /\ "skill" \in File \ Important /\ Copy \subseteq Content("skill") \cup {Absent}
  /\ [copy |-> "part", marker |-> FALSE] \in Copy /\ Fresh \in Copy
  /\ \A b \in BOOLEAN : [copy |-> "raided", marker |-> b] \in Copy
  /\ \A c \in Content("skill") \cup {Absent} : c # Absent =>
       /\ [c EXCEPT !.marker = TRUE] \in Copy /\ c.marker \in BOOLEAN
       /\ [c EXCEPT !.copy = IF @ = "raided" THEN @ ELSE "new"] \in Copy
<1>1. Content("skill") = Copy BY Contents
<1>2. "skill" \in File \ Important BY FileNames DEF Important
<1>3. /\ [copy |-> "part", marker |-> FALSE] \in Copy /\ Fresh \in Copy
      /\ \A b \in BOOLEAN : [copy |-> "raided", marker |-> b] \in Copy
      /\ \A c \in Copy : [c EXCEPT !.marker = TRUE] \in Copy /\ c.marker \in BOOLEAN
      /\ \A c \in Copy : [c EXCEPT !.copy = "new"] \in Copy
      /\ \A c \in Copy : [c EXCEPT !.copy = c.copy] \in Copy
  BY DEF Copy, Fresh
<1>4. ASSUME NEW c \in Copy
      PROVE  [c EXCEPT !.copy = IF @ = "raided" THEN @ ELSE "new"] \in Copy
  <2>1. CASE c.copy = "raided" BY <1>3, <2>1
  <2>2. CASE c.copy # "raided" BY <1>3, <2>2
  <2> QED BY <2>1, <2>2
<1> QED BY <1>1, <1>2, <1>3, <1>4

LEMMA InspectSkillKeeps ==
  ASSUME Consistent, NEW p \in Process, InspectSkill(p)
  PROVE  Keeps
<1>1. cli[p].pc \in Skilling /\ UNCHANGED <<serviceLock, spoilt, counters>>
  BY DEF InspectSkill, At, Skilling
<1>2. \/ Named(p, "init") /\ Goto(p, AfterSkill(p)) /\ file' = file
      \/ SkillFails(p)
      \/ /\ file["skill"] # Absent
         /\ file' = [file EXCEPT !["skill"].marker = TRUE]
         /\ SkillDone(p)
      \/ Goto(p, "retire") /\ file' = file
      \/ Goto(p, IF Named(p, "init") THEN "journal" ELSE "copy") /\ file' = file
  BY Zenon DEF InspectSkill, skill_state
<1>3. CASE Named(p, "init") /\ Goto(p, AfterSkill(p)) /\ file' = file
  <2>1. PICK place : place = AfterSkill(p) OBVIOUS
  <2>2. place \in Places BY <2>1, AtSkill, <1>1
  <2>3. Continues(p, place)
    BY <1>1, <1>3, <2>1, <2>2, GotoContinues, Here
  <2> QED BY <1>1, <1>3, <2>1, <2>3, AtSkill, ContinuesKeeps DEF Named
<1>4. CASE SkillFails(p) BY <1>1, <1>4, SkillFailsKeeps
<1>5. CASE /\ file["skill"] # Absent
           /\ file' = [file EXCEPT !["skill"].marker = TRUE]
           /\ SkillDone(p)
  <2>1. file' = [file EXCEPT !["skill"] = [file["skill"] EXCEPT !.marker = TRUE]]
    BY <1>5
  <2>2. [file["skill"] EXCEPT !.marker = TRUE] \in Content("skill") \cup {Absent}
    BY <1>5, SkillContents, Here
  <2>3. file' \in Present /\ \A f \in Important : file'[f] = file[f]
    BY <2>1, <2>2, SkillContents, WriteElsewhere, Here
  <2> QED BY <1>1, <1>5, <2>3, SkillDoneKeeps
<1>6. CASE Goto(p, "retire") /\ file' = file
  BY <1>1, <1>6, SkillGoesKeeps, Here DEF Installing
<1>7. CASE /\ Goto(p, IF Named(p, "init") THEN "journal" ELSE "copy")
           /\ file' = file
  <2>1. PICK place : place = IF Named(p, "init") THEN "journal" ELSE "copy"
    OBVIOUS
  <2>2. place \in Installing BY <2>1 DEF Installing
  <2> QED BY <1>1, <1>7, <2>1, <2>2, SkillGoesKeeps, Here
<1> QED BY <1>2, <1>3, <1>4, <1>5, <1>6, <1>7

LEMMA JournalSkillKeeps ==
  ASSUME Consistent, NEW p \in Process, JournalSkill(p)
  PROVE  Keeps
<1>1. cli[p].pc \in Skilling /\ UNCHANGED <<serviceLock, spoilt, counters>>
  BY DEF JournalSkill, At, Skilling, Installing
<1>2. CASE SkillFails(p) BY <1>1, <1>2, SkillFailsKeeps
<1>3. CASE /\ cli' = [cli EXCEPT ![p].pc = "copy", ![p].nested = TRUE]
           /\ file' = file
  <2>1. "copy" \in Places /\ "copy" \in Late BY DEF Places, Late, Installing
  <2>2. /\ cli' \in [Process -> Command]
        /\ \A q \in Process \ {p} : cli'[q] = cli[q]
        /\ cli'[p].pc = "copy" /\ cli'[p].journal = cli[p].journal
        /\ Rest(cli[p], cli'[p])
    BY <1>3, <2>1, NestedFacts, Here
  <2>3. Continues(p, "copy")
    BY <1>1, <1>3, <2>2, SameSame, Here DEF Continues
  <2>4. "copy" \in Installing BY DEF Installing
  <2> QED BY <1>1, <2>1, <2>3, <2>4, AtSkill, ContinuesKeeps
<1> QED BY <1>2, <1>3 DEF JournalSkill

LEMMA BeginCopyKeeps ==
  ASSUME Consistent, NEW p \in Process, BeginCopy(p)
  PROVE  Keeps
<1>1. cli[p].pc \in Skilling /\ UNCHANGED <<serviceLock, spoilt, counters>>
  BY DEF BeginCopy, At, Skilling, Installing
<1>2. CASE SkillFails(p) BY <1>1, <1>2, SkillFailsKeeps
<1>3. CASE /\ file' = [file EXCEPT !["skill"] = [copy |-> "part", marker |-> FALSE]]
           /\ Goto(p, "copying")
  <2>1. file' \in Present /\ \A f \in Important : file'[f] = file[f]
    BY <1>3, SkillContents, WriteElsewhere, Here
  <2> QED BY <1>1, <1>3, <2>1, SkillGoesKeeps DEF Installing
<1> QED BY <1>2, <1>3 DEF BeginCopy

LEMMA EndCopyKeeps ==
  ASSUME Consistent, NEW p \in Process, EndCopy(p)
  PROVE  Keeps
<1>1. cli[p].pc \in Skilling /\ UNCHANGED <<serviceLock, spoilt, counters>>
  BY DEF EndCopy, At, Skilling, Installing
<1>2. CASE SkillFails(p) BY <1>1, <1>2, SkillFailsKeeps
<1>3. CASE /\ file["skill"] # Absent
           /\ file' = [file EXCEPT !["skill"].copy =
                          IF @ = "raided" THEN @ ELSE "new"]
           /\ Goto(p, "marker")
  <2>1. PICK c : c = file["skill"] OBVIOUS
  <2>2. file' = [file EXCEPT !["skill"] =
                   [c EXCEPT !.copy = IF @ = "raided" THEN @ ELSE "new"]]
    BY <1>3, <2>1
  <2>3. [c EXCEPT !.copy = IF @ = "raided" THEN @ ELSE "new"]
          \in Content("skill") \cup {Absent}
    BY <1>3, <2>1, SkillContents, Here
  <2>4. file' \in Present /\ \A f \in Important : file'[f] = file[f]
    BY <2>2, <2>3, SkillContents, WriteElsewhere, Here
  <2> QED BY <1>1, <1>3, <2>4, SkillGoesKeeps DEF Installing
<1> QED BY <1>2, <1>3 DEF EndCopy

LEMMA WriteMarkerKeeps ==
  ASSUME Consistent, NEW p \in Process, WriteMarker(p)
  PROVE  Keeps
<1>1. cli[p].pc \in Skilling /\ UNCHANGED <<serviceLock, spoilt, counters>>
  BY DEF WriteMarker, At, Skilling, Installing
<1>2. CASE SkillFails(p) BY <1>1, <1>2, SkillFailsKeeps
<1>3. CASE /\ file["skill"] # Absent
           /\ file' = [file EXCEPT !["skill"].marker = TRUE]
           /\ SkillDone(p)
  <2>1. file' = [file EXCEPT !["skill"] = [file["skill"] EXCEPT !.marker = TRUE]]
    BY <1>3
  <2>2. [file["skill"] EXCEPT !.marker = TRUE] \in Content("skill") \cup {Absent}
    BY <1>3, SkillContents, Here
  <2>3. file' \in Present /\ \A f \in Important : file'[f] = file[f]
    BY <2>1, <2>2, SkillContents, WriteElsewhere, Here
  <2> QED BY <1>1, <1>3, <2>3, SkillDoneKeeps
<1> QED BY <1>2, <1>3 DEF WriteMarker

LEMMA RetireKeeps ==
  ASSUME Consistent, NEW p \in Process, Retire(p)
  PROVE  Keeps
<1>1. cli[p].pc \in Skilling /\ UNCHANGED <<serviceLock, spoilt, counters>>
  BY DEF Retire, At, Skilling, Installing
<1>2. CASE SkillFails(p) BY <1>1, <1>2, SkillFailsKeeps
<1>3. CASE file' = [file EXCEPT !["skill"] = Absent] /\ Goto(p, "swap")
  <2>1. file' \in Present /\ \A f \in Important : file'[f] = file[f]
    BY <1>3, SkillContents, WriteElsewhere, Here
  <2> QED BY <1>1, <1>3, <2>1, SkillGoesKeeps DEF Installing
<1> QED BY <1>2, <1>3 DEF Retire

LEMMA SwapKeeps ==
  ASSUME Consistent, NEW p \in Process, Swap(p)
  PROVE  Keeps
<1>1. cli[p].pc \in Skilling /\ UNCHANGED <<serviceLock, spoilt, counters>>
  BY DEF Swap, At, Skilling, Installing
<1>2. CASE SkillFails(p) BY <1>1, <1>2, SkillFailsKeeps
<1>3. CASE file' = [file EXCEPT !["skill"] = Fresh] /\ SkillDone(p)
  <2>1. file' \in Present /\ \A f \in Important : file'[f] = file[f]
    BY <1>3, SkillContents, WriteElsewhere, Here
  <2> QED BY <1>1, <1>3, <2>1, SkillDoneKeeps
<1> QED BY <1>2, <1>3 DEF Swap

\* The removal of a skill folder touches nothing else.
LEMMA RazeKeeps ==
  ASSUME Consistent, NEW p \in Process, Raze(p)
  PROVE  Keeps
<1>1. /\ cli[p].pc = "raze" /\ cli[p].pc \in Skilling
      /\ UNCHANGED <<serviceLock, spoilt, counters>>
      /\ cli' = [cli EXCEPT ![p].pc = AfterSkill(p), ![p].nested = FALSE]
  BY DEF Raze, At, Skilling, Installing
<1>2. file' \in Present /\ \A f \in Important : file'[f] = file[f]
  <2>1. CASE file' = file BY <2>1, Here
  <2>2. CASE file' = [file EXCEPT !["skill"] = Absent]
    BY <2>2, SkillContents, WriteElsewhere, Here
  <2> QED BY <2>1, <2>2 DEF Raze
<1>3. PICK place : place = AfterSkill(p) OBVIOUS
<1>4. place \in Places BY <1>1, <1>3, AtSkill
<1>5. cli[p].name = "init" BY <1>1, Here DEF Routes, Installing
<1>6. Continues(p, place)
  <2>1. /\ cli' \in [Process -> Command]
        /\ \A q \in Process \ {p} : cli'[q] = cli[q]
        /\ cli'[p].pc = place /\ cli'[p].journal = cli[p].journal
        /\ Rest(cli[p], cli'[p])
    BY <1>1, <1>3, <1>4, NestedFacts, Here
  <2> QED BY <1>1, <1>2, <2>1, SameSame DEF Continues
<1> QED BY <1>1, <1>3, <1>5, <1>6, AtSkill, ContinuesKeeps

LEMMA RaidKeeps ==
  ASSUME Consistent, NEW p \in Process, Raid(p)
  PROVE  Keeps
<1>1. cli' = cli /\ UNCHANGED <<serviceLock, spoilt, counters>> BY DEF Raid
<1>2. file' \in Present /\ \A f \in Important : file'[f] = file[f]
  <2>1. file["skill"] # Absent BY DEF Raid
  <2>2. PICK marker \in BOOLEAN :
          file' = [file EXCEPT !["skill"] = [copy |-> "raided", marker |-> marker]]
    BY <2>1, SkillContents, Here DEF Raid
  <2> QED BY <2>2, SkillContents, WriteElsewhere, Here
<1>3. OnlyBy(p) /\ LockMoves(p)
  BY <1>1, <1>2, Here DEF OnlyBy, LockMoves, Sound, counters, Typed
<1>4. Routes(cli[p])' BY <1>1, Here DEF Routes
<1>5. Usable' /\ TokenOf(p)
  BY <1>1, <1>2 DEF Consistent, Complete, Usable, TokenOf, Important, Sound, IsManaged
<1>6. AttemptOf(p)'
  <2>1. PICK c : c = cli[p] /\ c = cli'[p] BY <1>1
  <2>2. c.name = "init" =>
          /\ c.pc = "lock" => c.journal = NoJournal /\ c.failed = {}
          /\ InLock(c) => AttemptTrue(c) /\ StageTrue(c)
    BY <2>1 DEF Consistent, Attempts
  <2>3. Sound' => Sound BY <1>1 DEF Sound
  <2>4. AttemptTrue(c) => AttemptTrue(c)' BY <1>2, <2>3, AttemptTrueSame
  <2>5. StageTrue(c) => StageTrue(c)' BY <1>2, <2>3, StageTrueSame
  <2>6. AttemptTrue(c)' <=> AttemptTrue(cli[p])' BY <2>1 DEF AttemptTrue
  <2>7. StageTrue(c)' <=> StageTrue(cli[p])' BY <2>1 DEF StageTrue
  <2> QED BY <2>1, <2>2, <2>4, <2>5, <2>6, <2>7 DEF AttemptOf, InLock
<1>7. file'["config"] = file["config"] /\ file'["backup"] = file["backup"]
  BY <1>2 DEF Important
<1>8. NoSettings => NoSettingsOf(p)'
  BY <1>1, <1>7 DEF NoSettings, NoSettingsOf, IsManual, InLock
<1>9. HasSettings => HasSettingsOf(p)'
  BY <1>1, <1>7 DEF HasSettings, HasSettingsOf, IsManual, InLock, Kept
<1> QED BY <1>3, <1>4, <1>5, <1>6, <1>8, <1>9, Composes

LEMMA CheckKeeps ==
  ASSUME Consistent, NEW p \in Process, Check(p)
  PROVE  Keeps
<1>1. /\ cli[p].pc = "check" /\ cli[p].name = "init" /\ InLock(cli[p])
      /\ UNCHANGED <<file, serviceLock, spoilt, counters>>
  BY Here DEF Check, At, Routes, Installing, InLock
<1>2. AttemptTrue(cli[p]) /\ StageTrue(cli[p]) /\ cli[p].journal = NoJournal
  BY <1>1, Here DEF StageTrue
<1>a. cli[p].failed = {} /\ ~Filler(cli[p])
  BY <1>1, <1>2 DEF StageTrue, Ending, Filler
<1>3. PICK place : place =
        IF cli[p].existing = "managed"
        THEN IF file["server"] # Absent /\ file["token"] # Absent
             THEN "excludes" ELSE "rollback"
        ELSE IF file["server"] # Absent THEN "rollback"
        ELSE IF cli[p].existing = "manual" THEN "backup" ELSE "token"
  OBVIOUS
<1>4. Goto(p, place) BY <1>3 DEF Check
<1>5. /\ place \in {"rollback", "excludes", "backup", "token"}
      /\ place = "excludes" => cli[p].existing = "managed"
      /\ place \in {"backup", "token"} =>
           cli[p].existing # "managed" /\ file["server"] = Absent
      /\ place = "backup" => cli[p].existing = "manual"
      /\ place = "token" => cli[p].existing # "manual"
  BY <1>3
<1>6. /\ cli' \in [Process -> Command]
      /\ \A q \in Process \ {p} : cli'[q] = cli[q]
      /\ cli'[p].pc = place /\ cli'[p].journal = NoJournal
      /\ Rest(cli[p], cli'[p])
  BY <1>2, <1>4, <1>5, GotoFacts, Here DEF Places, Ending, Attempting
<1>7. OnlyBy(p) /\ LockMoves(p)
  BY <1>1, <1>6, Here DEF OnlyBy, LockMoves, Sound, counters
<1>8. Routes(cli[p])'
  BY <1>1, <1>5, <1>6, Here DEF Routes, Rest, Attempting, Ending
<1>9. StageTrue(cli[p])'
  <2>1. \A f \in Important :
          Untouched(NoJournal, f) /\ file[f] = cli[p].before[f]
    BY <1>2, <1>a, EmptyJournal, ImportantFiles DEF AttemptTrue, Untouched
  <2>2. PICK d : d = cli'[p] OBVIOUS
  <2>3. d.pc = place /\ d.journal = NoJournal /\ Rest(cli[p], d) /\ d.failed = {}
    BY <1>6, <1>a, <2>2 DEF Rest
  <2>4. CASE place \in {"rollback", "excludes"}
    <3>1. d.pc # "check" /\ d.pc \notin Early /\ d.pc # "update"
          /\ d.pc \notin {"config", "history", "secret", "server", "backup", "token"}
      BY <2>3, <2>4 DEF Early
    <3>2. d.pc \in Late => d.existing = "managed"
      BY <1>5, <2>3, <2>4 DEF Rest, Late, Installing
    <3>3. Untouched(d.journal, "config") BY <2>1, <2>3 DEF Important
    <3> HIDE DEF Early, Late
    <3> QED BY <2>2, <2>3, <3>1, <3>2, <3>3 DEF StageTrue, Untouched, Created
  <2>5. CASE place \in {"backup", "token"}
    <3>1. d.existing # "managed" /\ d.before["server"] = Absent
      BY <1>5, <2>1, <2>3, <2>5 DEF Rest, Important
    <3>2. \A f \in {"config", "server", "token"} : Untouched(d.journal, f)
      BY <2>1, <2>3 DEF Important
    <3>3. place = "backup" => d.existing = "manual"
      BY <1>5, <2>3, <2>5 DEF Rest
    <3>4. d.pc \notin Late /\ d.pc \in Early /\ d.pc \notin {"check", "secret", "server"}
      BY <2>3, <2>5 DEF Late, Early, Installing
    <3> HIDE DEF Early, Late
    <3> QED BY <2>2, <2>3, <2>5, <3>1, <3>2, <3>3, <3>4
            DEF StageTrue, Untouched, Created
  <2> QED BY <1>5, <2>4, <2>5
<1>10. /\ cli[p].existing = "manual" /\ place \in (Early \cup Late) \ {"backup"}
       => FALSE
  BY <1>5 DEF Early, Late, Installing
<1> HIDE DEF Early, Late
<1> QED BY <1>1, <1>2, <1>5, <1>6, <1>7, <1>8, <1>9, <1>10, <1>a, SameSame, QuietStep

LEMMA ReadExcludesKeeps ==
  ASSUME Consistent, NEW p \in Process, ReadExcludes(p)
  PROVE  Keeps
<1>1. /\ cli[p].pc = "excludes" /\ cli[p].name \in {"init", "skill"}
      /\ cli[p].pc \in Late /\ ~Filler(cli[p])
      /\ UNCHANGED <<file, serviceLock, spoilt, counters>>
  BY Here DEF ReadExcludes, At, Routes, Late, Filler
<1>2. CASE Named(p, "init") /\ Goto(p, "handoff")
  <2>1. "handoff" \in Places /\ "handoff" \in Late
    BY DEF Places, Attempting, Late
  <2>2. Continues(p, "handoff") BY <1>1, <1>2, <2>1, GotoContinues, Here
  <2> QED BY <1>1, <1>2, <2>1, <2>2, ContinuesKeeps DEF Named
<1>3. CASE Ends(p) BY <1>1, <1>3, EndKeeps, Here
<1>4. CASE cli' = [cli EXCEPT
            ![p].excludes = file["excludes"], ![p].pc = "exclude",
            ![p].journal = IF Named(p, "init") THEN BeforeWrite(@, "excludes")
                           ELSE @]
           /\ ~(Patterns(p) \subseteq file["excludes"])
  <2> DEFINE j == IF Named(p, "init") THEN BeforeWrite(cli[p].journal, "excludes")
                  ELSE cli[p].journal
             d == [cli[p] EXCEPT !.excludes = file["excludes"], !.pc = "exclude",
                                 !.journal = j]
  <2>1. "excludes" \in File \ Important BY FileNames DEF Important
  <2>2. j \in Journals /\ SameJournal(cli[p].journal, j)
    <3>1. CASE Named(p, "init")
      <4>1. PICK k : k = BeforeWrite(cli[p].journal, "excludes") OBVIOUS
      <4>2. /\ k \in Journals
            /\ \A h \in File \ {"excludes"} :
                 /\ h \in Created(k) <=> h \in Created(cli[p].journal)
                 /\ k.modified[h] = cli[p].journal.modified[h]
            /\ Ordered(cli[p].journal) => Ordered(k)
        BY <2>1, <4>1, Journaled, Here
      <4> QED BY <2>1, <3>1, <4>1, <4>2, ImportantFiles DEF SameJournal
    <3>2. CASE ~Named(p, "init") BY <3>2, SameSame, Here
    <3> QED BY <3>1, <3>2
  <2>3. cli' = [cli EXCEPT ![p] = d] BY <1>4, Zenon
  <2> HIDE DEF j
  <2>4. file["excludes"] \in ExcludeFiles
    <3>1. file["excludes"] \in Content("excludes") \cup {Absent}
      BY <2>1, Here
    <3> QED BY <3>1, Here DEF ExcludeFiles
  <2>5. d \in Command /\ d.pc = "exclude" /\ d.journal = j /\ Rest(cli[p], d)
    BY <2>2, <2>4, Here DEF Command, Places, Attempting, Rest
  <2> HIDE DEF d
  <2>6. /\ cli' \in [Process -> Command] /\ cli'[p] = d
        /\ \A q \in Process \ {p} : cli'[q] = cli[q]
    BY <2>3, <2>5, Here DEF Typed
  <2>7. Continues(p, "exclude") BY <1>1, <2>2, <2>5, <2>6, Here DEF Continues
  <2>8. "exclude" \in Late BY DEF Late
  <2> QED BY <1>1, <2>7, <2>8, ContinuesKeeps
<1> QED BY <1>2, <1>3, <1>4 DEF ReadExcludes

LEMMA WriteExcludesKeeps ==
  ASSUME Consistent, NEW p \in Process, WriteExcludes(p)
  PROVE  Keeps
<1>1. /\ cli[p].pc = "exclude" /\ cli[p].name \in {"init", "skill"}
      /\ cli[p].pc \in Late /\ ~Filler(cli[p])
      /\ UNCHANGED <<serviceLock, spoilt, counters>>
  BY Here DEF WriteExcludes, At, Routes, Late, Filler
<1>2. file' \in Present /\ \A f \in Important : file'[f] = file[f]
  <2>1. "excludes" \in File \ Important BY FileNames DEF Important
  <2>2. PICK v : v = cli[p].excludes \cup Patterns(p) OBVIOUS
  <2>3. file' = [file EXCEPT !["excludes"] = v] BY <2>2 DEF WriteExcludes
  <2>4. cli[p].excludes \subseteq {"generated", "skill"}
    BY Here, Contents DEF Command, ExcludeFiles
  <2>5. Patterns(p) \subseteq {"generated", "skill"} BY DEF Patterns
  <2>6. v \in Content("excludes") BY <2>2, <2>4, <2>5, Contents
  <2>7. v # Absent BY <2>1, <2>6, AbsentAssumption
  <2> QED BY <2>1, <2>3, <2>6, <2>7, WriteElsewhere, Here
<1>3. CASE Named(p, "init") /\ Goto(p, "handoff")
  <2>1. "handoff" \in Places /\ "handoff" \in Late
    BY DEF Places, Attempting, Late
  <2>2. Continues(p, "handoff") BY <1>1, <1>2, <1>3, <2>1, GotoContinues
  <2> QED BY <1>1, <1>3, <2>1, <2>2, ContinuesKeeps DEF Named
<1>4. CASE Ends(p) BY <1>1, <1>2, <1>4, EndKeeps
<1> QED BY <1>3, <1>4 DEF WriteExcludes

LEMMA UpdateKeeps ==
  ASSUME Consistent, NEW p \in Process, Update(p)
  PROVE  Keeps
<1>1. /\ cli[p].pc = "update" /\ cli[p].name = "init" /\ InLock(cli[p])
      /\ UNCHANGED <<file, serviceLock, spoilt, counters>>
  BY Here DEF Update, At, Routes, Installing, InLock
<1>2. AttemptTrue(cli[p]) /\ StageTrue(cli[p]) BY <1>1, Here
<1>3. /\ cli[p].existing = "managed" /\ cli[p].pc \in Late
      /\ Untouched(cli[p].journal, "config")
      /\ cli[p].failed = {} /\ ~Filler(cli[p])
  BY <1>1, <1>2 DEF StageTrue, Late, Ending, Filler
<1>4. file["config"] = cli[p].before["config"]
  BY <1>2, <1>3 DEF AttemptTrue, Important
<1>5. PICK place : /\ place \in {"rollback", "report", "history", "config"}
                   /\ place \in {"history", "config"} => IsManaged(file["config"])
                   /\ Goto(p, place)
  BY Zenon DEF Update
<1>6. /\ cli' \in [Process -> Command]
      /\ \A q \in Process \ {p} : cli'[q] = cli[q]
      /\ cli'[p].pc = place /\ cli'[p].journal = cli[p].journal
      /\ Rest(cli[p], cli'[p])
  BY <1>5, GotoFacts, Here DEF Places, Ending, Attempting
<1>7. OnlyBy(p) /\ LockMoves(p)
  BY <1>1, <1>6, Here DEF OnlyBy, LockMoves, Sound, counters
<1>8. Routes(cli[p])'
  BY <1>1, <1>5, <1>6, Here DEF Routes, Rest, Attempting, Ending
<1>9. StageTrue(cli[p])'
  <2>1. PICK d : d = cli'[p] OBVIOUS
  <2>2. d.pc = place /\ d.journal = cli[p].journal /\ Rest(cli[p], d)
    BY <1>6, <2>1
  <2>3. /\ d.existing = "managed" /\ Untouched(d.journal, "config")
        /\ d.failed = {}
    BY <1>3, <2>2 DEF Rest
  <2>4. place \in {"history", "config"} => IsManaged(d.before["config"])
    BY <1>4, <1>5, <2>2 DEF Rest
  <2>5. place \notin Early /\ place # "check" BY <1>5 DEF Early
  <2> HIDE DEF Early, Late
  <2> QED BY <2>1, <2>2, <2>3, <2>4, <2>5 DEF StageTrue, Untouched, Created, IsManaged
<1> HIDE DEF Early, Late
<1> QED BY <1>1, <1>3, <1>5, <1>6, <1>7, <1>8, <1>9, SameSame, QuietStep

LEMMA EndRollbackKeeps ==
  ASSUME Consistent, NEW p \in Process, EndRollback(p)
  PROVE  Keeps
<1>1. /\ cli[p].pc = "rollback" /\ cli[p].name = "init" /\ InLock(cli[p])
      /\ UNCHANGED <<file, serviceLock, spoilt, counters>> /\ Goto(p, "unlock")
  BY Here DEF EndRollback, At, Routes, Installing, InLock
<1>2. /\ cli' \in [Process -> Command]
      /\ \A q \in Process \ {p} : cli'[q] = cli[q]
      /\ cli'[p].pc = "unlock" /\ cli'[p].journal = cli[p].journal
      /\ Rest(cli[p], cli'[p])
  BY <1>1, GotoFacts, Here DEF Places, Ending
<1>3. OnlyBy(p) /\ LockMoves(p)
  BY <1>1, <1>2, Here DEF OnlyBy, LockMoves, Sound, counters
<1>5. ~Filler(cli[p])
  BY EmptyJournal DEF EndRollback, Filler
<1>4. Routes(cli[p])' BY <1>1, <1>2, Here DEF Routes, Rest, Ending
<1> QED BY <1>1, <1>2, <1>3, <1>4, <1>5, SameSame, QuietStep

LEMMA InterruptKeeps ==
  ASSUME Consistent, NEW p \in Process, Interrupt(p)
  PROVE  Keeps
<1>1. /\ cli[p].pc \in Attempting \cup Installing
      /\ cli[p].name = "init" /\ InLock(cli[p])
      /\ UNCHANGED <<file, serviceLock, spoilt, counters>>
      /\ cli' = [cli EXCEPT ![p].pc = "rollback", ![p].nested = FALSE]
  BY DEF Interrupt, In, Named, InLock, Attempting, Installing
<1>2. /\ cli' \in [Process -> Command]
      /\ \A q \in Process \ {p} : cli'[q] = cli[q]
      /\ cli'[p].pc = "rollback" /\ cli'[p].journal = cli[p].journal
      /\ Rest(cli[p], cli'[p])
  BY <1>1, NestedFacts, Here DEF Places, Ending
<1>3. OnlyBy(p) /\ LockMoves(p)
  BY <1>1, <1>2, Here DEF OnlyBy, LockMoves, Sound, counters
<1>4. Routes(cli[p])' BY <1>1, <1>2, Here DEF Routes, Rest, Ending
<1> QED BY <1>1, <1>2, <1>3, <1>4, SameSame, QuietStep

LEMMA RaisesKeeps ==
  ASSUME Consistent, NEW p \in Process, Raises(p)
  PROVE  Keeps
<1>1. UNCHANGED <<serviceLock, spoilt, counters>> BY DEF Raises
<1>2. CASE /\ Named(p, "init") /\ In(p, Attempting)
           /\ Goto(p, "rollback") /\ UNCHANGED file
  <2>1. cli[p].name = "init" /\ InLock(cli[p])
    BY <1>2 DEF In, Named, InLock, Attempting
  <2>2. /\ cli' \in [Process -> Command]
        /\ \A q \in Process \ {p} : cli'[q] = cli[q]
        /\ cli'[p].pc = "rollback" /\ cli'[p].journal = cli[p].journal
        /\ Rest(cli[p], cli'[p])
    BY <1>2, GotoFacts, Here DEF Places, Ending
  <2>3. OnlyBy(p) /\ LockMoves(p)
    BY <1>1, <1>2, <2>1, <2>2, Here DEF OnlyBy, LockMoves, Sound, counters
  <2>4. Routes(cli[p])' BY <2>1, <2>2, Here DEF Routes, Rest, Ending
  <2> QED BY <1>2, <2>1, <2>2, <2>3, <2>4, SameSame, QuietStep DEF Rest
<1>3. CASE In(p, Installing \ {"raze"}) /\ SkillFails(p)
  BY <1>1, <1>3, SkillFailsKeeps DEF In, Skilling
<1>4. CASE /\ Ends(p) /\ UNCHANGED file
           /\ Named(p, "skill") \/ At(p, "append")
  <2>1. ~Filler(cli[p]) BY <1>4 DEF Named, At, Filler
  <2> QED BY <1>1, <1>4, <2>1, EndKeeps, Here
<1>5. CASE At(p, "mode") /\ Goto(p, "unlock") /\ UNCHANGED file
  <2>1. cli[p].name = "mode" /\ InLock(cli[p])
    BY <1>5, Here DEF At, InLock, Routes, Attempting, Installing, Ending
  <2>2. /\ cli' \in [Process -> Command]
        /\ \A q \in Process \ {p} : cli'[q] = cli[q]
        /\ cli'[p].pc = "unlock" /\ Rest(cli[p], cli'[p])
    BY <1>5, GotoFacts, Here DEF Places, Ending
  <2>3. OnlyBy(p) /\ LockMoves(p)
    BY <1>1, <1>5, <2>1, <2>2, Here DEF OnlyBy, LockMoves, Sound, counters
  <2>4. Routes(cli[p])' BY <2>1, <2>2, Here DEF Routes, Rest, Ending
  <2>5. ~Filler(cli[p]) BY <2>1 DEF Filler
  <2> QED BY <1>5, <2>1, <2>2, <2>3, <2>4, <2>5, QuietStep DEF Rest
<1> QED BY <1>2, <1>3, <1>4, <1>5 DEF Raises

LEMMA ReportKeeps ==
  ASSUME Consistent, NEW p \in Process, Report(p)
  PROVE  Keeps
<1>1. /\ cli[p].pc = "report" /\ cli[p].name = "init" /\ InLock(cli[p])
      /\ UNCHANGED <<file, serviceLock, spoilt, counters>> /\ Goto(p, "unlock")
      /\ ~Filler(cli[p])
  BY Here DEF Report, At, Routes, Installing, InLock, Filler
<1>2. /\ cli' \in [Process -> Command]
      /\ \A q \in Process \ {p} : cli'[q] = cli[q]
      /\ cli'[p].pc = "unlock" /\ cli'[p].journal = cli[p].journal
      /\ Rest(cli[p], cli'[p])
  BY <1>1, GotoFacts, Here DEF Places, Ending
<1>3. OnlyBy(p) /\ LockMoves(p)
  BY <1>1, <1>2, Here DEF OnlyBy, LockMoves, Sound, counters
<1>4. Routes(cli[p])' BY <1>1, <1>2, Here DEF Routes, Rest, Ending
<1> QED BY <1>1, <1>2, <1>3, <1>4, SameSame, QuietStep

-----------------------------------------------------------------------------
(* Journaled writes.                                                       *)

LEMMA WritesFacts ==
  ASSUME Typed, NEW p \in Process, NEW f \in File, NEW content \in Content(f),
         NEW place \in Places, Writes(p, f, content, place)
  PROVE  /\ cli' \in [Process -> Command]
         /\ \A q \in Process \ {p} : cli'[q] = cli[q]
         /\ cli'[p].pc = place /\ Rest(cli[p], cli'[p])
         /\ cli'[p].journal = BeforeWrite(cli[p].journal, f)
         /\ cli'[p].journal \in Journals
         /\ file' \in Present /\ file'[f] = content
         /\ \A h \in File \ {f} : file'[h] = file[h]
<1>1. PICK j : j = BeforeWrite(cli[p].journal, f) OBVIOUS
<1>2. cli[p].journal \in Journals BY CommandTyped DEF Typed
<1>3. j \in Journals BY <1>1, <1>2, Journaled
<1>4. cli' = [cli EXCEPT ![p].journal = j, ![p].pc = place]
  BY <1>1, Zenon DEF Writes
<1>5. content # Absent BY AbsentAssumption
<1>6. file' = [file EXCEPT ![f] = content] /\ file \in Present
  BY DEF Writes, Typed
<1>7. /\ file' \in Present /\ file'[f] = content
      /\ \A h \in File \ {f} : file'[h] = file[h]
  BY <1>5, <1>6, Written
<1> QED BY <1>1, <1>3, <1>4, <1>7, JournalFacts

LEMMA HistoryContents ==
  ASSUME Consistent, NEW p \in Process, cli[p].name # "none"
  PROVE  /\ "history" \in File \ Important /\ "history" \in File
         /\ Appended(p) \in Content("history") /\ Appended(p) # Absent
<1>1. "history" \in File \ Important BY FileNames DEF Important
<1>2. cli[p].number \in Number BY Here DEF Routes
<1>3. file["history"] \in Content("history") \cup {Absent} BY <1>1, Here
<1>4. Appended(p) \in Content("history")
  BY <1>2, <1>3, Contents DEF Appended
<1> QED BY <1>1, <1>4, AbsentAssumption

LEMMA WriteHistoryKeeps ==
  ASSUME Consistent, NEW p \in Process, WriteHistory(p)
  PROVE  Keeps
<1>1. /\ cli[p].pc = "history" /\ cli[p].name = "init" /\ InLock(cli[p])
      /\ UNCHANGED <<serviceLock, spoilt, counters>>
  BY Here DEF WriteHistory, At, Routes, Installing, InLock
<1>2. AttemptTrue(cli[p]) /\ StageTrue(cli[p]) BY <1>1, Here
<1>3. PICK place :
        /\ place = IF cli[p].existing = "managed" THEN "config" ELSE "report"
        /\ Writes(p, "history", Appended(p), place)
  BY DEF WriteHistory
<1>4. place \in Places BY <1>3 DEF Places, Attempting, Ending
<1>5. /\ cli' \in [Process -> Command]
      /\ \A q \in Process \ {p} : cli'[q] = cli[q]
      /\ cli'[p].pc = place /\ Rest(cli[p], cli'[p])
      /\ cli'[p].journal = BeforeWrite(cli[p].journal, "history")
      /\ file' \in Present /\ \A h \in File \ {"history"} : file'[h] = file[h]
  BY <1>1, <1>3, <1>4, HistoryContents, WritesFacts, Here
<1>6. \A h \in Important : file'[h] = file[h]
  BY <1>1, <1>5, HistoryContents, ImportantFiles
<1>7. SameJournal(cli[p].journal, cli'[p].journal)
  <2>1. PICK k : k = BeforeWrite(cli[p].journal, "history") OBVIOUS
  <2>2. /\ \A h \in File \ {"history"} :
             /\ h \in Created(k) <=> h \in Created(cli[p].journal)
             /\ k.modified[h] = cli[p].journal.modified[h]
        /\ Ordered(cli[p].journal) => Ordered(k)
    BY <1>1, <2>1, HistoryContents, Journaled, Here
  <2> QED BY <1>1, <1>5, <2>1, <2>2, HistoryContents, ImportantFiles DEF SameJournal
<1>8. OnlyBy(p) /\ LockMoves(p)
  BY <1>1, <1>5, Here DEF OnlyBy, LockMoves, Sound, counters
<1>9. Routes(cli[p])'
  BY <1>1, <1>3, <1>5, Here DEF Routes, Rest, Attempting
<1>a. cli[p].failed = {} /\ ~Filler(cli[p])
  BY <1>1, <1>2 DEF StageTrue, Ending, Filler
<1>10. StageTrue(cli[p])'
  <2>1. PICK d : d = cli'[p] OBVIOUS
  <2>2. /\ d.pc = place /\ d.existing = cli[p].existing /\ d.failed = {}
        /\ d.before = cli[p].before
        /\ Untouched(d.journal, "config") <=> Untouched(cli[p].journal, "config")
        /\ file'["token"] = file["token"] /\ file'["server"] = file["server"]
        /\ Sound' <=> Sound
    BY <1>1, <1>5, <1>6, <1>7, <1>a, <2>1
       DEF Rest, SameJournal, Untouched, Important, Sound
  <2>3. "config" \notin Early /\ "report" \notin Early
        /\ {"history", "report", "config"} \subseteq Late
    BY DEF Early, Late
  <2> HIDE DEF Early, Late, Sound
  <2>4. CASE cli[p].existing = "managed"
    <3>1. /\ IsManaged(cli[p].before["config"]) /\ d.pc = "config"
          /\ Untouched(cli[p].journal, "config")
      BY <1>1, <1>2, <1>3, <2>2, <2>3, <2>4 DEF StageTrue
    <3> QED BY <2>1, <2>2, <2>3, <2>4, <3>1
            DEF StageTrue, Untouched, Created, IsManaged
  <2>5. CASE cli[p].existing # "managed"
    <3>1. /\ cli[p].before["server"] = Absent /\ d.pc = "report"
          /\ file["token"] # Absent /\ file["server"] # Absent
          /\ Sound => file["token"] # {}
      BY <1>1, <1>2, <1>3, <2>2, <2>3, <2>5 DEF StageTrue
    <3> QED BY <2>1, <2>2, <2>3, <2>5, <3>1
            DEF StageTrue, Untouched, Created, IsManaged
  <2> QED BY <2>4, <2>5
<1>11. cli[p].pc \in (Early \cup Late) \ {"backup"} BY <1>1 DEF Late
<1>12. cli'[p].pc # "lock" BY <1>3, <1>5
<1> HIDE DEF Early, Late
<1> QED BY <1>1, <1>3, <1>5, <1>6, <1>7, <1>8, <1>9, <1>10, <1>11, <1>12, <1>a, QuietStep

LEMMA AppendHistoryKeeps ==
  ASSUME Consistent, NEW p \in Process, AppendHistory(p)
  PROVE  Keeps
<1>1. /\ cli[p].pc = "append" /\ Ends(p)
      /\ UNCHANGED <<serviceLock, spoilt, counters>>
      /\ file' = [file EXCEPT !["history"] = Appended(p)]
  BY DEF AppendHistory, At
<1>2. cli[p].name # "none" /\ ~Filler(cli[p]) BY <1>1, Here DEF Routes, Filler
<1>3. PICK v : v = Appended(p) OBVIOUS
<1>4. file' \in Present /\ \A h \in Important : file'[h] = file[h]
  BY <1>1, <1>2, <1>3, HistoryContents, WriteElsewhere, Here
<1> QED BY <1>1, <1>2, <1>4, EndKeeps

LEMMA SetModeKeeps ==
  ASSUME Consistent, NEW p \in Process, SetMode(p)
  PROVE  Keeps
<1>1. /\ cli[p].pc = "mode" /\ cli[p].name = "mode" /\ InLock(cli[p])
      /\ UNCHANGED <<serviceLock, spoilt, counters>>
  BY Here DEF SetMode, At, Routes, Attempting, Installing, Ending, InLock
<1>2. PICK place : place \in {"release", "unlock"} /\ Goto(p, place)
  BY DEF SetMode
<1>3. /\ cli' \in [Process -> Command]
      /\ \A q \in Process \ {p} : cli'[q] = cli[q]
      /\ cli'[p].pc = place /\ Rest(cli[p], cli'[p])
  BY <1>2, GotoFacts, Here DEF Places, Ending
<1>4. Routes(cli[p])' /\ cli'[p].name = "mode"
  BY <1>1, <1>2, <1>3, Here DEF Routes, Rest
<1>a. ~Filler(cli[p]) BY <1>1 DEF Filler
<1>5. CASE file' = file
  <2>1. OnlyBy(p) /\ LockMoves(p)
    BY <1>1, <1>3, <1>5, Here DEF OnlyBy, LockMoves, Sound, counters
  <2> QED BY <1>4, <1>5, <1>a, <2>1, QuietStep
<1>6. CASE /\ IsManaged(file["config"])
           /\ file' = [file EXCEPT !["config"].mode = cli[p].mode]
  <2>1. PICK v : v = [file["config"] EXCEPT !.mode = cli[p].mode] OBVIOUS
  <2>2. file["config"] \in Managed
    BY <1>6, Here, FileNames, Kinds
  <2>3. v \in Managed BY <1>1, <2>1, <2>2, Here DEF Command, Managed
  <2>4. v \in Content("config") BY <2>3, Contents
  <2>5. IsManaged(v) /\ ~IsManual(v) /\ v # Absent BY <2>3, <2>4, Kinds
  <2>6. file' = [file EXCEPT !["config"] = v] BY <1>6, <2>1
  <2>7. /\ file' \in Present /\ file'["config"] = v
        /\ file'["server"] = file["server"] /\ file'["token"] = file["token"]
        /\ file'["backup"] = file["backup"]
    BY <2>4, <2>6, FileNames, Written, Here
  <2>8. OnlyBy(p) /\ LockMoves(p)
    BY <1>1, <1>3, <2>7, Here DEF OnlyBy, LockMoves, Sound, counters
  <2>9. Usable' /\ TokenOf(p)
    BY <1>1, <1>6, <1>a, <2>7 DEF Consistent, Complete, Usable, TokenOf, Sound
  <2>10. AttemptOf(p)' BY <1>4 DEF AttemptOf
  <2>11. NoSettings => NoSettingsOf(p)'
    BY <1>4, <2>5, <2>7 DEF NoSettings, NoSettingsOf, IsManual
  <2>12. HasSettings => HasSettingsOf(p)'
    <3>1. ~IsManual(file["config"]) BY <2>2, Contents, Kinds
    <3> QED BY <1>4, <2>5, <2>7, <3>1 DEF HasSettings, HasSettingsOf, IsManual, Kept
  <2> QED BY <1>4, <2>8, <2>9, <2>10, <2>11, <2>12, Composes
<1> QED BY <1>5, <1>6 DEF SetMode

-----------------------------------------------------------------------------
(* The writes to the important files.                                      *)

\* before_write comes before each of them, so the journal stays true.
LEMMA WroteAttempt ==
  ASSUME Typed, NEW c, NEW d, NEW f \in Important,
         c.journal \in Journals, d.journal = BeforeWrite(c.journal, f),
         d.before = c.before, d.failed = c.failed, c.failed = {},
         AttemptTrue(c), Sound' => Sound,
         \A h \in File \ {f} : file'[h] = file[h],
         f # "config" => file[f] = Absent,
         f \in {"server", "token"} => "config" \notin Created(c.journal)
  PROVE  AttemptTrue(d)'
<1>1. PICK j \in Journals : j = c.journal OBVIOUS
<1>2. PICK k : k = BeforeWrite(j, f) OBVIOUS
<1>3. f \in File BY ImportantFiles
<1>4. /\ \A h \in File \ {f} : /\ h \in Created(k) <=> h \in Created(j)
                               /\ k.modified[h] = j.modified[h]
      /\ ~Untouched(k, f)
      /\ ~Untouched(j, f) => k = j
      /\ Untouched(j, f) /\ file[f] = Absent =>
           Created(k) = Created(j) \cup {f} /\ k.modified = j.modified
      /\ Untouched(j, f) /\ file[f] # Absent =>
           Created(k) = Created(j) /\ k.modified[f] = file[f]
      /\ /\ Ordered(j)
         /\ f \in {"server", "token"} => "config" \notin Created(j)
         => Ordered(k)
  BY <1>2, <1>3, Journaled
<1>5. /\ Ordered(j)
      /\ \A h \in Important :
           /\ h \in Created(j) => c.before[h] = Absent
           /\ j.modified[h] \in {Absent, c.before[h]}
           /\ Untouched(j, h) => file[h] = c.before[h]
           /\ h # "config" => j.modified[h] = Absent
  BY <1>1 DEF AttemptTrue
<1>6. Ordered(k) BY <1>1, <1>4, <1>5
<1>7. ASSUME NEW h \in Important
      PROVE  /\ h \in Created(k) => c.before[h] = Absent
             /\ k.modified[h] \in {Absent, c.before[h]}
             /\ Untouched(k, h) => file'[h] = c.before[h]
             /\ h # "config" => k.modified[h] = Absent
  <2>1. CASE h # f
    <3>1. h \in File \ {f} BY <2>1, ImportantFiles
    <3> QED BY <3>1, <1>4, <1>5 DEF Untouched
  <2>2. CASE h = f
    <3>1. CASE ~Untouched(j, f) BY <2>2, <3>1, <1>4, <1>5
    <3>2. CASE Untouched(j, f) /\ file[f] = Absent
      BY <2>2, <3>2, <1>4, <1>5
    <3>3. CASE Untouched(j, f) /\ file[f] # Absent
      <4>1. Created(k) = Created(j) /\ k.modified[f] = c.before[f]
        BY <3>3, <1>4, <1>5
      <4>2. f \notin Created(j) BY <3>3 DEF Untouched
      <4> QED BY <2>2, <3>3, <4>1, <4>2, <1>4
    <3> QED BY <3>1, <3>2, <3>3
  <2> QED BY <2>1, <2>2
<1>8. IsManaged(c.before["config"]) /\ Sound' =>
        c.before["server"] # Absent /\ c.before["token"] \notin {Absent, {}}
  BY DEF AttemptTrue
<1>9. d.journal = k /\ d.before = c.before /\ d.failed = {} BY <1>1, <1>2
<1> HIDE DEF Sound
<1> QED BY <1>6, <1>7, <1>8, <1>9
        DEF AttemptTrue, Untouched, IsManaged, Ordered, Created

LEMMA WritesKeeps ==
  ASSUME Consistent, NEW p \in Process, NEW f \in Important,
         NEW content \in Content(f),
         NEW place \in Early \cup Late,
         cli[p].name = "init", InLock(cli[p]), Writes(p, f, content, place),
         cli[p].pc \notin {"secret"} \cup Ending,
         UNCHANGED <<serviceLock, spoilt, counters>>,
         f # "config" => file[f] = Absent,
         f \in {"server", "token"} => "config" \notin Created(cli[p].journal),
         f = "token" => place = "secret",
         f = "config" /\ Sound =>
           file["server"] # Absent /\ file["token"] \notin {Absent, {}},
         StageTrue(cli[p])',
         f \in {"config", "backup"} /\ NoSettings => ~IsManual(content),
         HasSettings =>
           /\ Kept(file'["config"], file'["backup"])
           /\ /\ cli[p].existing = "manual"
              /\ place \in (Early \cup Late) \ {"backup"}
              => IsManual(file'["backup"])
           /\ f = "config" \/ cli[p].journal.modified["config"] # Absent
              => IsManual(file'["backup"])
  PROVE  Keeps
<1>1. f \in File /\ content # Absent BY ImportantFiles, AbsentAssumption
<1>2. place \in Places /\ place \notin {"idle", "lock", "append"}
  BY DEF Early, Late, Places, Attempting, Installing, Ending
<1>3. /\ cli' \in [Process -> Command]
      /\ \A q \in Process \ {p} : cli'[q] = cli[q]
      /\ cli'[p].pc = place /\ Rest(cli[p], cli'[p])
      /\ cli'[p].journal = BeforeWrite(cli[p].journal, f)
      /\ file' \in Present /\ file'[f] = content
      /\ \A h \in File \ {f} : file'[h] = file[h]
  BY <1>1, <1>2, WritesFacts, Here
<1>4. OnlyBy(p) /\ LockMoves(p) BY <1>3, Here DEF OnlyBy, LockMoves, Sound, counters
<1>5. Routes(cli[p])'
  <2>1. place \in Attempting \cup Installing /\ place # "rewrite"
    BY DEF Early, Late, Attempting, Installing
  <2> QED BY <1>3, <2>1, Here DEF Routes, Rest
<1>a. cli[p].failed = {} /\ ~Filler(cli[p])
  BY Here DEF StageTrue, Filler, Ending
<1>6. AttemptTrue(cli[p])'
  <2>1. PICK c : c = cli[p] OBVIOUS
  <2>2. PICK d : d = cli'[p] OBVIOUS
  <2>3. /\ AttemptTrue(c) /\ c.journal \in Journals /\ d.before = c.before
        /\ d.journal = BeforeWrite(c.journal, f) /\ Typed
        /\ d.failed = c.failed /\ c.failed = {}
    BY <2>1, <2>2, <1>3, <1>a, Here DEF Rest
  <2>4. Sound' => Sound BY DEF Sound
  <2>5. AttemptTrue(d)' BY <2>1, <2>3, <2>4, <1>3, WroteAttempt
  <2> QED BY <2>2, <2>5 DEF AttemptTrue
<1>7. AttemptOf(p)' BY <1>2, <1>3, <1>6 DEF AttemptOf
<1>8. Usable'
  <2>a. Sound' <=> Sound BY DEF Sound
  <2> HIDE DEF Sound
  <2>1. CASE f = "config"
    <3>1. Sound => file'["server"] # Absent /\ file'["token"] \notin {Absent, {}}
      BY <1>3, <2>1, FileNames
    <3> QED BY <3>1, <2>a DEF Usable
  <2>2. CASE f # "config"
    <3>1. file'["config"] = file["config"] BY <1>3, <2>2, FileNames
    <3>2. CASE f \in {"server", "token"}
      <4>1. ~(Sound /\ IsManaged(file["config"]))
        BY <2>2, <3>2 DEF Consistent, Complete, Usable
      <4> QED BY <3>1, <4>1, <2>a DEF Usable, IsManaged
    <3>3. CASE f \notin {"server", "token"}
      <4>1. file'["server"] = file["server"] /\ file'["token"] = file["token"]
        BY <1>3, <3>3, FileNames
      <4> QED BY <3>1, <4>1, <2>a DEF Consistent, Complete, Usable, IsManaged
    <3> QED BY <3>2, <3>3
  <2> QED BY <2>1, <2>2
<1>9. TokenOf(p)
  <2>1. CASE f = "token"
    <3>1. cli'[p].journal.modified["token"] = Absent
      BY <1>6 DEF AttemptTrue, Important
    <3>2. ~Untouched(cli'[p].journal, "token")
      BY <1>1, <1>3, <2>1, Journaled, Here
    <3>3. cli'[p].name = "init" /\ cli'[p].pc = "secret" BY <1>3, <2>1 DEF Rest
    <3> QED BY <3>1, <3>2, <3>3 DEF TokenOf, Filler, Untouched
  <2>2. CASE f # "token"
    <3>1. file'["token"] = file["token"] BY <1>3, <2>2, FileNames
    <3> QED BY <3>1, <1>a DEF TokenOf
  <2> QED BY <2>1, <2>2
<1>b. PICK k : k = cli'[p].journal OBVIOUS
<1>c. /\ f # "config" => k.modified["config"] = cli[p].journal.modified["config"]
      /\ k.modified["config"] \in {cli[p].journal.modified["config"], file["config"]}
  <2>1. "config" \in File BY FileNames
  <2>2. CASE f # "config" BY <1>1, <1>3, <1>b, <2>1, <2>2, Journaled, Here
  <2>3. CASE f = "config"
    <3>1. PICK j : j = cli[p].journal OBVIOUS
    <3>2. /\ ~Untouched(j, f) => k = j
          /\ Untouched(j, f) /\ file[f] = Absent => k.modified = j.modified
          /\ Untouched(j, f) /\ file[f] # Absent => k.modified[f] = file[f]
      BY <1>1, <1>3, <1>b, <3>1, Journaled, Here
    <3> QED BY <2>3, <3>1, <3>2
  <2> QED BY <2>2, <2>3
<1>10. NoSettings => NoSettingsOf(p)'
  <2> SUFFICES ASSUME NoSettings PROVE NoSettingsOf(p)' OBVIOUS
  <2>1. \A h \in {"config", "backup"} : ~IsManual(file'[h])
    <3> SUFFICES ASSUME NEW h \in {"config", "backup"} PROVE ~IsManual(file'[h])
      OBVIOUS
    <3>1. h \in File BY FileNames
    <3>2. CASE h = f BY <3>2, <1>3
    <3>3. CASE h # f BY <3>1, <3>3, <1>3 DEF NoSettings
    <3> QED BY <3>2, <3>3
  <2>2. /\ ~IsManual(cli[p].journal.modified["config"])
        /\ ~IsManual(file["config"])
    BY DEF NoSettings
  <2>3. ~IsManual(k.modified["config"]) BY <2>2, <1>c
  <2> QED BY <2>1, <2>3, <1>b DEF NoSettingsOf, IsManual
<1>11. HasSettings => HasSettingsOf(p)'
  <2> SUFFICES ASSUME HasSettings PROVE HasSettingsOf(p)' OBVIOUS
  <2>1. /\ cli[p].existing # "none"
        /\ Kept(cli[p].before["config"], cli[p].before["backup"])
    BY DEF HasSettings
  <2>2. cli'[p].existing = cli[p].existing /\ cli'[p].before = cli[p].before
    BY <1>3 DEF Rest
  <2>3. k.modified["config"] # Absent => IsManual(file'["backup"])
    BY <1>c
  <2> HIDE DEF Early, Late
  <2> QED BY <2>1, <2>2, <2>3, <1>3, <1>b DEF HasSettingsOf, IsManual, Kept
<1> QED BY <1>4, <1>5, <1>7, <1>8, <1>9, <1>10, <1>11, Composes

\* When an init writes the configuration, the settings are in the backup.
LEMMA BackedUp ==
  ASSUME Consistent, HasSettings, NEW p \in Process,
         cli[p].name = "init", cli[p].pc = "config"
  PROVE  IsManual(file["backup"])
<1>1. InLock(cli[p]) BY DEF InLock
<1>2. AttemptTrue(cli[p]) /\ StageTrue(cli[p]) BY <1>1, Here
<1>3. CASE cli[p].existing = "managed"
  <2>1. /\ Untouched(cli[p].journal, "config") /\ cli[p].failed = {}
        /\ IsManaged(cli[p].before["config"])
    BY <1>2, <1>3 DEF StageTrue, Late, Ending
  <2>2. file["config"] = cli[p].before["config"]
    BY <1>2, <2>1 DEF AttemptTrue, Important
  <2>3. ~IsManual(file["config"]) BY <2>1, <2>2, Here, FileNames, Kinds
  <2> QED BY <2>3 DEF HasSettings, Kept
<1>4. CASE cli[p].existing # "managed"
  <2>1. cli[p].existing = "manual" BY <1>4, Here DEF HasSettings
  <2>2. "config" \in (Early \cup Late) \ {"backup"} BY DEF Late
  <2> HIDE DEF Early, Late
  <2> QED BY <1>1, <2>1, <2>2 DEF HasSettings
<1> QED BY <1>3, <1>4

\* _reinit keeps a configuration a managed one.
LEMMA UpdatedManaged ==
  ASSUME Consistent, NEW p \in Process, IsManaged(file["config"])
  PROVE  Updated(p) \in Managed
<1>1. PICK c : c = file["config"] OBVIOUS
<1>2. PICK m : m = IF cli[p].mode = "unset" THEN c.mode ELSE cli[p].mode OBVIOUS
<1>3. c \in Managed
  <2>1. file["config"] \in Content("config") \cup {Absent} BY Here, FileNames
  <2> QED BY <1>1, <2>1, Kinds
<1>4. m \in Mode \cup {"unset"} BY <1>2, <1>3, Here DEF Command, Managed
<1>5. cli[p].planner \in BOOLEAN BY Here DEF Command
<1>6. Updated(p) = [c EXCEPT !.planner = c.planner \/ cli[p].planner, !.mode = m]
  BY <1>1, <1>2, <1>3 DEF Updated, Managed
<1> QED BY <1>3, <1>4, <1>5, <1>6 DEF Managed

LEMMA BackupKeeps ==
  ASSUME Consistent, NEW p \in Process, Backup(p)
  PROVE  Keeps
<1>1. /\ cli[p].pc = "backup" /\ cli[p].name = "init" /\ InLock(cli[p])
      /\ UNCHANGED <<serviceLock, spoilt, counters>> /\ ~Filler(cli[p])
  BY Here DEF Backup, At, Routes, Installing, InLock, Filler
<1>2. AttemptTrue(cli[p]) /\ StageTrue(cli[p]) BY <1>1, Here
<1>a. /\ cli[p].existing = "manual" /\ cli[p].before["server"] = Absent
      /\ \A f \in {"config", "server", "token"} : Untouched(cli[p].journal, f)
      /\ cli[p].failed = {}
  BY <1>1, <1>2 DEF StageTrue, Early, Ending
<1>3. CASE \/ file["config"] = Absent /\ Goto(p, "rollback") /\ file' = file
           \/ file["backup"] # Absent /\ Goto(p, "token") /\ file' = file
  <2>1. PICK place : /\ place \in {"rollback", "token"} /\ Goto(p, place)
                     /\ place = "token" => file["backup"] # Absent
    BY <1>3
  <2>2. /\ cli' \in [Process -> Command]
        /\ \A q \in Process \ {p} : cli'[q] = cli[q]
        /\ cli'[p].pc = place /\ cli'[p].journal = cli[p].journal
        /\ Rest(cli[p], cli'[p])
    BY <2>1, GotoFacts, Here DEF Places, Ending, Attempting
  <2>3. OnlyBy(p) /\ LockMoves(p)
    BY <1>1, <1>3, <2>1, <2>2, Here DEF OnlyBy, LockMoves, Sound, counters
  <2>4. Routes(cli[p])'
    BY <1>1, <2>1, <2>2, Here DEF Routes, Rest, Ending, Attempting
  <2>5. place = "token" => StageTrue(cli[p])'
    <3> SUFFICES ASSUME place = "token" PROVE StageTrue(cli[p])' OBVIOUS
    <3>1. PICK d : d = cli'[p] OBVIOUS
    <3>2. /\ d.pc = "token" /\ d.existing = "manual" /\ d.failed = {}
          /\ d.before["server"] = Absent
          /\ \A f \in {"config", "server", "token"} : Untouched(d.journal, f)
      BY <1>a, <2>2, <3>1 DEF Rest
    <3>3. "token" \notin Late BY DEF Late, Installing
    <3> HIDE DEF Late
    <3> QED BY <3>1, <3>2, <3>3 DEF StageTrue, Untouched, Created
  <2>6. place = "token" /\ HasSettings => IsManual(file["backup"])
    <3>1. IsManual(Manual) BY FileNames, Contents, AbsentAssumption DEF IsManual, Manual
    <3> QED BY <3>1, <2>1 DEF HasSettings, Kept
  <2> HIDE DEF Early, Late
  <2>7. cli'[p].name = "init" /\ cli'[p].pc # "lock" BY <1>1, <2>1, <2>2 DEF Rest
  <2> QED BY <1>1, <1>3, <2>1, <2>2, <2>3, <2>4, <2>5, <2>6, <2>7, SameSame, QuietStep
<1>4. CASE /\ file["config"] # Absent /\ file["backup"] = Absent
           /\ Writes(p, "backup", file["config"], "token")
  <2>2. PICK v : v = file["config"] OBVIOUS
  <2>3. v \in Content("config") /\ v \in Content("backup")
    <3>1. v \in Content("config") BY <1>4, <2>2, Here, FileNames
    <3> QED BY <3>1, Contents
  <2>8. "backup" \in File /\ "token" \in Places
    BY FileNames DEF Places, Attempting
  <2>9. /\ cli'[p].pc = "token" /\ Rest(cli[p], cli'[p])
        /\ cli'[p].journal = BeforeWrite(cli[p].journal, "backup")
        /\ file'["backup"] = v
        /\ \A h \in File \ {"backup"} : file'[h] = file[h]
    BY <1>4, <2>2, <2>3, <2>8, WritesFacts, Here
  <2>10. StageTrue(cli[p])'
    <3>1. PICK d : d = cli'[p] OBVIOUS
    <3>2. PICK k : k = BeforeWrite(cli[p].journal, "backup") OBVIOUS
    <3>3. \A h \in {"config", "server", "token"} : Untouched(k, h)
      <4>1. \A h \in File \ {"backup"} :
              /\ h \in Created(k) <=> h \in Created(cli[p].journal)
              /\ k.modified[h] = cli[p].journal.modified[h]
        BY <2>8, <3>2, Journaled, Here
      <4>2. {"config", "server", "token"} \subseteq File \ {"backup"}
        BY FileNames
      <4> QED BY <1>a, <4>1, <4>2 DEF Untouched
    <3>4. /\ d.pc = "token" /\ d.existing = "manual" /\ d.journal = k
          /\ d.before["server"] = Absent /\ d.failed = {}
      BY <1>a, <2>9, <3>1, <3>2 DEF Rest
    <3>5. "token" \notin Late BY DEF Late, Installing
    <3> HIDE DEF Late
    <3> QED BY <3>1, <3>3, <3>4, <3>5 DEF StageTrue, Untouched, Created
  <2>11. HasSettings => /\ Kept(file'["config"], file'["backup"])
                        /\ IsManual(file'["backup"])
    <3> SUFFICES ASSUME HasSettings
                 PROVE  Kept(file'["config"], file'["backup"]) /\ IsManual(file'["backup"])
      OBVIOUS
    <3>1. file'["config"] = v BY <2>2, <2>9, FileNames
    <3>2. v # Absent BY <1>4, <2>2
    <3>3. IsManual(v)
      BY <1>4, <2>2, AbsentAssumption DEF HasSettings, Kept, IsManual
    <3>4. v = Manual BY <2>3, <3>3, FileNames, Kinds
    <3> QED BY <2>9, <3>1, <3>2, <3>3, <3>4 DEF Kept
  <2>12. NoSettings => ~IsManual(v) BY <2>2 DEF NoSettings
  <2>13. /\ "backup" \in Important /\ "token" \in Early
         /\ cli[p].pc \notin {"secret"} \cup Ending
    BY <1>1 DEF Important, Early, Ending
  <2> HIDE DEF Early, Late
  <2> QED BY <1>1, <1>4, <2>2, <2>3, <2>10, <2>11, <2>12, <2>13, WritesKeeps
<1> QED BY <1>3, <1>4 DEF Backup

LEMMA WriteTokenKeeps ==
  ASSUME Consistent, NEW p \in Process, write_token(p)
  PROVE  Keeps
<1>1. /\ cli[p].pc = "token" /\ cli[p].name = "init" /\ InLock(cli[p])
      /\ UNCHANGED <<serviceLock, spoilt, counters>> /\ ~Filler(cli[p])
  BY Here DEF write_token, At, Routes, Installing, InLock, Filler
<1>2. AttemptTrue(cli[p]) /\ StageTrue(cli[p]) BY <1>1, Here
<1>3. /\ cli[p].existing # "managed" /\ cli[p].before["server"] = Absent
      /\ \A f \in {"config", "server", "token"} : Untouched(cli[p].journal, f)
      /\ cli[p].failed = {}
  BY <1>1, <1>2 DEF StageTrue, Early, Ending
<1>4. CASE file["token"] # Absent
  <2>1. Goto(p, "server") /\ file' = file BY <1>4 DEF write_token
  <2>2. /\ cli' \in [Process -> Command]
        /\ \A q \in Process \ {p} : cli'[q] = cli[q]
        /\ cli'[p].pc = "server" /\ cli'[p].journal = cli[p].journal
        /\ Rest(cli[p], cli'[p])
    BY <2>1, GotoFacts, Here DEF Places, Attempting
  <2>3. OnlyBy(p) /\ LockMoves(p)
    BY <1>1, <2>1, <2>2, Here DEF OnlyBy, LockMoves, Sound, counters
  <2>4. Routes(cli[p])'
    BY <1>1, <2>2, Here DEF Routes, Rest, Attempting
  <2>a. Sound' => file["token"] # {}
    <3> SUFFICES ASSUME Sound', file["token"] = {} PROVE FALSE OBVIOUS
    <3>1. PICK q \in Process : Filler(cli[q])
      BY <1>1 DEF Consistent, Complete, Filled, Sound
    <3>2. InLock(cli[q]) BY <3>1 DEF Filler, InLock
    <3>3. q = p BY <1>1, <3>2 DEF Consistent, Excluded
    <3> QED BY <1>1, <3>1, <3>3
  <2>5. StageTrue(cli[p])'
    <3>1. PICK d : d = cli'[p] OBVIOUS
    <3>2. /\ d.pc = "server" /\ d.existing # "managed" /\ d.failed = {}
          /\ d.before["server"] = Absent /\ file'["token"] # Absent
          /\ Sound' => file'["token"] # {}
          /\ \A f \in {"config", "server", "token"} : Untouched(d.journal, f)
      BY <1>3, <1>4, <2>1, <2>2, <2>a, <3>1 DEF Rest
    <3>3. "server" \notin Late BY DEF Late, Installing
    <3> HIDE DEF Late, Sound
    <3> QED BY <3>1, <3>2, <3>3 DEF StageTrue, Untouched, Created
  <2>6. "token" \in (Early \cup Late) \ {"backup"} BY DEF Early
  <2> HIDE DEF Early, Late
  <2> QED BY <1>1, <2>1, <2>2, <2>3, <2>4, <2>5, <2>6, SameSame, QuietStep DEF Rest
<1>5. CASE file["token"] = Absent
  <2>1. Writes(p, "token", {}, "secret") BY <1>5 DEF write_token
  <2>2. {} \in Content("token") /\ "token" \in File /\ "secret" \in Places
    BY Contents, FileNames DEF Places, Attempting
  <2>3. /\ cli'[p].pc = "secret" /\ Rest(cli[p], cli'[p])
        /\ cli'[p].journal = BeforeWrite(cli[p].journal, "token")
        /\ file'["token"] = {}
        /\ \A h \in File \ {"token"} : file'[h] = file[h]
    BY <2>1, <2>2, WritesFacts, Here
  <2>4. StageTrue(cli[p])'
    <3>1. PICK d : d = cli'[p] OBVIOUS
    <3>2. PICK k : k = BeforeWrite(cli[p].journal, "token") OBVIOUS
    <3>3. /\ Untouched(k, "config") /\ Untouched(k, "server")
          /\ "token" \in Created(k)
      <4>1. /\ \A h \in File \ {"token"} :
                 /\ h \in Created(k) <=> h \in Created(cli[p].journal)
                 /\ k.modified[h] = cli[p].journal.modified[h]
            /\ Untouched(cli[p].journal, "token") /\ file["token"] = Absent =>
                 Created(k) = Created(cli[p].journal) \cup {"token"}
        BY <2>2, <3>2, Journaled, Here
      <4>2. {"config", "server"} \subseteq File \ {"token"}
        BY FileNames
      <4> QED BY <1>3, <1>5, <4>1, <4>2 DEF Untouched
    <3>4. /\ d.pc = "secret" /\ d.existing # "managed" /\ d.journal = k
          /\ d.before["server"] = Absent /\ d.failed = {}
      BY <1>3, <2>3, <3>1, <3>2 DEF Rest
    <3>5. "secret" \notin Late BY DEF Late, Installing
    <3>6. file'["token"] # Absent BY <2>2, <2>3, AbsentAssumption
    <3> HIDE DEF Late
    <3> QED BY <3>1, <3>3, <3>4, <3>5, <3>6 DEF StageTrue, Untouched, Created
  <2>5. HasSettings =>
          /\ Kept(file'["config"], file'["backup"])
          /\ cli[p].existing = "manual" => IsManual(file'["backup"])
          /\ cli[p].journal.modified["config"] # Absent => IsManual(file'["backup"])
    <3>1. file'["config"] = file["config"] /\ file'["backup"] = file["backup"]
      BY <2>3, FileNames
    <3>2. "token" \in (Early \cup Late) \ {"backup"} BY DEF Early
    <3> HIDE DEF Early, Late
    <3> QED BY <1>1, <3>1, <3>2 DEF HasSettings, Kept, IsManual
  <2>6. /\ "token" \in Important /\ "secret" \in Early
        /\ cli[p].pc \notin {"secret"} \cup Ending
    BY <1>1 DEF Important, Early, Ending
  <2>7. "config" \notin Created(cli[p].journal) BY <1>3 DEF Untouched
  <2> HIDE DEF Early, Late
  <2> QED BY <1>1, <1>5, <2>1, <2>2, <2>4, <2>5, <2>6, <2>7, WritesKeeps
<1> QED BY <1>4, <1>5

LEMMA WriteServerKeeps ==
  ASSUME Consistent, NEW p \in Process, WriteServer(p)
  PROVE  Keeps
<1>1. /\ cli[p].pc = "server" /\ cli[p].name = "init" /\ InLock(cli[p])
      /\ UNCHANGED <<serviceLock, spoilt, counters>>
      /\ cli[p].pc \notin {"secret"} \cup Ending
      /\ Writes(p, "server", "selection", "excludes")
  BY Here DEF WriteServer, At, Routes, Installing, InLock, Ending
<1>2. AttemptTrue(cli[p]) /\ StageTrue(cli[p]) BY <1>1, Here
<1>3. /\ cli[p].existing # "managed" /\ cli[p].before["server"] = Absent
      /\ \A f \in {"config", "server"} : Untouched(cli[p].journal, f)
      /\ file["token"] # Absent /\ (Sound => file["token"] # {})
      /\ cli[p].failed = {}
  BY <1>1, <1>2 DEF StageTrue, Early, Ending
<1>4. file["server"] = Absent
  BY <1>2, <1>3 DEF AttemptTrue, Important
<1>5. "selection" \in Content("server") /\ "server" \in File /\ "excludes" \in Places
  BY Contents, FileNames DEF Places, Attempting
<1>6. /\ cli'[p].pc = "excludes" /\ Rest(cli[p], cli'[p])
      /\ cli'[p].journal = BeforeWrite(cli[p].journal, "server")
      /\ file'["server"] = "selection"
      /\ \A h \in File \ {"server"} : file'[h] = file[h]
  BY <1>1, <1>5, WritesFacts, Here
<1>7. StageTrue(cli[p])'
  <2>1. PICK d : d = cli'[p] OBVIOUS
  <2>2. PICK k : k = BeforeWrite(cli[p].journal, "server") OBVIOUS
  <2>3. Untouched(k, "config")
    <3>1. \A h \in File \ {"server"} :
            /\ h \in Created(k) <=> h \in Created(cli[p].journal)
            /\ k.modified[h] = cli[p].journal.modified[h]
      BY <1>5, <2>2, Journaled, Here
    <3>2. "config" \in File \ {"server"} BY FileNames
    <3> QED BY <1>3, <3>1, <3>2 DEF Untouched
  <2>4. /\ d.pc = "excludes" /\ d.existing # "managed" /\ d.journal = k
        /\ d.before["server"] = Absent /\ d.failed = {}
    BY <1>3, <1>6, <2>1, <2>2 DEF Rest
  <2>5. "excludes" \notin Early BY DEF Early
  <2>6. file'["server"] # Absent BY <1>5, <1>6, AbsentAssumption
  <2>7. file'["token"] # Absent /\ (Sound' => file'["token"] # {})
    BY <1>1, <1>3, <1>6, FileNames DEF Sound
  <2> HIDE DEF Early, Late, Sound
  <2> QED BY <2>1, <2>3, <2>4, <2>5, <2>6, <2>7 DEF StageTrue, Untouched, Created
<1>8. HasSettings =>
        /\ Kept(file'["config"], file'["backup"])
        /\ cli[p].existing = "manual" => IsManual(file'["backup"])
        /\ cli[p].journal.modified["config"] # Absent => IsManual(file'["backup"])
  <2>1. file'["config"] = file["config"] /\ file'["backup"] = file["backup"]
    BY <1>6, FileNames
  <2>2. "server" \in (Early \cup Late) \ {"backup"} BY DEF Early
  <2> HIDE DEF Early, Late
  <2> QED BY <1>1, <2>1, <2>2 DEF HasSettings, Kept, IsManual
<1>9. "server" \in Important /\ "excludes" \in Late BY DEF Important, Late
<1>10. "config" \notin Created(cli[p].journal) BY <1>3 DEF Untouched
<1> HIDE DEF Early, Late
<1> QED BY <1>1, <1>4, <1>5, <1>7, <1>8, <1>9, <1>10, WritesKeeps

\* The token file has been created by this very attempt.
LEMMA WriteSecretKeeps ==
  ASSUME Consistent, NEW p \in Process, WriteSecret(p)
  PROVE  Keeps
<1>1. /\ cli[p].pc = "secret" /\ cli[p].name = "init" /\ InLock(cli[p])
      /\ UNCHANGED <<serviceLock, spoilt, counters>>
      /\ file' = [file EXCEPT !["token"] = {cli[p].number}]
      /\ Goto(p, "server")
  BY Here DEF WriteSecret, At, Routes, Installing, InLock
<1>2. AttemptTrue(cli[p]) /\ StageTrue(cli[p]) BY <1>1, Here
<1>3. /\ cli[p].existing # "managed" /\ cli[p].before["server"] = Absent
      /\ \A f \in {"config", "server"} : Untouched(cli[p].journal, f)
      /\ "token" \in Created(cli[p].journal) /\ cli[p].failed = {}
  BY <1>1, <1>2 DEF StageTrue, Early, Ending
<1>4. PICK v : v = {cli[p].number} OBVIOUS
<1>5. v \in Content("token") /\ "token" \in File /\ v # Absent /\ v # {}
  <2>1. cli[p].number \in Number BY <1>1, Here DEF Routes
  <2>2. v \in Content("token") BY <1>4, <2>1, Contents DEF Credential
  <2> QED BY <1>4, <2>2, FileNames, AbsentAssumption
<1>6. /\ file' \in Present /\ file'["token"] = v
      /\ \A h \in File \ {"token"} : file'[h] = file[h]
  BY <1>1, <1>4, <1>5, Written, Here
<1>7. /\ cli' \in [Process -> Command]
      /\ \A q \in Process \ {p} : cli'[q] = cli[q]
      /\ cli'[p].pc = "server" /\ cli'[p].journal = cli[p].journal
      /\ Rest(cli[p], cli'[p])
  BY <1>1, GotoFacts, Here DEF Places, Attempting
<1>8. OnlyBy(p) /\ LockMoves(p)
  BY <1>1, <1>6, <1>7, Here DEF OnlyBy, LockMoves, Sound, counters
<1>9. Routes(cli[p])'
  BY <1>1, <1>7, Here DEF Routes, Rest, Attempting
<1>10. AttemptTrue(cli[p])'
  <2>1. PICK c : c = cli[p] OBVIOUS
  <2>2. PICK d : d = cli'[p] OBVIOUS
  <2>3. d.journal = c.journal /\ d.before = c.before /\ d.failed = c.failed
    BY <1>7, <2>1, <2>2 DEF Rest
  <2>a. c.failed = {} /\ (Sound' => Sound) BY <1>1, <1>3, <2>1 DEF Sound
  <2>4. \A f \in Important : Untouched(c.journal, f) => file'[f] = c.before[f]
    <3> SUFFICES ASSUME NEW f \in Important, Untouched(c.journal, f)
                 PROVE  file'[f] = c.before[f]
      OBVIOUS
    <3>1. f # "token" BY <1>3, <2>1 DEF Untouched
    <3>2. f \in File \ {"token"} BY <3>1, ImportantFiles
    <3>3. file[f] = c.before[f] BY <1>2, <2>1, <2>a DEF AttemptTrue
    <3> QED BY <3>2, <3>3, <1>6
  <2> HIDE DEF Sound
  <2>5. AttemptTrue(d)'
    BY <1>2, <2>1, <2>3, <2>4, <2>a
       DEF AttemptTrue, Untouched, IsManaged, Ordered, Created
  <2> QED BY <2>2, <2>5 DEF AttemptTrue
<1>11. StageTrue(cli[p])'
  <2>1. PICK d : d = cli'[p] OBVIOUS
  <2>2. /\ d.pc = "server" /\ d.existing # "managed"
        /\ d.before["server"] = Absent /\ file'["token"] # Absent
        /\ file'["token"] # {} /\ d.failed = {}
        /\ \A f \in {"config", "server"} : Untouched(d.journal, f)
    BY <1>3, <1>5, <1>6, <1>7, <2>1 DEF Rest
  <2>3. "server" \notin Late BY DEF Late, Installing
  <2> HIDE DEF Late
  <2> QED BY <2>1, <2>2, <2>3 DEF StageTrue, Untouched, Created
<1>12. AttemptOf(p)' BY <1>7, <1>10, <1>11 DEF AttemptOf
<1>13. /\ file'["config"] = file["config"] /\ file'["backup"] = file["backup"]
       /\ file'["server"] = file["server"] /\ file'["token"] \notin {Absent, {}}
  BY <1>5, <1>6, FileNames
<1>14. Usable' /\ TokenOf(p)
  BY <1>1, <1>13 DEF Consistent, Complete, Usable, TokenOf, IsManaged, Sound
<1>15. NoSettings => NoSettingsOf(p)'
  BY <1>1, <1>7, <1>13 DEF NoSettings, NoSettingsOf, IsManual, Rest
<1>16. HasSettings => HasSettingsOf(p)'
  <2> SUFFICES ASSUME HasSettings PROVE HasSettingsOf(p)' OBVIOUS
  <2>1. "secret" \in (Early \cup Late) \ {"backup"} BY DEF Early
  <2> HIDE DEF Early, Late
  <2>2. /\ cli[p].existing # "none"
        /\ Kept(cli[p].before["config"], cli[p].before["backup"])
        /\ cli[p].existing = "manual" => IsManual(file["backup"])
        /\ Kept(file["config"], file["backup"])
        /\ cli[p].journal.modified["config"] # Absent => IsManual(file["backup"])
    BY <1>1, <2>1 DEF HasSettings
  <2>3. /\ cli'[p].existing = cli[p].existing /\ cli'[p].before = cli[p].before
        /\ cli'[p].journal = cli[p].journal
    BY <1>7 DEF Rest
  <2> QED BY <2>2, <2>3, <1>13 DEF HasSettingsOf, Kept, IsManual
<1> QED BY <1>8, <1>9, <1>12, <1>14, <1>15, <1>16, Composes

LEMMA WriteHandoffKeeps ==
  ASSUME Consistent, NEW p \in Process, WriteHandoff(p)
  PROVE  Keeps
<1>1. /\ cli[p].pc = "handoff" /\ cli[p].name = "init" /\ InLock(cli[p])
      /\ UNCHANGED <<serviceLock, spoilt, counters>> /\ cli[p].pc \in Late
      /\ cli[p].pc \notin {"secret"} \cup Ending /\ ~Filler(cli[p])
  BY Here DEF WriteHandoff, At, Routes, Installing, InLock, Late, Ending, Filler
<1>2. AttemptTrue(cli[p]) /\ StageTrue(cli[p]) BY <1>1, Here
<1>3. PICK place : place = IF cli[p].planner THEN "skill" ELSE AfterSkill(p)
  OBVIOUS
<1>4. /\ place \in {"skill", "update", "config"} /\ place \in Late
      /\ place \in Places
      /\ cli[p].existing = "managed" => place \notin {"config", "history"}
      /\ cli[p].existing # "managed" => place # "update"
  BY <1>3 DEF AfterSkill, Late, Places, Attempting
<1>5. CASE file["handoff"] # Absent
  <2>1. Goto(p, place) /\ file' = file BY <1>3, <1>5 DEF WriteHandoff
  <2>2. Continues(p, place) BY <1>1, <1>4, <2>1, GotoContinues, Here
  <2> QED BY <1>1, <1>4, <2>2, ContinuesKeeps
<1>6. CASE file["handoff"] = Absent
  <2>1. Writes(p, "handoff", "template", place)
    BY <1>3, <1>6 DEF WriteHandoff
  <2>2. "template" \in Content("handoff") /\ "handoff" \in File
    BY Contents, FileNames
  <2>3. /\ cli'[p].pc = place /\ Rest(cli[p], cli'[p])
        /\ cli'[p].journal = BeforeWrite(cli[p].journal, "handoff")
        /\ \A h \in File \ {"handoff"} : file'[h] = file[h]
    BY <1>4, <2>1, <2>2, WritesFacts, Here
  <2>4. /\ file'["config"] = file["config"] /\ file'["backup"] = file["backup"]
        /\ file'["server"] = file["server"] /\ file'["token"] = file["token"]
    BY <2>3, FileNames
  <2>5. StageTrue(cli[p])'
    <3>1. PICK d : d = cli'[p] OBVIOUS
    <3>2. PICK k : k = BeforeWrite(cli[p].journal, "handoff") OBVIOUS
    <3>3. Untouched(cli[p].journal, "config") /\ cli[p].existing # "managed" =>
            /\ cli[p].before["server"] = Absent
            /\ file["server"] # Absent /\ file["token"] # Absent
            /\ Sound => file["token"] # {}
      BY <1>1, <1>2 DEF StageTrue
    <3>4. Untouched(k, "config")
      <4>1. \A h \in File \ {"handoff"} :
              /\ h \in Created(k) <=> h \in Created(cli[p].journal)
              /\ k.modified[h] = cli[p].journal.modified[h]
        BY <2>2, <3>2, Journaled, Here
      <4>2. "config" \in File \ {"handoff"} BY FileNames
      <4>3. Untouched(cli[p].journal, "config")
        BY <1>1, <1>2 DEF StageTrue
      <4> QED BY <4>1, <4>2, <4>3 DEF Untouched
    <3>5. /\ d.pc = place /\ d.existing = cli[p].existing /\ d.journal = k
          /\ d.before = cli[p].before /\ d.failed = {}
      BY <1>2, <1>1, <2>3, <3>1, <3>2 DEF Rest, StageTrue
    <3>6. place \notin Early BY <1>4 DEF Early
    <3>7. d.existing # "managed" =>
            /\ d.before["server"] = Absent
            /\ file'["server"] # Absent /\ file'["token"] # Absent
            /\ Sound' => file'["token"] # {}
      BY <1>1, <1>2, <2>4, <3>5 DEF StageTrue, Sound
    <3> HIDE DEF Early, Late, Sound
    <3> QED BY <1>4, <3>1, <3>4, <3>5, <3>6, <3>7
            DEF StageTrue, Untouched, Created
  <2>6. HasSettings =>
          /\ Kept(file'["config"], file'["backup"])
          /\ cli[p].existing = "manual" => IsManual(file'["backup"])
          /\ cli[p].journal.modified["config"] # Absent => IsManual(file'["backup"])
    <3>1. cli[p].pc \in (Early \cup Late) \ {"backup"} BY <1>1
    <3> HIDE DEF Early, Late
    <3> QED BY <1>1, <3>1, <2>4 DEF HasSettings, Kept, IsManual
  <2>7. "handoff" \in Important BY DEF Important
  <2> HIDE DEF Early, Late
  <2> QED BY <1>1, <1>4, <1>6, <2>1, <2>2, <2>5, <2>6, <2>7, WritesKeeps
<1> QED BY <1>5, <1>6

LEMMA WriteConfigKeeps ==
  ASSUME Consistent, NEW p \in Process, WriteConfig(p)
  PROVE  Keeps
<1>1. /\ cli[p].pc = "config" /\ cli[p].name = "init" /\ InLock(cli[p])
      /\ UNCHANGED <<serviceLock, spoilt, counters>>
      /\ cli[p].pc \notin {"secret"} \cup Ending
  BY Here DEF WriteConfig, At, Routes, Installing, InLock, Ending
<1>2. AttemptTrue(cli[p]) /\ StageTrue(cli[p]) BY <1>1, Here
<1>3. Untouched(cli[p].journal, "config") /\ cli[p].failed = {}
  BY <1>1, <1>2 DEF StageTrue, Late, Ending
<1>4. file["config"] = cli[p].before["config"]
  BY <1>2, <1>3 DEF AttemptTrue, Important
<1>5. "config" \in Important /\ "config" \in File BY FileNames DEF Important
<1>6. CASE cli[p].existing = "managed"
  <2>1. PICK v : v = Updated(p) OBVIOUS
  <2>2. Writes(p, "config", v, "report") BY <1>6, <2>1 DEF WriteConfig
  <2>3. IsManaged(file["config"]) BY <1>1, <1>2, <1>4, <1>6 DEF StageTrue
  <2>5. v \in Managed BY <2>1, <2>3, UpdatedManaged
  <2>6. v \in Content("config") /\ ~IsManual(v) /\ v # Absent
    <3>1. v \in Content("config") BY <2>5, Contents
    <3> QED BY <2>5, <3>1, Kinds
  <2>7. /\ cli'[p].pc = "report" /\ Rest(cli[p], cli'[p])
        /\ file'["config"] = v
        /\ \A h \in File \ {"config"} : file'[h] = file[h]
    BY <1>5, <2>2, <2>6, WritesFacts, Here DEF Places, Attempting
  <2>8. StageTrue(cli[p])'
    <3>1. PICK d : d = cli'[p] OBVIOUS
    <3>2. d.pc = "report" BY <2>7, <3>1
    <3>3. "report" \notin Early BY DEF Early
    <3>4. d.existing = "managed" /\ d.failed = {} BY <1>3, <1>6, <2>7, <3>1 DEF Rest
    <3> HIDE DEF Early, Late
    <3> QED BY <3>1, <3>2, <3>3, <3>4 DEF StageTrue
  <2>9. HasSettings => /\ Kept(file'["config"], file'["backup"])
                       /\ IsManual(file'["backup"])
    <3>1. file'["backup"] = file["backup"] BY <2>7, FileNames
    <3>2. HasSettings => IsManual(file["backup"]) BY <1>1, BackedUp
    <3> QED BY <2>6, <2>7, <3>1, <3>2 DEF HasSettings, Kept, IsManual
  <2>10. Sound => file["server"] # Absent /\ file["token"] \notin {Absent, {}}
    BY <2>3 DEF Consistent, Complete, Usable
  <2>11. "report" \in Late BY DEF Late
  <2> HIDE DEF Early, Late
  <2> QED BY <1>1, <1>5, <1>6, <2>2, <2>6, <2>8, <2>9, <2>10, <2>11, WritesKeeps
<1>7. CASE cli[p].existing # "managed"
  <2>1. PICK v : v = [config |-> "managed", mode |-> cli[p].mode,
                      planner |-> cli[p].planner]
    OBVIOUS
  <2>2. Writes(p, "config", v, "history") BY <1>7, <2>1 DEF WriteConfig
  <2>3. v \in Managed BY <2>1, Here DEF Managed, Command
  <2>4. v \in Content("config") /\ ~IsManual(v) /\ v # Absent
    <3>1. v \in Content("config") BY <2>3, Contents
    <3> QED BY <2>3, <3>1, Kinds
  <2>5. /\ cli'[p].pc = "history" /\ Rest(cli[p], cli'[p])
        /\ file'["config"] = v
        /\ \A h \in File \ {"config"} : file'[h] = file[h]
    BY <1>5, <2>2, <2>4, WritesFacts, Here DEF Places, Attempting
  <2>6. /\ cli[p].before["server"] = Absent
        /\ file["server"] # Absent /\ file["token"] # Absent
        /\ Sound => file["token"] # {}
    BY <1>1, <1>2, <1>7 DEF StageTrue, Late
  <2>7. StageTrue(cli[p])'
    <3>1. PICK d : d = cli'[p] OBVIOUS
    <3>2. /\ d.pc = "history" /\ d.existing # "managed"
          /\ d.before["server"] = Absent /\ d.failed = {}
      BY <1>3, <1>7, <2>5, <2>6, <3>1 DEF Rest
    <3>3. "history" \notin Early BY DEF Early
    <3>4. /\ file'["server"] # Absent /\ file'["token"] # Absent
          /\ Sound' => file'["token"] # {}
      BY <1>1, <2>5, <2>6, FileNames DEF Sound
    <3> HIDE DEF Early, Late, Sound
    <3> QED BY <3>1, <3>2, <3>3, <3>4 DEF StageTrue
  <2>8. HasSettings => /\ Kept(file'["config"], file'["backup"])
                       /\ IsManual(file'["backup"])
    <3> SUFFICES ASSUME HasSettings
                 PROVE  /\ Kept(file'["config"], file'["backup"])
                        /\ IsManual(file'["backup"])
      OBVIOUS
    <3>1. file'["backup"] = file["backup"] BY <2>5, FileNames
    <3>4. IsManual(file["backup"]) BY <1>1, BackedUp
    <3> QED BY <2>4, <2>5, <3>1, <3>4 DEF HasSettings, Kept, IsManual
  <2>9. "history" \in Late BY DEF Late
  <2> HIDE DEF Early, Late
  <2> QED BY <1>1, <1>5, <2>2, <2>4, <2>6, <2>7, <2>8, <2>9, WritesKeeps
<1> QED BY <1>6, <1>7

LEMMA WriteFailsKeeps ==
  ASSUME Consistent, NEW p \in Process, WriteFails(p)
  PROVE  Keeps
<1>1. PICK f \in File :
        /\ Writing(p, f)
        /\ cli' = [cli EXCEPT ![p].journal = BeforeWrite(@, f), ![p].pc = "rollback"]
  BY DEF WriteFails
<1>2. UNCHANGED <<file, serviceLock, spoilt, counters>> BY DEF WriteFails
<1>3. PICK c \in Command : c = cli[p] BY Here
<1>4. PICK d : d = cli'[p] OBVIOUS
<1>5. /\ c.pc = f /\ f \in {"backup", "token", "handoff", "server", "config", "history"}
      /\ f \in {"backup", "token", "handoff"} => file[f] = Absent
  BY <1>1, <1>3 DEF Writing, At
<1>6. /\ c.name = "init" /\ InLock(c) /\ ~Filler(c)
      /\ c.pc \notin Ending /\ AttemptTrue(c) /\ StageTrue(c)
  BY <1>3, <1>5, Here DEF Routes, Installing, InLock, Filler, Ending
<1>7. PICK j \in Journals : j = c.journal BY <1>3, Here
<1>8. PICK k : k = BeforeWrite(j, f) OBVIOUS
<1>9. /\ k \in Journals
      /\ \A h \in File \ {f} : /\ h \in Created(k) <=> h \in Created(j)
                               /\ k.modified[h] = j.modified[h]
      /\ ~Untouched(j, f) => k = j
      /\ Untouched(j, f) /\ file[f] = Absent => k.modified = j.modified
      /\ Untouched(j, f) /\ file[f] # Absent => k.modified[f] = file[f]
      /\ /\ Ordered(j)
         /\ f \in {"server", "token"} => "config" \notin Created(j)
         => Ordered(k)
  BY <1>1, <1>8, Journaled, Here
<1>10. cli' = [cli EXCEPT ![p].journal = k, ![p].pc = "rollback"]
  BY <1>1, <1>3, <1>7, <1>8, Here, Zenon DEF Command
<1>11. /\ cli' \in [Process -> Command]
       /\ \A q \in Process \ {p} : cli'[q] = cli[q]
       /\ d.pc = "rollback" /\ d.journal = k /\ Rest(c, d)
  <2>1. "rollback" \in Places BY DEF Places, Ending
  <2>2. Typed BY Here
  <2>3. /\ cli' \in [Process -> Command]
        /\ \A q \in Process \ {p} : cli'[q] = cli[q]
        /\ cli'[p].pc = "rollback" /\ cli'[p].journal = k
        /\ Rest(cli[p], cli'[p])
    BY <1>9, <1>10, <2>1, <2>2, JournalFacts
  <2> QED BY <1>3, <1>4, <2>3
<1>12. OnlyBy(p) /\ LockMoves(p)
  BY <1>2, <1>3, <1>4, <1>6, <1>11, Here DEF OnlyBy, LockMoves, Sound, counters
<1>13. Routes(cli[p])' BY <1>3, <1>4, <1>6, <1>11, Here DEF Routes, Rest, Ending
<1>14. CASE f = "history"
  <2>1. SameJournal(j, k)
    <3>1. \A h \in Important : h \in File \ {f} BY <1>14, ImportantFiles DEF Important
    <3>2. f \notin {"server", "token"} BY <1>14
    <3> QED BY <1>9, <3>1, <3>2 DEF SameJournal
  <2> QED BY <1>2, <1>3, <1>4, <1>6, <1>7, <1>11, <1>12, <1>13, <2>1, QuietStep
<1>15. CASE f # "history"
  <2>1. f \in Important BY <1>5, <1>15 DEF Important
  <2>2. c.failed = {} BY <1>6 DEF StageTrue
  <2>3. ASSUME f \in {"server", "token"}
        PROVE  file[f] = Absent /\ "config" \notin Created(j)
    <3>1. f \in Early BY <2>3 DEF Early
    <3>2. c.existing # "managed" BY <1>5, <1>6, <3>1 DEF StageTrue
    <3>3. "config" \notin Created(j)
      <4>1. c.pc \in (Early \cup Late) \ {"history", "report"}
        BY <1>5, <2>3, <3>1
      <4> HIDE DEF Early, Late
      <4> QED BY <1>6, <1>7, <3>2, <4>1 DEF StageTrue, Untouched
    <3>4. file[f] = Absent
      <4>1. CASE f = "token" BY <1>5, <4>1
      <4>2. CASE f = "server"
        <5>1. Untouched(j, "server") /\ c.before["server"] = Absent
          BY <1>5, <1>6, <1>7, <3>1, <3>2, <4>2 DEF StageTrue
        <5> QED BY <1>6, <1>7, <2>1, <2>2, <4>2, <5>1 DEF AttemptTrue
      <4> QED BY <2>3, <4>1, <4>2
    <3> QED BY <3>3, <3>4
  <2>4. /\ f # "config" => file[f] = Absent
        /\ f \in {"server", "token"} => "config" \notin Created(j)
    BY <1>5, <1>15, <2>3
  <2>5. Sound' <=> Sound BY <1>2 DEF Sound
  <2> HIDE DEF Sound
  <2>6. AttemptTrue(d)'
    <3>1. d.before = c.before /\ d.failed = c.failed BY <1>11 DEF Rest
    <3>2. Typed BY Here
    <3> QED BY <1>2, <1>6, <1>7, <1>8, <1>11, <2>1, <2>2, <2>4, <2>5, <3>1, <3>2,
               WroteAttempt
  <2>7. StageTrue(d)'
    <3>1. d.pc = "rollback" BY <1>11
    <3>2. "rollback" \notin Early \cup Late /\ "rollback" \in Ending
      BY DEF Early, Late, Installing, Ending
    <3> HIDE DEF Early, Late, Ending
    <3> QED BY <3>1, <3>2 DEF StageTrue
  <2>8. AttemptOf(p)'
    <3>1. (AttemptTrue(cli[p]) /\ StageTrue(cli[p]))'
      BY <1>4, <2>6, <2>7 DEF AttemptTrue, StageTrue
    <3> QED BY <1>4, <1>11, <3>1 DEF AttemptOf
  <2>9. Usable' /\ TokenOf(p)
    BY <1>2, <1>3, <1>6, <2>5 DEF Usable, TokenOf, Consistent, Complete, IsManaged
  <2>10. /\ f # "config" => k.modified["config"] = j.modified["config"]
         /\ k.modified["config"] \in {j.modified["config"], file["config"]}
    <3>1. CASE f = "config" BY <1>9, <3>1
    <3>2. CASE f # "config" BY <1>9, <3>2, FileNames
    <3> QED BY <3>1, <3>2
  <2>11. NoSettings => NoSettingsOf(p)'
    <3> SUFFICES ASSUME NoSettings PROVE NoSettingsOf(p)' OBVIOUS
    <3>1. ~IsManual(j.modified["config"]) /\ ~IsManual(file["config"])
      BY <1>3, <1>6, <1>7 DEF NoSettings
    <3>2. ~IsManual(k.modified["config"]) BY <2>10, <3>1
    <3> QED BY <1>2, <1>4, <1>11, <3>2 DEF NoSettings, NoSettingsOf, IsManual
  <2>12. HasSettings => HasSettingsOf(p)'
    <3> SUFFICES ASSUME HasSettings PROVE HasSettingsOf(p)' OBVIOUS
    <3>1. /\ c.existing # "none" /\ Kept(c.before["config"], c.before["backup"])
          /\ j.modified["config"] # Absent => IsManual(file["backup"])
          /\ Kept(file["config"], file["backup"])
      BY <1>3, <1>6, <1>7 DEF HasSettings
    <3>2. k.modified["config"] # Absent => IsManual(file["backup"])
      <4>1. CASE f = "config"
        BY <1>3, <1>5, <1>6, <4>1, BackedUp
      <4>2. CASE f # "config" BY <2>10, <3>1, <4>2
      <4> QED BY <4>1, <4>2
    <3>3. d.pc \notin (Early \cup Late) \ {"backup"}
      BY <1>11 DEF Early, Late, Installing
    <3> HIDE DEF Early, Late
    <3> QED BY <1>2, <1>4, <1>11, <3>1, <3>2, <3>3
            DEF HasSettingsOf, IsManual, Kept, Rest
  <2> QED BY <1>12, <1>13, <2>8, <2>9, <2>11, <2>12, Composes
<1> QED BY <1>14, <1>15

\* The parts of an undo that the invariant needs.
LEMMA UndoStep ==
  ASSUME Consistent, NEW p \in Process, cli[p].pc \in {"rollback", "rewrite"},
         cli' \in [Process -> Command], \A q \in Process \ {p} : cli'[q] = cli[q],
         cli'[p].pc \in {"rollback", "rewrite"},
         cli'[p].pc = "rewrite" =>
           /\ cli'[p].open \in File
           /\ cli'[p].journal.modified[cli'[p].open] # Absent,
         cli'[p].name = cli[p].name, cli'[p].existing = cli[p].existing,
         cli'[p].number = cli[p].number, cli'[p].before = cli[p].before,
         file' \in Present, serviceLock' = serviceLock, given' = given,
         spoilt' \in BOOLEAN, Sound' => Sound, faults' \in 0..MaxFaults,
         AttemptTrue(cli[p]) => (AttemptTrue(cli[p]) /\ Usable)' /\ TokenOf(p),
         NoSettings => NoSettingsOf(p)',
         HasSettings =>
           \/ /\ Kept(file'["config"], file'["backup"])
              /\ cli'[p].journal.modified["config"] # Absent =>
                   IsManual(file'["backup"])
           \/ LostBy(p)
  PROVE  Keeps
<1>1. cli[p].name = "init" /\ InLock(cli[p])
  BY Here DEF Routes, Attempting, Installing, InLock
<1>2. InLock(cli'[p]) BY <1>1 DEF InLock
<1>3. OnlyBy(p) /\ LockMoves(p)
  <2> HIDE DEF Sound
  <2> QED BY <1>1, <1>2, Here DEF OnlyBy, LockMoves
<1>4. Routes(cli[p])' BY <1>1, Here DEF Routes, Ending
<1>5. AttemptTrue(cli[p]) BY <1>1, Here
<1>6. {"rollback", "rewrite"} \cap (Early \cup Late) = {}
  BY DEF Early, Late, Installing
<1>7. StageTrue(cli[p])'
  <2>1. PICK d : d = cli'[p] OBVIOUS
  <2>2. d.pc \in {"rollback", "rewrite"} BY <2>1
  <2>3. d.pc \in Ending /\ d.pc # "check" /\ d.pc \notin Early \cup Late
    BY <2>2, <1>6 DEF Ending
  <2>4. d.pc # "update" /\ d.pc \notin {"backup", "token", "secret", "server"}
        /\ d.pc \notin {"config", "history"}
    BY <2>2
  <2> HIDE DEF Early, Late, Ending, Sound
  <2> QED BY <2>1, <2>3, <2>4 DEF StageTrue
<1>8. AttemptOf(p)'
  <2>1. cli'[p].pc # "lock" OBVIOUS
  <2> QED BY <2>1, <1>5, <1>7 DEF AttemptOf
<1>9. HasSettings => HasSettingsOf(p)' \/ LostBy(p)
  <2> SUFFICES ASSUME HasSettings, ~LostBy(p) PROVE HasSettingsOf(p)' OBVIOUS
  <2>1. /\ cli[p].existing # "none"
        /\ Kept(cli[p].before["config"], cli[p].before["backup"])
    BY <1>1 DEF HasSettings
  <2>2. cli'[p].pc \notin (Early \cup Late) \ {"backup"} BY <1>6
  <2> HIDE DEF Early, Late
  <2> QED BY <2>1, <2>2 DEF HasSettingsOf, Kept, IsManual
<1> QED BY <1>3, <1>4, <1>5, <1>8, <1>9, Composes

\* An undo of f keeps the journal true to the files.
LEMMA UndoneAttempt ==
  ASSUME NEW c, NEW d, NEW f \in File, AttemptTrue(c), d.before = c.before,
         \A h \in File \ {f} : /\ file'[h] = file[h]
                               /\ d.journal.modified[h] = c.journal.modified[h],
         d.journal.modified[f] \in {Absent, c.journal.modified[f]},
         Created(c.journal) \subseteq Created(d.journal) \cup {f},
         Created(d.journal) \subseteq Created(c.journal),
         Ordered(c.journal) => Ordered(d.journal),
         c.failed \subseteq d.failed, d.failed \subseteq c.failed \cup {f},
         f \in Important =>
           /\ Untouched(d.journal, f) /\ f \notin d.failed => file'[f] = c.before[f]
           /\ f # "config" /\ f \in d.failed => c.before[f] = Absent,
         f \in {"config", "token"} /\ f \in d.failed => ~Sound',
         Sound' => Sound
  PROVE  AttemptTrue(d)'
<1>1. ASSUME NEW h \in Important
      PROVE  /\ h \in Created(d.journal) => d.before[h] = Absent
             /\ d.journal.modified[h] \in {Absent, d.before[h]}
             /\ Untouched(d.journal, h) /\ h \notin d.failed => file'[h] = d.before[h]
             /\ h # "config" => /\ d.journal.modified[h] = Absent
                                /\ h \in d.failed => d.before[h] = Absent
  <2>1. /\ h \in Created(c.journal) => c.before[h] = Absent
        /\ c.journal.modified[h] \in {Absent, c.before[h]}
        /\ Untouched(c.journal, h) /\ h \notin c.failed => file[h] = c.before[h]
        /\ h # "config" => /\ c.journal.modified[h] = Absent
                           /\ h \in c.failed => c.before[h] = Absent
    BY DEF AttemptTrue
  <2>2. CASE h = f BY <2>1, <2>2
  <2>3. CASE h # f
    <3>1. h \in File \ {f} BY <2>3, ImportantFiles
    <3>2. Untouched(d.journal, h) => Untouched(c.journal, h)
      BY <3>1 DEF Untouched
    <3>3. h \in d.failed => h \in c.failed BY <2>3
    <3> QED BY <2>1, <3>1, <3>2, <3>3
  <2> QED BY <2>2, <2>3
<1>2. Ordered(d.journal) BY DEF AttemptTrue
<1>3. /\ "config" \in d.failed \/ "token" \in d.failed => ~Sound'
      /\ IsManaged(d.before["config"]) /\ Sound' =>
           d.before["server"] # Absent /\ d.before["token"] \notin {Absent, {}}
  <2> HIDE DEF Sound
  <2> QED BY DEF AttemptTrue
<1> HIDE DEF Sound
<1> QED BY <1>1, <1>2, <1>3 DEF AttemptTrue, Untouched, IsManaged, Created, Ordered

\* What a managed repository had is still there.
LEMMA StillThere ==
  ASSUME NEW c, AttemptTrue(c), Sound, IsManaged(c.before["config"])
  PROVE  /\ c.before["server"] # Absent /\ file["server"] = c.before["server"]
         /\ c.before["token"] \notin {Absent, {}}
         /\ file["token"] = c.before["token"]
<1>1. c.before["server"] # Absent /\ c.before["token"] \notin {Absent, {}}
  BY DEF AttemptTrue
<1>2. ASSUME NEW f \in {"server", "token"} PROVE file[f] = c.before[f]
  <2>1. f \in Important /\ f # "config" BY DEF Important
  <2>2. f \notin Created(c.journal) /\ f \notin c.failed
        /\ c.journal.modified[f] = Absent
    BY <1>1, <2>1 DEF AttemptTrue
  <2> QED BY <2>1, <2>2 DEF AttemptTrue, Untouched
<1> QED BY <1>1, <1>2

\* An undo that writes the configuration or nothing of importance.
LEMMA UndoConfig ==
  ASSUME Consistent, NEW p \in Process, NEW f \in File,
         AttemptTrue(cli[p]), cli[p].pc \in {"rollback", "rewrite"},
         cli[p].journal.modified[f] # Absent
  PROVE  /\ f \in Important => f = "config"
         /\ f = "config" => /\ cli[p].before["config"] = cli[p].journal.modified[f]
                            /\ HasSettings => IsManual(file["backup"])
<1>1. InLock(cli[p]) /\ cli[p].name = "init"
  BY Here DEF Routes, Attempting, Installing, InLock
<1> QED BY <1>1 DEF AttemptTrue, HasSettings, Important

-----------------------------------------------------------------------------
(* The rollback.                                                           *)

LEMMA RestoreKeeps ==
  ASSUME Consistent, NEW p \in Process, Restore(p)
  PROVE  Keeps
<1>1. cli[p].pc = "rollback" /\ UNCHANGED <<serviceLock, spoilt, counters>>
  BY DEF Restore, At
<1>2. PICK f \in File :
        /\ cli[p].journal.modified[f] # Absent
        /\ file' = [file EXCEPT ![f] = Cut(f)]
        /\ cli' = [cli EXCEPT ![p].pc = "rewrite", ![p].open = f]
  BY DEF Restore
<1>3. PICK c : c = cli[p] OBVIOUS
<1>4. PICK d : d = cli'[p] OBVIOUS
<1>5. /\ cli' \in [Process -> Command]
      /\ \A q \in Process \ {p} : cli'[q] = cli[q]
      /\ d.pc = "rewrite" /\ d.open = f /\ d.journal = c.journal
      /\ d.name = c.name /\ d.existing = c.existing /\ d.number = c.number
      /\ d.before = c.before /\ d.failed = c.failed
  BY <1>2, <1>3, <1>4, Here DEF Typed, Command, Places, Ending
<1>6. Cut(f) \in Content(f) \cup {Absent} /\ (f = "excludes" => Cut(f) # Absent)
  <2>1. CASE f = "config"
    BY <2>1, Contents DEF Cut
  <2>2. CASE f \in {"excludes", "history"}
    <3>1. {} \in Content(f) BY <2>2, Contents
    <3>2. Cut(f) = {} BY <2>2 DEF Cut
    <3> QED BY <3>1, <3>2, AbsentAssumption
  <2>3. CASE f \notin {"config", "excludes", "history"}
    BY <2>3, Here DEF Cut
  <2> QED BY <2>1, <2>2, <2>3
<1>7. /\ file' \in Present /\ file'[f] = Cut(f)
      /\ \A h \in File \ {f} : file'[h] = file[h]
  BY <1>2, <1>6, Written, Here
<1>8. ASSUME AttemptTrue(c)
      PROVE  /\ f \in Important => f = "config"
             /\ f = "config" => /\ file'["config"] = Damaged
                                /\ HasSettings => IsManual(file["backup"])
  <2>1. f = "config" => Cut(f) = Damaged BY DEF Cut
  <2> QED BY <1>1, <1>2, <1>3, <1>7, <1>8, <2>1, UndoConfig
<1>9. AttemptTrue(c)
  BY <1>1, <1>3, Here DEF Routes, Attempting, Installing, InLock
<1>10. \A h \in Important \ {"config"} : file'[h] = file[h]
  BY <1>7, <1>8, <1>9, ImportantFiles
<1>11. AttemptTrue(d)'
  <2>1. Sound' => Sound BY <1>1 DEF Sound
  <2>2. /\ \A h \in File \ {f} : d.journal.modified[h] = c.journal.modified[h]
        /\ d.journal.modified[f] = c.journal.modified[f]
        /\ ~Untouched(d.journal, f)
    BY <1>2, <1>3, <1>5 DEF Untouched
  <2>3. /\ f \in Important /\ f # "config" => FALSE
        /\ f \in {"config", "token"} /\ f \in c.failed => ~Sound
    BY <1>8, <1>9 DEF AttemptTrue, Important
  <2>4. f \in {"config", "token"} /\ f \in d.failed => ~Sound'
    BY <1>5, <2>1, <2>3
  <2>5. /\ Created(c.journal) \subseteq Created(d.journal) \cup {f}
        /\ Created(d.journal) \subseteq Created(c.journal)
        /\ Ordered(c.journal) => Ordered(d.journal)
        /\ d.failed \subseteq c.failed \cup {f}
    BY <1>5
  <2> QED BY <1>5, <1>7, <1>9, <2>1, <2>2, <2>3, <2>4, <2>5, UndoneAttempt
<1>12. /\ file'["server"] = file["server"] /\ file'["token"] = file["token"]
       /\ file'["backup"] = file["backup"]
       /\ file'["config"] \in {file["config"], Damaged}
  <2>1. \A h \in {"server", "token", "backup"} : h \in Important \ {"config"}
    BY DEF Important
  <2>2. file'["config"] \in {file["config"], Damaged}
    <3>1. CASE f = "config" BY <3>1, <1>8, <1>9
    <3>2. CASE f # "config" BY <3>2, <1>7, FileNames
    <3> QED BY <3>1, <3>2
  <2> QED BY <1>10, <2>1, <2>2
<1>13. ~IsManaged(Damaged) /\ ~IsManual(Damaged) /\ Damaged # Absent
  BY Kinds, Contents
<1>14. Usable'
  <2>1. Sound' => Sound BY <1>1 DEF Sound
  <2>2. IsManaged(file'["config"]) => IsManaged(file["config"])
    BY <1>12, <1>13
  <2> HIDE DEF Sound
  <2> QED BY <1>12, <2>1, <2>2 DEF Usable, Consistent, Complete, IsManaged
<1>15. TokenOf(p)
  <2>1. Filler(c) => Filler(d) BY <1>5 DEF Filler
  <2> QED BY <1>3, <1>4, <1>12, <2>1 DEF TokenOf
<1>16. NoSettings => NoSettingsOf(p)'
  <2> SUFFICES ASSUME NoSettings PROVE NoSettingsOf(p)' OBVIOUS
  <2>1. c.name = "init" /\ InLock(c) => ~IsManual(c.journal.modified["config"])
    BY <1>3 DEF NoSettings
  <2>2. c.name = "init" /\ InLock(c)
    BY <1>1, <1>3, Here DEF Routes, Attempting, Installing, InLock
  <2>3. ~IsManual(file'["config"]) /\ ~IsManual(file'["backup"])
    BY <1>12, <1>13 DEF NoSettings
  <2> QED BY <1>4, <1>5, <2>1, <2>2, <2>3 DEF NoSettingsOf, IsManual
<1>17. HasSettings => /\ Kept(file'["config"], file'["backup"])
                      /\ d.journal.modified["config"] # Absent =>
                           IsManual(file'["backup"])
  <2> SUFFICES ASSUME HasSettings
               PROVE  /\ Kept(file'["config"], file'["backup"])
                      /\ d.journal.modified["config"] # Absent =>
                           IsManual(file'["backup"])
    OBVIOUS
  <2>1. c.name = "init" /\ InLock(c)
    BY <1>1, <1>3, Here DEF Routes, Attempting, Installing, InLock
  <2>2. c.journal.modified["config"] # Absent => IsManual(file["backup"])
    BY <1>3, <2>1 DEF HasSettings
  <2>3. Kept(file["config"], file["backup"]) BY DEF HasSettings
  <2>4. CASE f = "config"
    BY <1>8, <1>9, <1>12, <1>13, <2>3, <2>4 DEF Kept
  <2>5. CASE f # "config"
    <3>1. file'["config"] = file["config"] BY <1>7, <2>5, FileNames
    <3> QED BY <1>5, <1>12, <2>2, <2>3, <3>1
  <2> QED BY <2>4, <2>5
<1>18. (AttemptTrue(cli[p]) /\ Usable)' BY <1>4, <1>11, <1>14 DEF AttemptTrue
<1>19. /\ spoilt' \in BOOLEAN /\ faults' \in 0..MaxFaults /\ given' = given
       /\ Sound' => Sound
  BY <1>1, Here DEF counters, Sound
<1>20. d.journal.modified[d.open] # Absent BY <1>2, <1>3, <1>5
<1> HIDE DEF Sound
<1> QED BY <1>1, <1>3, <1>4, <1>5, <1>7, <1>15, <1>16, <1>17, <1>18, <1>19, <1>20,
           UndoStep

\* What an undo that is done with f makes of the command.
LEMMA RestoredFacts ==
  ASSUME Typed, NEW p \in Process, NEW f \in File, NEW failed \in SUBSET File,
         Restored(p, f, failed)
  PROVE  /\ cli' \in [Process -> Command]
         /\ \A q \in Process \ {p} : cli'[q] = cli[q]
         /\ cli'[p].pc = "rollback"
         /\ cli'[p].name = cli[p].name /\ cli'[p].existing = cli[p].existing
         /\ cli'[p].number = cli[p].number /\ cli'[p].before = cli[p].before
         /\ cli'[p].failed = cli[p].failed \cup failed
         /\ cli'[p].journal.modified[f] = Absent
         /\ \A h \in File \ {f} : cli'[p].journal.modified[h] =
                                    cli[p].journal.modified[h]
         /\ Created(cli'[p].journal) = Created(cli[p].journal)
         /\ Ordered(cli[p].journal) => Ordered(cli'[p].journal)
<1>1. PICK c \in Command : c = cli[p] BY DEF Typed
<1>2. PICK j \in Journals : j = c.journal BY CommandTyped
<1>3. j.modified \in Files /\ j.created \in Lists /\ DOMAIN j.modified = File
  BY DEF Journals, Files
<1>4. PICK m : m = [j.modified EXCEPT ![f] = Absent] OBVIOUS
<1>5. /\ m \in Files /\ m[f] = Absent
      /\ \A h \in File \ {f} : m[h] = j.modified[h]
  BY <1>3, <1>4, FileExcept
<1>6. PICK k : k = [j EXCEPT !.modified = m] OBVIOUS
<1>7. k \in Journals /\ k.modified = m /\ k.created = j.created
  BY <1>5, <1>6 DEF Journals
<1>8. PICK d : d = [c EXCEPT !.pc = "rollback", !.open = "none", !.journal = k,
                             !.failed = @ \cup failed]
  OBVIOUS
<1>9. k = [j EXCEPT !.modified[f] = Absent] BY <1>3, <1>4, <1>6 DEF Journals
<1>10. d = [c EXCEPT !.pc = "rollback", !.open = "none",
                     !.journal.modified[f] = Absent, !.failed = @ \cup failed]
  BY <1>2, <1>8, <1>9 DEF Command
<1>11. cli' = [cli EXCEPT ![p] = d]
  BY <1>1, <1>10, Zenon DEF Restored
<1>12. /\ d.pc = "rollback" /\ d.journal = k
       /\ d.name = c.name /\ d.existing = c.existing
       /\ d.number = c.number /\ d.before = c.before
       /\ d.failed = c.failed \cup failed
  BY <1>8 DEF Command
<1>13. d \in Command
  BY <1>7, <1>8 DEF Command, Places, Ending
<1>14. /\ cli' \in [Process -> Command] /\ cli'[p] = d
       /\ \A q \in Process \ {p} : cli'[q] = cli[q]
  BY <1>11, <1>13 DEF Typed
<1>15. Created(k) = Created(j) /\ (Ordered(j) => Ordered(k))
  BY <1>7 DEF Created, Ordered
<1> QED BY <1>1, <1>2, <1>5, <1>7, <1>12, <1>14, <1>15

\* The configuration is managed again only with all that a service needs, as it
\* was before.
LEMMA RewriteKeeps ==
  ASSUME Consistent, NEW p \in Process, Rewrite(p)
  PROVE  Keeps
<1>1. cli[p].pc = "rewrite" /\ UNCHANGED <<serviceLock, spoilt, counters>>
  BY DEF Rewrite, At
<1>2. PICK f : f = cli[p].open OBVIOUS
<1>3. f \in File /\ cli[p].journal.modified[f] # Absent BY <1>1, <1>2, Here DEF Routes
<1>4. PICK v : v = cli[p].journal.modified[f] OBVIOUS
<1>5. /\ file' = [file EXCEPT ![f] = v] /\ Restored(p, f, {})
  BY <1>2, <1>4 DEF Rewrite
<1>6. PICK c : c = cli[p] OBVIOUS
<1>7. PICK d : d = cli'[p] OBVIOUS
<1>8. /\ cli' \in [Process -> Command]
      /\ \A q \in Process \ {p} : cli'[q] = cli[q]
      /\ d.pc = "rollback"
      /\ d.name = c.name /\ d.existing = c.existing /\ d.number = c.number
      /\ d.before = c.before /\ d.failed = c.failed
      /\ d.journal.modified[f] = Absent
      /\ \A h \in File \ {f} : d.journal.modified[h] = c.journal.modified[h]
      /\ Created(d.journal) = Created(c.journal)
      /\ Ordered(c.journal) => Ordered(d.journal)
  <2>1. Restored(p, f, {}) /\ {} \in SUBSET File BY <1>5
  <2>2. cli[p].failed \cup {} = cli[p].failed OBVIOUS
  <2>3. Typed BY Here
  <2> HIDE DEF Restored
  <2>4. cli'[p].failed = cli[p].failed \cup {} /\ cli'[p].pc = "rollback"
    BY <1>3, <2>1, <2>3, RestoredFacts
  <2>5. d.failed = c.failed BY <1>6, <1>7, <2>2, <2>4
  <2> QED BY <1>3, <1>6, <1>7, <2>1, <2>3, <2>5, RestoredFacts
<1>9. v \in Content(f) /\ v # Absent
  <2>1. cli[p].journal.modified \in Files BY Here, CommandTyped
  <2> QED BY <1>3, <1>4, <2>1, FileAt
<1>10. /\ file' \in Present /\ file'[f] = v
       /\ \A h \in File \ {f} : file'[h] = file[h]
  BY <1>3, <1>5, <1>9, Written, Here
<1>11. AttemptTrue(c) /\ c.name = "init" /\ InLock(c)
  BY <1>1, <1>6, Here DEF Routes, Attempting, Installing, InLock
<1>12. /\ f \in Important => f = "config"
       /\ f = "config" => /\ v = c.before["config"]
                          /\ HasSettings => IsManual(file["backup"])
  BY <1>1, <1>3, <1>4, <1>6, <1>11, UndoConfig
<1>13. /\ file'["server"] = file["server"] /\ file'["token"] = file["token"]
       /\ file'["backup"] = file["backup"]
       /\ f = "config" => file'["config"] = c.before["config"]
       /\ f # "config" => file'["config"] = file["config"]
  <2>1. \A h \in {"server", "token", "backup"} : h \in Important \ {"config"}
    BY DEF Important
  <2>2. \A h \in {"server", "token", "backup"} : h \in File \ {f}
    BY <1>12, <2>1, ImportantFiles
  <2> QED BY <1>10, <1>12, <2>2, FileNames
<1>14. Sound' <=> Sound BY <1>1 DEF Sound
<1> HIDE DEF Sound
<1>15. AttemptTrue(d)'
  <2>1. /\ f \in Important => file'[f] = c.before[f] /\ f = "config"
        /\ f \in {"config", "token"} /\ f \in c.failed => ~Sound'
    BY <1>10, <1>11, <1>12, <1>14 DEF AttemptTrue, Important
  <2>2. /\ \A h \in File \ {f} : d.journal.modified[h] = c.journal.modified[h]
        /\ d.journal.modified[f] = Absent
        /\ Created(c.journal) \subseteq Created(d.journal) \cup {f}
        /\ Created(d.journal) \subseteq Created(c.journal)
        /\ d.failed \subseteq c.failed \cup {f} /\ c.failed \subseteq d.failed
    BY <1>8
  <2> QED BY <1>3, <1>8, <1>10, <1>11, <1>14, <2>1, <2>2, UndoneAttempt
<1>16. Usable'
  <2>1. CASE f = "config"
    <3> SUFFICES ASSUME Sound', IsManaged(file'["config"])
                 PROVE  file'["server"] # Absent /\ file'["token"] \notin {Absent, {}}
      BY DEF Usable, IsManaged
    <3>1. IsManaged(c.before["config"]) BY <1>13, <2>1
    <3> QED BY <1>11, <1>13, <1>14, <3>1, StillThere
  <2>2. CASE f # "config"
    BY <1>13, <1>14, <2>2 DEF Usable, Consistent, Complete, IsManaged
  <2> QED BY <2>1, <2>2
<1>17. TokenOf(p)
  <2>1. Filler(c) => Filler(d) BY <1>8 DEF Filler
  <2> QED BY <1>6, <1>7, <1>13, <2>1 DEF TokenOf
<1>18. d.journal.modified["config"] \in {Absent, c.journal.modified["config"]}
  BY <1>8, FileNames
<1>19. NoSettings => NoSettingsOf(p)'
  <2> SUFFICES ASSUME NoSettings PROVE NoSettingsOf(p)' OBVIOUS
  <2>1. ~IsManual(c.journal.modified["config"])
    BY <1>6, <1>11 DEF NoSettings
  <2>2. f = "config" => ~IsManual(file'["config"]) BY <1>4, <1>6, <1>10, <2>1
  <2>3. ~IsManual(file'["config"]) /\ ~IsManual(file'["backup"])
    BY <1>13, <2>2 DEF NoSettings
  <2>4. ~IsManual(d.journal.modified["config"]) BY <1>18, <2>1, Kinds
  <2> QED BY <1>7, <2>3, <2>4 DEF NoSettingsOf, IsManual
<1>20. HasSettings => /\ Kept(file'["config"], file'["backup"])
                      /\ d.journal.modified["config"] # Absent =>
                           IsManual(file'["backup"])
  <2> SUFFICES ASSUME HasSettings
               PROVE  /\ Kept(file'["config"], file'["backup"])
                      /\ d.journal.modified["config"] # Absent =>
                           IsManual(file'["backup"])
    OBVIOUS
  <2>1. /\ c.journal.modified["config"] # Absent => IsManual(file["backup"])
        /\ Kept(c.before["config"], c.before["backup"])
        /\ Kept(file["config"], file["backup"])
    BY <1>6, <1>11 DEF HasSettings
  <2>2. CASE f = "config"
    BY <1>8, <1>12, <1>13, <2>1, <2>2 DEF Kept
  <2>3. CASE f # "config" BY <1>13, <1>18, <2>1, <2>3
  <2> QED BY <2>2, <2>3
<1>21. (AttemptTrue(cli[p]) /\ Usable)' BY <1>7, <1>15, <1>16 DEF AttemptTrue
<1>22. /\ spoilt' \in BOOLEAN /\ faults' \in 0..MaxFaults /\ given' = given
  BY <1>1, Here DEF counters
<1> QED BY <1>1, <1>6, <1>7, <1>8, <1>10, <1>14, <1>17, <1>19, <1>20, <1>21, <1>22,
           UndoStep

\* What the undo of f leaves when it fails: the files as they are.
LEMMA RestoreFailsKeeps ==
  ASSUME Consistent, NEW p \in Process, RestoreFails(p)
  PROVE  Keeps
<1>1. PICK f \in File :
        /\ cli[p].journal.modified[f] # Absent
        /\ cli[p].pc \in {"rollback", "rewrite"}
        /\ Restored(p, f, {f})
        /\ spoilt' = (spoilt \/ f = "config")
  BY DEF RestoreFails, At
<1>2. faults' \in 0..MaxFaults /\ UNCHANGED <<file, serviceLock, given>>
  BY Here, InstallationAssumption DEF RestoreFails
<1>3. PICK c : c = cli[p] OBVIOUS
<1>4. PICK d : d = cli'[p] OBVIOUS
<1>5. /\ cli' \in [Process -> Command]
      /\ \A q \in Process \ {p} : cli'[q] = cli[q]
      /\ d.pc = "rollback"
      /\ d.name = c.name /\ d.existing = c.existing /\ d.number = c.number
      /\ d.before = c.before /\ d.failed = c.failed \cup {f}
      /\ d.journal.modified[f] = Absent
      /\ \A h \in File \ {f} : d.journal.modified[h] = c.journal.modified[h]
      /\ Created(d.journal) = Created(c.journal)
      /\ Ordered(c.journal) => Ordered(d.journal)
  <2>1. {f} \in SUBSET File OBVIOUS
  <2> QED BY <1>1, <1>3, <1>4, <2>1, RestoredFacts, Here
<1>6. AttemptTrue(c) /\ c.name = "init" /\ InLock(c)
  BY <1>1, <1>3, Here DEF Routes, Attempting, Installing, InLock
<1>7. f \in Important => f = "config" BY <1>1, <1>3, <1>6, UndoConfig
<1>8. /\ spoilt' \in BOOLEAN /\ (Sound' => Sound)
      /\ f = "config" => ~Sound'
  BY <1>1, Here DEF Sound
<1> HIDE DEF Sound
<1>9. AttemptTrue(d)'
  <2>1. /\ f \in Important => f \in d.failed /\ f = "config"
        /\ f \in {"config", "token"} /\ f \in d.failed => ~Sound'
    BY <1>5, <1>7, <1>8 DEF Important
  <2>2. /\ \A h \in File \ {f} : d.journal.modified[h] = c.journal.modified[h]
        /\ d.journal.modified[f] = Absent /\ \A h \in File \ {f} : file'[h] = file[h]
        /\ Created(c.journal) \subseteq Created(d.journal) \cup {f}
        /\ Created(d.journal) \subseteq Created(c.journal)
        /\ d.failed \subseteq c.failed \cup {f} /\ c.failed \subseteq d.failed
    BY <1>2, <1>5
  <2> QED BY <1>5, <1>6, <1>8, <2>1, <2>2, UndoneAttempt
<1>10. Usable' BY <1>2, <1>8 DEF Usable, Consistent, Complete, IsManaged
<1>11. TokenOf(p)
  <2>1. Filler(c) => Filler(d) BY <1>5 DEF Filler
  <2> QED BY <1>2, <1>3, <1>4, <2>1 DEF TokenOf
<1>12. d.journal.modified["config"] \in {Absent, c.journal.modified["config"]}
  BY <1>5, FileNames
<1>13. NoSettings => NoSettingsOf(p)'
  <2> SUFFICES ASSUME NoSettings PROVE NoSettingsOf(p)' OBVIOUS
  <2>1. ~IsManual(c.journal.modified["config"])
    BY <1>3, <1>6 DEF NoSettings
  <2>2. ~IsManual(d.journal.modified["config"]) BY <1>12, <2>1, Kinds
  <2> QED BY <1>2, <1>4, <2>2 DEF NoSettings, NoSettingsOf, IsManual
<1>14. HasSettings => /\ Kept(file'["config"], file'["backup"])
                      /\ d.journal.modified["config"] # Absent =>
                           IsManual(file'["backup"])
  BY <1>2, <1>3, <1>6, <1>12 DEF HasSettings, Kept, IsManual
<1>15. (AttemptTrue(cli[p]) /\ Usable)' BY <1>4, <1>9, <1>10 DEF AttemptTrue
<1>16. file' \in Present BY <1>2, Here
<1> QED BY <1>1, <1>2, <1>3, <1>4, <1>5, <1>8, <1>11, <1>13, <1>14, <1>15, <1>16,
           UndoStep

\* What removing the last created file, or leaving it, makes of the command.
LEMMA RemovedFacts ==
  ASSUME Typed, NEW p \in Process, NEW f \in File, Removes(p, f),
         NEW k, k = [cli[p].journal EXCEPT !.created =
                       SubSeq(@, 1, Len(@) - 1)]
  PROVE  /\ k \in Journals /\ k.modified = cli[p].journal.modified
         /\ \A h \in File : k.modified[h] = Absent
         /\ f # "excludes" /\ f \in Created(cli[p].journal)
         /\ Created(cli[p].journal) = Created(k) \cup {f}
         /\ Ordered(cli[p].journal) =>
              /\ Ordered(k)
              /\ f \in {"server", "token"} => "config" \notin Created(cli[p].journal)
<1>1. PICK j \in Journals : j = cli[p].journal BY CommandTyped DEF Typed
<1>2. PICK s : s = j.created OBVIOUS
<1>3. s # <<>> /\ f = s[Len(s)] /\ \A h \in File : j.modified[h] = Absent
  BY <1>1, <1>2 DEF Removes
<1>4. k = [j EXCEPT !.created = SubSeq(s, 1, Len(s) - 1)]
  BY <1>1, <1>2, Zenon DEF Journals
<1>5. /\ k \in Journals /\ k.modified = j.modified
      /\ s[Len(s)] \in Creatable /\ s[Len(s)] \in Created(j)
      /\ Created(j) = Created(k) \cup {s[Len(s)]}
      /\ Ordered(j) =>
           /\ Ordered(k)
           /\ s[Len(s)] \in {"server", "token"} => "config" \notin Created(j)
  BY <1>2, <1>3, <1>4, DropsLast
<1> QED BY <1>1, <1>3, <1>5 DEF Creatable

LEMMA RemoveKeeps ==
  ASSUME Consistent, NEW p \in Process, Remove(p)
  PROVE  Keeps
<1>1. PICK f \in File : Removes(p, f) /\ file' = [file EXCEPT ![f] = Absent]
  BY DEF Remove
<1>2. /\ UNCHANGED <<serviceLock, spoilt, counters>>
      /\ cli' = [cli EXCEPT ![p].journal.created = SubSeq(@, 1, Len(@) - 1)]
  BY DEF Remove
<1>3. PICK c : c = cli[p] OBVIOUS
<1>4. PICK d : d = cli'[p] OBVIOUS
<1>5. PICK k : k = [c.journal EXCEPT !.created = SubSeq(@, 1, Len(@) - 1)] OBVIOUS
<1>6. /\ k \in Journals /\ k.modified = c.journal.modified
      /\ \A h \in File : k.modified[h] = Absent
      /\ f # "excludes" /\ f \in Created(c.journal)
      /\ Created(c.journal) = Created(k) \cup {f}
      /\ Ordered(c.journal) =>
           /\ Ordered(k)
           /\ f \in {"server", "token"} => "config" \notin Created(c.journal)
  BY <1>1, <1>3, <1>5, RemovedFacts, Here
<1>7. cli' = [cli EXCEPT ![p].journal = k]
  BY <1>2, <1>3, <1>5, Here, Zenon DEF Command
<1>8. c.pc = "rollback" BY <1>1, <1>3 DEF Removes, At
<1>9. /\ cli' \in [Process -> Command]
      /\ \A q \in Process \ {p} : cli'[q] = cli[q]
      /\ d.pc = "rollback" /\ d.journal = k
      /\ d.name = c.name /\ d.existing = c.existing /\ d.number = c.number
      /\ d.before = c.before /\ d.failed = c.failed
  BY <1>3, <1>4, <1>6, <1>7, <1>8, Here DEF Typed, Command
<1>10. /\ file' \in Present /\ file'[f] = Absent
       /\ \A h \in File \ {f} : file'[h] = file[h]
  <2>1. PICK v : v = Absent OBVIOUS
  <2>2. file' = [file EXCEPT ![f] = v] BY <1>1, <2>1
  <2>3. v \in Content(f) \cup {Absent} BY <2>1
  <2>4. file' \in Present /\ file'[f] = v /\ \A h \in File \ {f} : file'[h] = file[h]
    BY <1>6, <2>2, <2>3, Written, Here
  <2> QED BY <2>1, <2>4
<1>11. AttemptTrue(c) /\ c.name = "init" /\ InLock(c)
  BY <1>3, <1>8, Here DEF Routes, Attempting, Installing, InLock
<1>12. \A h \in {"config", "server", "token", "backup"} :
         /\ h \in Important /\ h \in File
         /\ h = f => file'[h] = Absent
         /\ h # f => file'[h] = file[h]
  BY <1>10, FileNames DEF Important
<1>13. f \in Important => c.before[f] = Absent BY <1>6, <1>11 DEF AttemptTrue
<1>14. Sound' <=> Sound BY <1>2 DEF Sound
<1> HIDE DEF Sound
<1>15. AttemptTrue(d)'
  <2>1. /\ f \in Important => file'[f] = c.before[f] /\ c.before[f] = Absent
        /\ f \in {"config", "token"} /\ f \in c.failed => ~Sound'
    BY <1>10, <1>11, <1>13, <1>14 DEF AttemptTrue
  <2>2. /\ \A h \in File \ {f} : d.journal.modified[h] = c.journal.modified[h]
        /\ d.journal.modified[f] = c.journal.modified[f]
        /\ Created(c.journal) \subseteq Created(d.journal) \cup {f}
        /\ Created(d.journal) \subseteq Created(c.journal)
        /\ Ordered(c.journal) => Ordered(d.journal)
        /\ d.failed \subseteq c.failed \cup {f} /\ c.failed \subseteq d.failed
    BY <1>6, <1>9
  <2> QED BY <1>9, <1>10, <1>11, <1>14, <2>1, <2>2, UndoneAttempt
<1>16. Usable'
  <2> SUFFICES ASSUME Sound', IsManaged(file'["config"])
               PROVE  file'["server"] # Absent /\ file'["token"] \notin {Absent, {}}
    BY DEF Usable, IsManaged
  <2>1. f # "config" BY <1>12, Kinds
  <2>2. file'["config"] = file["config"] BY <1>12, <2>1
  <2>3. file["server"] # Absent /\ file["token"] \notin {Absent, {}}
    BY <1>14, <2>2 DEF Usable, Consistent, Complete
  <2>4. CASE f \in {"server", "token"}
    <3>1. "config" \notin Created(c.journal) BY <1>6, <1>11, <2>4 DEF AttemptTrue
    <3>2. c.journal.modified["config"] = Absent BY <1>6, FileNames
    <3>3. "config" \notin c.failed BY <1>11, <1>14 DEF AttemptTrue
    <3>4. file["config"] = c.before["config"]
      BY <1>11, <1>12, <3>1, <3>2, <3>3 DEF AttemptTrue, Untouched
    <3>5. c.before["server"] # Absent /\ c.before["token"] # Absent
      BY <1>11, <1>14, <2>2, <3>4, StillThere
    <3> QED BY <1>12, <1>13, <2>4, <3>5
  <2>5. CASE f \notin {"server", "token"} BY <1>12, <2>3, <2>5
  <2> QED BY <2>4, <2>5
<1>17. TokenOf(p)
  <2>1. CASE f = "token"
    <3>1. {} \in Content("token") /\ "token" \in File BY Contents, FileNames
    <3>2. {} # Absent BY <3>1, AbsentAssumption
    <3>3. file'["token"] = Absent BY <1>12, <2>1
    <3> QED BY <3>2, <3>3 DEF TokenOf
  <2>2. CASE f # "token"
    <3>1. Filler(c) => Filler(d) BY <1>6, <1>9, <2>2 DEF Filler
    <3> QED BY <1>3, <1>4, <1>12, <2>2, <3>1 DEF TokenOf
  <2> QED BY <2>1, <2>2
<1>18. d.journal.modified["config"] = Absent BY <1>6, <1>9, FileNames
<1>19. NoSettings => NoSettingsOf(p)'
  <2> SUFFICES ASSUME NoSettings PROVE NoSettingsOf(p)' OBVIOUS
  <2>1. ~IsManual(file'["config"]) /\ ~IsManual(file'["backup"])
    BY <1>12, Kinds DEF NoSettings
  <2>2. ~IsManual(d.journal.modified["config"]) BY <1>18, Kinds
  <2> QED BY <1>4, <2>1, <2>2 DEF NoSettingsOf, IsManual
<1>20. HasSettings =>
         \/ /\ Kept(file'["config"], file'["backup"])
            /\ cli'[p].journal.modified["config"] # Absent =>
                 IsManual(file'["backup"])
         \/ LostBy(p)
  <2> SUFFICES ASSUME HasSettings
               PROVE  Kept(file'["config"], file'["backup"]) \/ LostBy(p)
    BY <1>4, <1>18
  <2>1. /\ Kept(c.before["config"], c.before["backup"])
        /\ Kept(file["config"], file["backup"])
    BY <1>3, <1>11 DEF HasSettings
  <2>2. f # "config" BY <1>12, <1>13, <2>1 DEF Kept
  <2>3. file'["config"] = file["config"] BY <1>12, <2>2
  <2>4. CASE f # "backup" BY <1>12, <2>1, <2>3, <2>4
  <2>5. CASE f = "backup"
    <3>1. file'["backup"] = Absent /\ c.before["backup"] = Absent
      BY <1>12, <1>13, <2>5
    <3>2. IsManual(c.before["config"]) /\ c.before["config"] # Absent
      BY <2>1, <3>1, Kinds DEF Kept
    <3>3. CASE "config" \in c.failed
      <4>1. CASE IsManual(file["config"])
        BY <2>1, <2>3, <3>1, <4>1 DEF Kept
      <4>2. CASE ~IsManual(file["config"])
        <5>1. ~IsManual(file'["config"]) /\ ~IsManual(file'["backup"])
          BY <2>3, <3>1, <4>2, Kinds
        <5>2. ~IsManual(d.journal.modified["config"]) BY <1>18, Kinds
        <5>3. NoSettingsOf(p)' BY <1>4, <5>1, <5>2 DEF NoSettingsOf, IsManual
        <5> QED BY <1>3, <1>4, <1>9, <1>11, <3>3, <5>3 DEF LostBy
      <4> QED BY <4>1, <4>2
    <3>4. CASE "config" \notin c.failed
      <4>1. "config" \notin Created(c.journal)
        BY <1>11, <1>12, <3>2 DEF AttemptTrue
      <4>2. c.journal.modified["config"] = Absent BY <1>6, FileNames
      <4>3. file["config"] = c.before["config"]
        BY <1>11, <1>12, <3>4, <4>1, <4>2 DEF AttemptTrue, Untouched
      <4> QED BY <2>3, <3>1, <3>2, <4>3 DEF Kept
    <3> QED BY <3>3, <3>4
  <2> QED BY <2>4, <2>5
<1>21. (AttemptTrue(cli[p]) /\ Usable)' BY <1>4, <1>15, <1>16 DEF AttemptTrue
<1>22. /\ spoilt' \in BOOLEAN /\ faults' \in 0..MaxFaults /\ given' = given
  BY <1>2, Here DEF counters
<1> QED BY <1>2, <1>3, <1>4, <1>8, <1>9, <1>10, <1>14, <1>17, <1>19, <1>20, <1>21,
           <1>22, UndoStep

LEMMA RemoveFailsKeeps ==
  ASSUME Consistent, NEW p \in Process, RemoveFails(p)
  PROVE  Keeps
<1>1. PICK f \in File :
        /\ Removes(p, f)
        /\ cli' = [cli EXCEPT ![p].journal.created = SubSeq(@, 1, Len(@) - 1),
                              ![p].failed = @ \cup {f}]
        /\ spoilt' = (spoilt \/ f \in {"config", "token"})
  BY DEF RemoveFails
<1>2. faults' \in 0..MaxFaults /\ UNCHANGED <<file, serviceLock, given>>
  BY Here, InstallationAssumption DEF RemoveFails
<1>3. PICK c \in Command : c = cli[p] BY Here
<1>4. PICK d : d = cli'[p] OBVIOUS
<1>5. PICK k : k = [c.journal EXCEPT !.created = SubSeq(@, 1, Len(@) - 1)] OBVIOUS
<1>6. /\ k \in Journals /\ k.modified = c.journal.modified
      /\ \A h \in File : k.modified[h] = Absent
      /\ f # "excludes" /\ f \in Created(c.journal)
      /\ Created(c.journal) = Created(k) \cup {f}
      /\ Ordered(c.journal) => Ordered(k)
  BY <1>1, <1>3, <1>5, RemovedFacts, Here
<1>7. c.pc = "rollback" BY <1>1, <1>3 DEF Removes, At
<1>8. /\ cli' \in [Process -> Command]
      /\ \A q \in Process \ {p} : cli'[q] = cli[q]
      /\ d.pc = "rollback" /\ d.journal = k
      /\ d.name = c.name /\ d.existing = c.existing /\ d.number = c.number
      /\ d.before = c.before /\ d.failed = c.failed \cup {f}
  <2>1. PICK e : e = [c EXCEPT !.journal = k, !.failed = @ \cup {f}] OBVIOUS
  <2>2. e \in Command /\ e.pc = c.pc /\ e.journal = k /\ e.name = c.name
        /\ e.existing = c.existing /\ e.number = c.number
        /\ e.before = c.before /\ e.failed = c.failed \cup {f}
    BY <1>6, <2>1 DEF Command
  <2>3. cli' = [cli EXCEPT ![p] = e]
    <3>1. e = [c EXCEPT !.journal.created = SubSeq(@, 1, Len(@) - 1),
                        !.failed = @ \cup {f}]
      BY <1>5, <2>1, Zenon DEF Command
    <3> QED BY <1>1, <1>3, <3>1, Zenon
  <2> QED BY <1>3, <1>4, <1>7, <2>2, <2>3 DEF Consistent, Typed
<1>9. AttemptTrue(c) /\ c.name = "init" /\ InLock(c)
  BY <1>3, <1>7, Here DEF Routes, Attempting, Installing, InLock
<1>10. f \in Important => c.before[f] = Absent BY <1>6, <1>9 DEF AttemptTrue
<1>11. /\ spoilt' \in BOOLEAN /\ (Sound' => Sound)
       /\ f \in {"config", "token"} => ~Sound'
  BY <1>1, Here DEF Sound
<1> HIDE DEF Sound
<1>12. AttemptTrue(d)'
  <2>1. /\ f \in Important => f \in d.failed /\ c.before[f] = Absent
        /\ f \in {"config", "token"} /\ f \in d.failed => ~Sound'
    BY <1>8, <1>10, <1>11
  <2>2. /\ \A h \in File \ {f} : d.journal.modified[h] = c.journal.modified[h]
        /\ d.journal.modified[f] = c.journal.modified[f]
        /\ \A h \in File \ {f} : file'[h] = file[h]
        /\ Created(c.journal) \subseteq Created(d.journal) \cup {f}
        /\ Created(d.journal) \subseteq Created(c.journal)
        /\ Ordered(c.journal) => Ordered(d.journal)
        /\ d.failed \subseteq c.failed \cup {f} /\ c.failed \subseteq d.failed
    BY <1>2, <1>6, <1>8
  <2> QED BY <1>8, <1>9, <1>11, <2>1, <2>2, UndoneAttempt
<1>13. Usable' BY <1>2, <1>11 DEF Usable, Consistent, Complete, IsManaged
<1>14. TokenOf(p)
  <2>1. CASE f = "token" BY <1>11, <2>1 DEF TokenOf
  <2>2. CASE f # "token"
    <3>1. Filler(c) => Filler(d) BY <1>6, <1>8, <2>2 DEF Filler
    <3> QED BY <1>2, <1>3, <1>4, <3>1 DEF TokenOf
  <2> QED BY <2>1, <2>2
<1>15. d.journal.modified["config"] = Absent BY <1>6, <1>8, FileNames
<1>16. NoSettings => NoSettingsOf(p)'
  BY <1>2, <1>4, <1>15, Kinds DEF NoSettings, NoSettingsOf, IsManual
<1>17. HasSettings => /\ Kept(file'["config"], file'["backup"])
                      /\ cli'[p].journal.modified["config"] # Absent =>
                           IsManual(file'["backup"])
  BY <1>2, <1>4, <1>15 DEF HasSettings, Kept, IsManual
<1>18. (AttemptTrue(cli[p]) /\ Usable)' BY <1>4, <1>12, <1>13 DEF AttemptTrue
<1>19. file' \in Present BY <1>2, Here
<1> QED BY <1>2, <1>3, <1>4, <1>7, <1>8, <1>11, <1>14, <1>16, <1>17, <1>18, <1>19,
           UndoStep

-----------------------------------------------------------------------------

LEMMA ConsistentInit == Init => Consistent
<1> SUFFICES ASSUME Init PROVE Consistent OBVIOUS
<1> DEFINE M == [config |-> "managed", mode |-> "unset", planner |-> FALSE]
<1>1. PICK c \in {Absent, Manual, M}, h \in {Absent, "task"},
           s \in [copy : {"old", "user"}, marker : {TRUE}] \cup {Absent} :
       file = [f \in File |->
                 CASE f = "config" -> c
                   [] f = "server" -> IF IsManaged(c) THEN "selection" ELSE Absent
                   [] f = "token" -> IF IsManaged(c) THEN {0} ELSE Absent
                   [] f = "excludes" -> IF IsManaged(c) THEN {"generated"} ELSE {}
                   [] f = "handoff" -> IF IsManaged(c) THEN "task" ELSE h
                   [] f = "skill" -> s
                   [] f = "history" -> IF IsManaged(c) THEN {} ELSE Absent
                   [] OTHER -> Absent]
  BY Zenon DEF Init
<1>2. /\ serviceLock = NoProcess /\ cli = [p \in Process |-> Done]
      /\ given = 0 /\ faults = 0 /\ spoilt = FALSE
  BY DEF Init
<1>3. /\ file["config"] = c /\ file["backup"] = Absent
      /\ file["server"] = IF IsManaged(c) THEN "selection" ELSE Absent
      /\ file["token"] = IF IsManaged(c) THEN {0} ELSE Absent
      /\ file["excludes"] = IF IsManaged(c) THEN {"generated"} ELSE {}
      /\ file["handoff"] = IF IsManaged(c) THEN "task" ELSE h
      /\ file["skill"] = s
      /\ file["history"] = IF IsManaged(c) THEN {} ELSE Absent
      /\ file = [f \in File |-> file[f]]
  <2>1. /\ file["config"] = c /\ file["backup"] = Absent
        /\ file["server"] = IF IsManaged(c) THEN "selection" ELSE Absent
        /\ file["token"] = IF IsManaged(c) THEN {0} ELSE Absent
    BY <1>1, FileNames
  <2>2. /\ file["excludes"] = IF IsManaged(c) THEN {"generated"} ELSE {}
        /\ file["handoff"] = IF IsManaged(c) THEN "task" ELSE h
    BY <1>1, FileNames
  <2>3. /\ file["skill"] = s
        /\ file["history"] = IF IsManaged(c) THEN {} ELSE Absent
    BY <1>1, FileNames
  <2>4. file = [f \in File |-> file[f]] BY <1>1
  <2> QED BY <2>1, <2>2, <2>3, <2>4
<1>4. c \in Content("config") \cup {Absent}
  <2>1. M \in Managed BY DEF Managed
  <2> HIDE DEF M
  <2> QED BY <2>1, Contents
<1>5. ASSUME NEW f \in File PROVE file[f] \in Content(f) \cup {Absent}
  <2>1. CASE f \in {"config", "backup", "server"}
    BY <1>3, <1>4, <2>1, Contents
  <2>2. CASE f = "token"
    <3>1. {0} \in Content("token") BY Contents DEF Credential
    <3> QED BY <1>3, <2>2, <3>1
  <2>3. CASE f \in {"excludes", "handoff", "history"}
    BY <1>3, <2>3, Contents
  <2>4. CASE f = "skill" BY <1>3, <2>4, Contents DEF Copy
  <2> QED BY <2>1, <2>2, <2>3, <2>4 DEF File
<1>6. file["excludes"] # Absent
  <2>1. /\ {"generated"} \in Content("excludes") /\ {} \in Content("excludes")
        /\ "excludes" \in File
    BY Contents, FileNames
  <2> QED BY <1>3, <2>1, AbsentAssumption
<1>7. file \in Present
  <2>1. \A f \in File : file[f] \in Anything BY <1>5, ContentAnything
  <2>2. file \in [File -> Anything] BY <1>3, <2>1
  <2> QED BY <1>5, <1>6, <2>2 DEF Present, Files
<1>8. Typed
  <2>1. cli \in [Process -> Command] BY <1>2, DoneTyped
  <2>2. serviceLock \in Process \cup {NoProcess} /\ spoilt \in BOOLEAN BY <1>2
  <2>3. MaxCommands \in Nat /\ MaxFaults \in Nat BY InstallationAssumption
  <2>4. given \in 0..MaxCommands /\ faults \in 0..MaxFaults
    <3>1. given = 0 /\ faults = 0 BY <1>2
    <3> QED BY <2>3, <3>1
  <2> QED BY <1>7, <2>1, <2>2, <2>4 DEF Typed
<1>9. \A p \in Process : cli[p].name = "none" /\ cli[p].pc = "idle"
  BY <1>2, DoneTyped
<1>10. Excluded /\ Attempts /\ \A p \in Process : Routes(cli[p])
  BY <1>9 DEF Excluded, Attempts, Routes, InLock
<1>11. Complete
  <2>1. /\ "selection" \in Content("server") /\ {0} \in Content("token")
        /\ {} \in Content("token") /\ {"server", "token"} \subseteq File
    BY Contents, FileNames DEF Credential
  <2>2. "selection" # Absent /\ {0} # Absent /\ {} # Absent /\ {0} # {}
    BY <2>1, AbsentAssumption
  <2>3. Usable BY <1>3, <2>2 DEF Usable
  <2>4. Filled BY <1>3, <2>2 DEF Filled
  <2> QED BY <2>3, <2>4 DEF Complete
<1>12. NoSettings \/ HasSettings
  <2>1. ~IsManual(Absent) BY Kinds
  <2>2. CASE IsManual(c)
    <3>1. c # Absent BY <2>1, <2>2
    <3>2. HasSettings BY <1>3, <1>9, <2>2, <3>1 DEF HasSettings, Kept
    <3> QED BY <3>2
  <2>3. CASE ~IsManual(c)
    BY <1>3, <1>9, <2>1, <2>3 DEF NoSettings
  <2> QED BY <2>2, <2>3
<1> QED BY <1>8, <1>10, <1>11, <1>12 DEF Consistent

LEMMA StepKeeps ==
  ASSUME Consistent, NEW p \in Process, Step(p)
  PROVE  Keeps
BY TakeLockKeeps, UnlockKeeps, ReleaseKeeps, CheckKeeps, BackupKeeps,
   WriteTokenKeeps, WriteSecretKeeps, WriteServerKeeps, ReadExcludesKeeps,
   WriteExcludesKeeps, WriteHandoffKeeps, InspectSkillKeeps, JournalSkillKeeps,
   BeginCopyKeeps, EndCopyKeeps, WriteMarkerKeeps, RetireKeeps, SwapKeeps,
   RazeKeeps, RaidKeeps, UpdateKeeps, WriteConfigKeeps, WriteHistoryKeeps,
   ReportKeeps, SetModeKeeps, AppendHistoryKeeps, RaisesKeeps, WriteFailsKeeps,
   InterruptKeeps, RestoreKeeps, RewriteKeeps, RestoreFailsKeeps, RemoveKeeps,
   RemoveFailsKeeps, EndRollbackKeeps
   DEF Step

LEMMA NextKeeps ==
  ASSUME Consistent, [Next]_vars
  PROVE  Keeps
<1>1. ASSUME NEW p \in Process, Begin(p) PROVE Keeps
  BY <1>1, BeginKeeps
<1>2. ASSUME NEW p \in Process, Step(p) PROVE Keeps
  BY <1>2, StepKeeps
<1>3. ASSUME NEW p \in Process, Kill(p) PROVE Keeps
  BY <1>3, KillKeeps
<1>4. CASE RemoveLock \/ MoveAside BY <1>4, HumanKeeps
<1>5. CASE UNCHANGED vars
  <2>a. Sound' <=> Sound BY <1>5 DEF vars, Sound
  <2>1. Typed' /\ Excluded'
    BY <1>5 DEF vars, counters, Consistent, Typed, Excluded, InLock
  <2> HIDE DEF Sound
  <2>b. Complete'
    BY <1>5, <2>a DEF vars, Consistent, Complete, Usable, Filled, Filler, IsManaged
  <2>2. (\A p \in Process : Routes(cli[p]))' BY <1>5 DEF vars, Consistent, Routes
  <2>3. Attempts'
    BY <1>5, <2>a DEF vars, Consistent, Attempts, InLock, AttemptTrue, StageTrue,
                      Untouched, Created, Ordered, IsManaged
  <2>4. (NoSettings => NoSettings') /\ (HasSettings => HasSettings')
    BY <1>5 DEF vars, NoSettings, HasSettings, InLock, IsManual, Kept
  <2> QED BY <2>1, <2>b, <2>2, <2>3, <2>4 DEF Consistent, Keeps
<1> QED BY <1>1, <1>2, <1>3, <1>4, <1>5 DEF Next

LEMMA AlwaysConsistent == Spec => []Consistent
<1>1. Consistent /\ [Next]_vars => Consistent' BY NextKeeps DEF Keeps
<1> QED BY <1>1, ConsistentInit, PTL DEF Spec

-----------------------------------------------------------------------------

\* Every file holds what such a file can hold, and every command is at a place
\* of the code (run_setup, install_planner_skill, set_mode).
THEOREM TypeCorrect == Spec => []TypeOK
<1>1. Consistent => TypeOK BY TypedOK DEF Consistent
<1> QED BY <1>1, AlwaysConsistent, PTL

\* The settings of a manual configuration are in place or in the backup at
\* every moment of an init, of its rollback and after a kill, unless a rollback
\* has failed to put the configuration back (_fresh, Journal.rollback).
THEOREM SettingsRecoverableHolds == Spec => SettingsRecoverable
<1> DEFINE Known == IsManual(file["config"]) \/ IsManual(file["backup"])
           Recovered ==
             \/ IsManual(file'["config"]) \/ IsManual(file'["backup"])
             \/ \E p \in Process : "config" \in cli[p].failed
<1>1. Consistent /\ [Next]_vars => (Known => Recovered)
  <2> SUFFICES ASSUME Consistent, [Next]_vars, Known PROVE Recovered OBVIOUS
  <2>1. HasSettings BY DEF Consistent, NoSettings
  <2>2. HasSettings' \/ Lost BY <2>1, NextKeeps DEF Keeps
  <2> QED BY <2>2 DEF HasSettings, Kept, IsManual, Lost
<1>2. Spec => [][Known => Recovered]_vars
  BY <1>1, AlwaysConsistent, PTL DEF Spec
<1> QED BY <1>2 DEF SettingsRecoverable

-----------------------------------------------------------------------------
(* Rollback.                                                               *)

\* A command changes nothing of another one.
LEMMA OthersStay ==
  ASSUME Typed, NEW p \in Process, NEW q \in Process, p # q,
         Begin(q) \/ Step(q) \/ Kill(q)
  PROVE  cli'[p] = cli[p]
<1>1. cli \in [Process -> Command] BY DEF Typed
<1>2. CASE Begin(q)
  BY <1>1, <1>2 DEF Begin, InitCommand, SkillCommand, ModeCommand, Begins
<1>3. CASE TakeLock(q) \/ Unlock(q) \/ Release(q) \/ Kill(q)
  BY <1>1, <1>3 DEF TakeLock, Unlock, Release, Kill, Ends, Goto
<1>4. CASE Check(q) \/ Backup(q) \/ write_token(q) \/ WriteSecret(q)
  BY <1>1, <1>4 DEF Check, Backup, write_token, WriteSecret, Goto, Writes
<1>5. CASE WriteServer(q) \/ ReadExcludes(q) \/ WriteExcludes(q) \/ WriteHandoff(q)
  BY <1>1, <1>5 DEF WriteServer, ReadExcludes, WriteExcludes, WriteHandoff,
                    Goto, Writes, Ends
<1>6. SkillDone(q) \/ SkillFails(q) => cli'[p] = cli[p]
  BY <1>1 DEF SkillDone, SkillFails, Goto, Ends
<1>7. CASE InspectSkill(q) \/ JournalSkill(q) \/ BeginCopy(q) \/ EndCopy(q)
  BY <1>1, <1>6, <1>7 DEF InspectSkill, JournalSkill, BeginCopy, EndCopy, Goto
<1>8. CASE WriteMarker(q) \/ Retire(q) \/ Swap(q) \/ Raze(q) \/ Raid(q)
  BY <1>1, <1>6, <1>8 DEF WriteMarker, Retire, Swap, Raze, Raid, Goto
<1>9. CASE Update(q) \/ WriteConfig(q) \/ WriteHistory(q) \/ Report(q)
  BY <1>1, <1>9 DEF Update, WriteConfig, WriteHistory, Report, Goto, Writes
<1>10. CASE SetMode(q) \/ AppendHistory(q) \/ Raises(q) \/ Interrupt(q)
  BY <1>1, <1>6, <1>10 DEF SetMode, AppendHistory, Raises, Interrupt, Goto, Ends
<1>11. CASE Restore(q) \/ Rewrite(q) \/ RestoreFails(q) \/ WriteFails(q)
  BY <1>1, <1>11 DEF Restore, Rewrite, RestoreFails, Restored, WriteFails
<1>12. CASE Remove(q) \/ RemoveFails(q) \/ EndRollback(q)
  BY <1>1, <1>12 DEF Remove, RemoveFails, EndRollback, Goto
<1> QED BY <1>2, <1>3, <1>4, <1>5, <1>7, <1>8, <1>9, <1>10, <1>11,
           <1>12 DEF Step

\* Only with an empty journal does a rollback end.
LEMMA RollbackEnds ==
  ASSUME Consistent, [Next]_vars, NEW p \in Process, At(p, "rollback"),
         cli'[p].pc = "unlock"
  PROVE  cli[p].journal = NoJournal
<1>1. cli[p].pc = "rollback" BY DEF At
<1>2. cli'[p] # cli[p] BY <1>1
<1>3. ~RemoveLock /\ ~MoveAside /\ ~UNCHANGED vars
  BY <1>2 DEF RemoveLock, MoveAside, vars
<1>4. Begin(p) \/ Step(p) \/ Kill(p)
  BY <1>2, <1>3, OthersStay, Here DEF Next
<1>5. ~Begin(p)
  BY <1>1 DEF Begin, InitCommand, SkillCommand, ModeCommand, Begins, At
<1>6. ~Kill(p) BY EndsFacts, Here DEF Kill
<1>7. /\ ~TakeLock(p) /\ ~Unlock(p) /\ ~Release(p) /\ ~Check(p) /\ ~Backup(p)
      /\ ~write_token(p) /\ ~WriteSecret(p) /\ ~WriteServer(p)
      /\ ~ReadExcludes(p) /\ ~WriteExcludes(p) /\ ~WriteHandoff(p)
  BY <1>1 DEF At, TakeLock, Unlock, Release, Check, Backup, write_token,
     WriteSecret, WriteServer, ReadExcludes, WriteExcludes, WriteHandoff
<1>8. /\ ~InspectSkill(p) /\ ~JournalSkill(p) /\ ~BeginCopy(p) /\ ~EndCopy(p)
      /\ ~WriteMarker(p) /\ ~Retire(p) /\ ~Swap(p) /\ ~Update(p)
      /\ ~WriteConfig(p) /\ ~WriteHistory(p) /\ ~SetMode(p) /\ ~AppendHistory(p)
      /\ ~Raze(p) /\ ~Report(p) /\ ~Rewrite(p)
  BY <1>1 DEF At, InspectSkill, JournalSkill, BeginCopy, EndCopy, WriteMarker,
     Retire, Swap, Update, WriteConfig, WriteHistory, SetMode, AppendHistory,
     Raze, Report, Rewrite
<1>9. ~Raises(p) /\ ~Interrupt(p) /\ ~WriteFails(p) /\ ~Raid(p)
  BY <1>1, <1>2 DEF At, In, Raises, Interrupt, Attempting, Installing, WriteFails,
     Writing, Raid
<1>10. ~Restore(p) /\ ~RestoreFails(p)
  <2>1. ~Restore(p) BY Here DEF Restore, Typed, Command
  <2>2. ASSUME RestoreFails(p) PROVE FALSE
    <3>1. PICK f \in File : Restored(p, f, {f}) BY <2>2 DEF RestoreFails
    <3>2. cli'[p].pc = "rollback" BY <3>1, Here DEF Restored, Typed, Command
    <3> QED BY <3>2
  <2> QED BY <2>1, <2>2
<1>11. ~Remove(p) /\ ~RemoveFails(p)
  <2> SUFFICES ASSUME Remove(p) \/ RemoveFails(p) PROVE FALSE OBVIOUS
  <2>1. CASE Remove(p)
    <3>1. PICK s : cli' = [cli EXCEPT ![p].journal.created = s]
      BY <2>1, Zenon DEF Remove
    <3>2. cli'[p].pc = cli[p].pc BY <3>1, Here DEF Typed, Command
    <3> QED BY <3>2, <1>1
  <2>2. CASE RemoveFails(p)
    <3>1. PICK s, g : cli' = [cli EXCEPT ![p].journal.created = s, ![p].failed = g]
      BY <2>2, Zenon DEF RemoveFails
    <3>2. cli'[p].pc = cli[p].pc BY <3>1, Here DEF Typed, Command
    <3> QED BY <3>2, <1>1
  <2> QED BY <2>1, <2>2
<1>12. EndRollback(p)
  BY <1>4, <1>5, <1>6, <1>7, <1>8, <1>9, <1>10, <1>11 DEF Step
<1> QED BY <1>12 DEF EndRollback

\* An init that fails leaves the files that are written under service.lock as
\* it found them, however far it came and wherever its rollback began, but for
\* those whose undo has failed in turn (run_setup, Journal.rollback).
THEOREM RolledBackHolds == Spec => RolledBack
<1> DEFINE RestoredAll ==
      \A p \in Process :
        At(p, "rollback") /\ cli'[p].pc = "unlock" =>
          \A f \in {"config", "server", "token", "backup", "handoff"} \ cli[p].failed :
            file[f] = cli[p].before[f]
<1>1. Consistent /\ [Next]_vars => RestoredAll
  <2> SUFFICES ASSUME Consistent, [Next]_vars, NEW p \in Process,
                      At(p, "rollback"), cli'[p].pc = "unlock",
                      NEW f \in {"config", "server", "token", "backup", "handoff"}
                              \ cli[p].failed
               PROVE  file[f] = cli[p].before[f]
    BY Zenon
  <2>1. cli[p].journal = NoJournal BY RollbackEnds
  <2>2. cli[p].name = "init" /\ InLock(cli[p])
    BY Here DEF At, Routes, Attempting, Installing, InLock
  <2>3. AttemptTrue(cli[p]) BY <2>2, Here
  <2>4. f \in Important /\ f \in File BY FileNames DEF Important
  <2>5. Untouched(cli[p].journal, f)
    BY <2>1, <2>4, EmptyJournal DEF Untouched
  <2> QED BY <2>3, <2>4, <2>5 DEF AttemptTrue
<1>2. Spec => [][RestoredAll]_vars
  BY <1>1, AlwaysConsistent, PTL DEF Spec
<1> QED BY <1>2 DEF RolledBack

-----------------------------------------------------------------------------
(* The promise to who uses the repository.                                 *)

\* The credential of a managed repository stays.
LEMMA TokenStays ==
  ASSUME Consistent, [Next]_vars, Sound, IsManaged(file["config"])
  PROVE  file'["token"] = file["token"]
<1>1. /\ file \in [File -> Anything] /\ "token" \in File
      /\ file["token"] # Absent
  BY Here, FileNames DEF Consistent, Typed, Present, Files, Complete, Usable
<1>2. CASE RemoveLock \/ MoveAside \/ UNCHANGED vars
  BY <1>1, <1>2 DEF RemoveLock, MoveAside, vars
<1>3. ASSUME NEW p \in Process, Begin(p) \/ Kill(p)
      PROVE  file'["token"] = file["token"]
  BY <1>3 DEF Begin, InitCommand, SkillCommand, ModeCommand, Begins, Kill
<1>4. ASSUME NEW p \in Process, Step(p)
      PROVE  file'["token"] = file["token"]
  <2>1. CASE TakeLock(p) \/ Unlock(p) \/ Release(p) \/ Check(p)
    BY <2>1 DEF TakeLock, Unlock, Release, Check
  <2>2. CASE Backup(p) \/ write_token(p) \/ WriteServer(p)
    BY <1>1, <2>2 DEF Backup, write_token, WriteServer, Writes
  <2>3. CASE ReadExcludes(p) \/ WriteExcludes(p) \/ WriteHandoff(p)
    BY <1>1, <2>3 DEF ReadExcludes, WriteExcludes, WriteHandoff, Writes
  <2>4. SkillFails(p) => file'["token"] = file["token"]
    BY <1>1 DEF SkillFails
  <2>5. CASE InspectSkill(p) \/ JournalSkill(p) \/ BeginCopy(p) \/ EndCopy(p)
    BY <1>1, <2>4, <2>5 DEF InspectSkill, JournalSkill, BeginCopy, EndCopy
  <2>6. CASE WriteMarker(p) \/ Retire(p) \/ Swap(p) \/ Raze(p) \/ Raid(p)
    BY <1>1, <2>4, <2>6 DEF WriteMarker, Retire, Swap, Raze, Raid
  <2>7. CASE Update(p) \/ WriteConfig(p) \/ WriteHistory(p) \/ Report(p)
    BY <1>1, <2>7 DEF Update, WriteConfig, WriteHistory, Report, Writes
  <2>8. CASE SetMode(p) \/ AppendHistory(p) \/ Raises(p) \/ Interrupt(p)
    BY <1>1, <2>4, <2>8 DEF SetMode, AppendHistory, Raises, Interrupt
  <2>9. CASE EndRollback(p) \/ WriteFails(p) \/ RestoreFails(p) \/ RemoveFails(p)
    BY <2>9 DEF EndRollback, WriteFails, RestoreFails, RemoveFails
  <2>10. CASE WriteSecret(p)
    <3>1. cli[p].pc = "secret" /\ cli[p].name = "init" /\ InLock(cli[p])
      BY <2>10, Here DEF WriteSecret, At, Routes, Installing, InLock
    <3>2. AttemptTrue(cli[p]) /\ StageTrue(cli[p]) BY <3>1, Here
    <3>3. Untouched(cli[p].journal, "config") /\ cli[p].before["server"] = Absent
      BY <3>1, <3>2 DEF StageTrue, Early
    <3>4. file["config"] = cli[p].before["config"]
      BY <3>2, <3>3 DEF AttemptTrue, Important
    <3> QED BY <3>2, <3>3, <3>4 DEF AttemptTrue
  <2>11. CASE Restore(p) \/ Rewrite(p)
    <3>1. cli[p].name = "init" /\ InLock(cli[p])
      BY <2>11, Here DEF Restore, Rewrite, At, Routes, Attempting, Installing, InLock
    <3>2. cli[p].journal.modified["token"] = Absent
      BY <3>1, Here DEF AttemptTrue, Important
    <3>3. ASSUME Rewrite(p) PROVE cli[p].open # "token"
      BY <3>2, <3>3, Here DEF Rewrite, At, Routes
    <3> QED BY <1>1, <2>11, <3>2, <3>3 DEF Restore, Rewrite
  <2>12. CASE Remove(p)
    <3>1. PICK f \in File : Removes(p, f) /\ file' = [file EXCEPT ![f] = Absent]
      BY <2>12 DEF Remove
    <3>2. cli[p].name = "init" /\ InLock(cli[p])
      BY <3>1, Here DEF Removes, At, Routes, Attempting, Installing, InLock
    <3>3. PICK c : c = cli[p] OBVIOUS
    <3>4. AttemptTrue(c) BY <3>2, <3>3, Here
    <3>5. PICK k : k = [c.journal EXCEPT !.created = SubSeq(@, 1, Len(@) - 1)]
      OBVIOUS
    <3>6. /\ f \in Created(c.journal) /\ c.journal.modified["config"] = Absent
          /\ f \in {"server", "token"} => "config" \notin Created(c.journal)
      BY <3>1, <3>3, <3>4, <3>5, RemovedFacts, FileNames, Here
         DEF AttemptTrue
    <3>7. f # "token"
      <4> SUFFICES ASSUME f = "token" PROVE FALSE OBVIOUS
      <4>1. Untouched(c.journal, "config") BY <3>6 DEF Untouched
      <4>2. "config" \notin c.failed BY <3>4 DEF AttemptTrue
      <4>3. file["config"] = c.before["config"]
        BY <3>4, <4>1, <4>2 DEF AttemptTrue, Important
      <4>4. c.before["token"] # Absent BY <3>4, <4>3, StillThere
      <4>5. c.before["token"] = Absent BY <3>4, <3>6 DEF AttemptTrue, Important
      <4> QED BY <4>4, <4>5
    <3> QED BY <1>1, <3>1, <3>7
  <2> QED BY <1>4, <2>1, <2>2, <2>3, <2>5, <2>6, <2>7, <2>8, <2>9, <2>10,
             <2>11, <2>12 DEF Step
<1> QED BY <1>2, <1>3, <1>4 DEF Next

\* What the client configuration leads to.
Seen == IF IsManaged(file["config"])
        THEN [server |-> file["server"], token |-> file["token"],
              config |-> file["config"]]
        ELSE NotManaged

SeenTrue ==
  /\ IsManaged(file["config"]) =>
       /\ file["server"] = "selection"
       /\ file["token"] \in Credential
       /\ file["config"] \in Managed
       /\ Seen \in Promise!Managed /\ Seen # NotManaged
  /\ ~IsManaged(file["config"]) => Seen = NotManaged

LEMMA SeenManaged == Consistent /\ Sound => SeenTrue
<1> SUFFICES ASSUME Consistent, Sound, IsManaged(file["config"])
             PROVE  /\ file["server"] = "selection"
                    /\ file["token"] \in Credential
                    /\ file["config"] \in Managed
                    /\ Seen \in Promise!Managed /\ Seen # NotManaged
  BY DEF Seen, SeenTrue
<1>1. \A f \in File : file[f] \in Content(f) \cup {Absent}
  BY FileAt DEF Consistent, Typed, Present
<1>2. file["server"] # Absent /\ file["token"] \notin {Absent, {}}
  BY DEF Consistent, Complete, Usable
<1>3. file["server"] \in Content("server") /\ file["token"] \in Credential
  BY <1>1, <1>2, FileNames, Contents
<1>4. file["config"] \in Managed BY <1>1, FileNames, Kinds
<1>5. Seen = [server |-> file["server"], token |-> file["token"],
              config |-> file["config"]]
  BY DEF Seen
<1>6. Seen \in [server : Content("server"), token : Credential,
                config : Managed]
  BY <1>3, <1>4, <1>5
<1>7. Seen \in Promise!Managed BY <1>6 DEF Promise!Managed
<1>8. Seen # NotManaged BY <1>6, AbsentAssumption
<1> QED BY <1>3, <1>4, <1>7, <1>8, Contents

LEMMA SpoiltStays ==
  ASSUME Consistent, [Next]_vars, spoilt' = FALSE
  PROVE  spoilt = FALSE
<1>. USE DEF counters
<1>1. CASE RemoveLock \/ MoveAside \/ UNCHANGED vars
  BY <1>1 DEF RemoveLock, MoveAside, vars
<1>2. ASSUME NEW p \in Process, Begin(p) PROVE spoilt = FALSE
  BY <1>2 DEF Begin, InitCommand, SkillCommand, ModeCommand, Begins
<1>3. ASSUME NEW p \in Process, Kill(p) \/ RestoreFails(p) \/ RemoveFails(p)
      PROVE  spoilt = FALSE
  BY <1>3, Here DEF Kill, RestoreFails, RemoveFails
<1>4. ASSUME NEW p \in Process, Step(p), ~RestoreFails(p), ~RemoveFails(p)
      PROVE  spoilt' = spoilt
  <2>1. CASE TakeLock(p) \/ Unlock(p) \/ Release(p) \/ Check(p) \/ Backup(p)
             \/ write_token(p) \/ WriteSecret(p) \/ WriteServer(p)
             \/ ReadExcludes(p) \/ WriteExcludes(p) \/ WriteHandoff(p)
    BY <2>1 DEF TakeLock, Unlock, Release, Check, Backup, write_token, WriteSecret,
                WriteServer, ReadExcludes, WriteExcludes, WriteHandoff
  <2>2. CASE InspectSkill(p) \/ JournalSkill(p) \/ BeginCopy(p) \/ EndCopy(p)
             \/ WriteMarker(p) \/ Retire(p) \/ Swap(p) \/ Raze(p) \/ Raid(p)
    BY <2>2 DEF InspectSkill, JournalSkill, BeginCopy, EndCopy, WriteMarker, Retire,
                Swap, Raze, Raid
  <2>3. CASE Update(p) \/ WriteConfig(p) \/ WriteHistory(p) \/ Report(p)
             \/ SetMode(p) \/ AppendHistory(p) \/ Raises(p) \/ WriteFails(p)
             \/ Interrupt(p) \/ Restore(p) \/ Rewrite(p) \/ Remove(p)
             \/ EndRollback(p)
    BY <2>3 DEF Update, WriteConfig, WriteHistory, Report, SetMode, AppendHistory,
                Raises, WriteFails, Interrupt, Restore, Rewrite, Remove, EndRollback
  <2> QED BY <1>4, <2>1, <2>2, <2>3 DEF Step
<1> QED BY <1>1, <1>2, <1>3, <1>4 DEF Next

\* Who holds service.lock and has written the configuration, or tried to.
OpenBy(p) ==
  /\ Holds(p)
  /\ \/ "config" \in Created(cli[p].journal)
     \/ cli[p].journal.modified["config"] # Absent

\* A repository becomes managed, or no longer managed, only by an attempt that
\* may take the configuration back.
LEMMA ConfigMoves ==
  ASSUME Consistent, [Next]_vars,
         ~(IsManaged(file["config"]) <=> IsManaged(file'["config"]))
  PROVE  \/ \E p \in Process : OpenBy(p)
         \/ IsManaged(file'["config"]) /\ \E p \in Process : OpenBy(p)'
<1>1. /\ file \in [File -> Anything] /\ "config" \in File
      /\ file'["config"] # file["config"]
  BY Here, FileNames DEF Consistent, Typed, Present, Files
<1>2. ~RemoveLock /\ ~MoveAside /\ ~UNCHANGED vars
  BY <1>1 DEF RemoveLock, MoveAside, vars
<1>3. ASSUME NEW p \in Process PROVE ~Begin(p) /\ ~Kill(p)
  BY <1>1 DEF Begin, InitCommand, SkillCommand, ModeCommand, Begins, Kill
<1>4. PICK p \in Process : Step(p) BY <1>2, <1>3 DEF Next
<1>5. /\ ~TakeLock(p) /\ ~Unlock(p) /\ ~Release(p) /\ ~Check(p)
      /\ ~ReadExcludes(p) /\ ~Update(p) /\ ~Report(p) /\ ~Raises(p)
      /\ ~WriteFails(p) /\ ~Interrupt(p) /\ ~RestoreFails(p)
      /\ ~RemoveFails(p) /\ ~EndRollback(p)
  <2>1. ~SkillFails(p) BY <1>1 DEF SkillFails
  <2> QED BY <1>1, <2>1
          DEF TakeLock, Unlock, Release, Check, ReadExcludes, Update, Report,
              Raises, WriteFails, Interrupt, RestoreFails, RemoveFails, EndRollback
<1>6. /\ ~Backup(p) /\ ~write_token(p) /\ ~WriteSecret(p) /\ ~WriteServer(p)
      /\ ~WriteExcludes(p) /\ ~WriteHandoff(p) /\ ~WriteHistory(p)
      /\ ~AppendHistory(p)
  BY <1>1 DEF Backup, write_token, WriteSecret, WriteServer, WriteExcludes,
              WriteHandoff, WriteHistory, AppendHistory, Writes
<1>7. /\ ~InspectSkill(p) /\ ~JournalSkill(p) /\ ~BeginCopy(p) /\ ~EndCopy(p)
      /\ ~WriteMarker(p) /\ ~Retire(p) /\ ~Swap(p) /\ ~Raze(p) /\ ~Raid(p)
  <2>1. ~SkillFails(p) BY <1>1 DEF SkillFails
  <2> QED BY <1>1, <2>1
          DEF InspectSkill, JournalSkill, BeginCopy, EndCopy, WriteMarker,
              Retire, Swap, Raze, Raid
<1>8. ~SetMode(p)
  <2> SUFFICES ASSUME SetMode(p) PROVE FALSE OBVIOUS
  <2>1. /\ IsManaged(file["config"])
        /\ file'["config"] = [file["config"] EXCEPT !.mode = cli[p].mode]
    BY <1>1 DEF SetMode
  <2>2. file["config"] \in Managed BY <1>1, <2>1, Here, Kinds
  <2>3. file'["config"].config = "managed" BY <2>1, <2>2 DEF Managed
  <2>4. file'["config"] # Absent
    <3>1. cli[p].mode \in Mode \cup {"unset"} BY Here DEF Command
    <3>2. file'["config"] \in Managed BY <2>1, <2>2, <3>1 DEF Managed
    <3> QED BY <3>2, Contents, AbsentAssumption, FileNames
  <2> QED BY <1>1, <2>1, <2>3, <2>4 DEF IsManaged
<1>9. ASSUME cli[p].name = "init", InLock(cli[p]) PROVE Holds(p)
  BY <1>9, Here DEF Holds, InLock
<1>10. CASE WriteConfig(p)
  <2>1. cli[p].pc = "config" /\ cli[p].name = "init" /\ InLock(cli[p])
    BY <1>10, Here DEF WriteConfig, At, Routes, Installing, InLock
  <2>2. PICK content, place :
          /\ Writes(p, "config", content, place)
          /\ place \in {"report", "history"}
    BY <1>10 DEF WriteConfig
  <2>3. PICK j \in Journals : j = cli[p].journal BY Here
  <2>4. PICK k : k = BeforeWrite(j, "config") OBVIOUS
  <2>5. cli' = [cli EXCEPT ![p].journal = k, ![p].pc = place]
    BY <2>2, <2>3, <2>4, Zenon DEF Writes
  <2>6. cli'[p].journal = k /\ cli'[p].pc = place /\ cli'[p].name = "init"
    BY <2>1, <2>5, Here DEF Typed, Command
  <2>7. ~Untouched(k, "config") BY <1>1, <2>3, <2>4, Journaled, Here
  <2>8. serviceLock' = p BY <1>10, <2>1, Here DEF WriteConfig
  <2>9. OpenBy(p)'
    BY <2>2, <2>6, <2>7, <2>8 DEF OpenBy, Holds, Untouched
  <2>10. CASE cli[p].existing = "managed"
    <3>1. StageTrue(cli[p]) /\ AttemptTrue(cli[p]) BY <2>1, Here
    <3>2. /\ IsManaged(cli[p].before["config"]) /\ cli[p].failed = {}
          /\ Untouched(cli[p].journal, "config")
      BY <2>1, <2>10, <3>1 DEF StageTrue, Late, Ending
    <3>3. IsManaged(file["config"]) BY <3>1, <3>2 DEF AttemptTrue, Important
    <3>4. file'["config"] = Updated(p)
      BY <1>1, <1>10, <2>10 DEF WriteConfig, Writes
    <3>5. Updated(p) \in Managed BY <3>3, UpdatedManaged
    <3>6. IsManaged(Updated(p))
      <4>1. Updated(p) \in Content("config") BY <3>5, Contents
      <4> QED BY <3>5, <4>1, Kinds
    <3>7. IsManaged(file'["config"]) BY <3>4, <3>6 DEF IsManaged
    <3> QED BY <2>9, <3>7
  <2>11. CASE cli[p].existing # "managed"
    <3>1. file'["config"] = [config |-> "managed", mode |-> cli[p].mode,
                             planner |-> cli[p].planner]
      BY <1>1, <1>10, <2>11 DEF WriteConfig, Writes
    <3>2. file'["config"] \in Managed BY <3>1, Here DEF Managed, Command
    <3>3. IsManaged(file'["config"])
      <4>1. file'["config"] \in Content("config") BY <3>2, Contents
      <4> QED BY <3>2, <4>1, Kinds
    <3> QED BY <2>9, <3>3
  <2> QED BY <2>10, <2>11
<1>11. CASE Restore(p) \/ Rewrite(p)
  <2>1. cli[p].name = "init" /\ InLock(cli[p])
    BY <1>11, Here DEF Restore, Rewrite, At, Routes, Attempting, Installing, InLock
  <2>2. cli[p].journal.modified["config"] # Absent
    BY <1>1, <1>11, Here DEF Restore, Rewrite, At, Routes
  <2> QED BY <1>9, <2>1, <2>2 DEF OpenBy
<1>12. CASE Remove(p)
  <2>1. PICK f \in File : Removes(p, f) /\ file' = [file EXCEPT ![f] = Absent]
    BY <1>12 DEF Remove
  <2>2. f = "config" BY <1>1, <2>1
  <2>3. cli[p].name = "init" /\ InLock(cli[p])
    BY <2>1, Here DEF Removes, At, Routes, Attempting, Installing, InLock
  <2>4. PICK k : k = [cli[p].journal EXCEPT !.created = SubSeq(@, 1, Len(@) - 1)]
    OBVIOUS
  <2>5. "config" \in Created(cli[p].journal)
    BY <2>1, <2>2, <2>4, RemovedFacts, Here
  <2> QED BY <1>9, <2>3, <2>5 DEF OpenBy
<1> QED BY <1>4, <1>5, <1>6, <1>7, <1>8, <1>10, <1>11, <1>12 DEF Step

LEMMA PromiseStep ==
  ASSUME Consistent, [Next]_vars, Consistent'
  PROVE  Promise!Next \/ UNCHANGED <<Seen, Open, spoilt>>
<1>a. PICK s : s = Seen OBVIOUS
<1>b. PICK t : t = Seen' OBVIOUS
<1>c. PICK o : o = Open OBVIOUS
<1>d. PICK u : u = Open' OBVIOUS
<1>e. /\ Promise!SetUp <=> /\ s = NotManaged /\ t \in Promise!Managed
                           /\ o \/ u
      /\ Promise!Reconfigure <=>
           s # NotManaged /\ \E c \in Managed : t = [s EXCEPT !.config = c]
      /\ Promise!Withdraw <=> s # NotManaged /\ o /\ t = NotManaged
      /\ Promise!Attempt <=> u # o /\ t = s
  BY <1>a, <1>b, <1>c, <1>d
     DEF Promise!SetUp, Promise!Reconfigure, Promise!Withdraw, Promise!Attempt,
         Promise!Managed, Seen
<1>f. Promise!Next <=>
        \/ ~spoilt' /\ (Promise!SetUp \/ Promise!Reconfigure \/ Promise!Withdraw
                        \/ Promise!Attempt)
        \/ spoilt'
  BY DEF Promise!Next
<1>1. CASE spoilt' BY <1>1, <1>f
<1>2. CASE ~spoilt'
  <2>1. Sound /\ Sound' /\ spoilt' = spoilt
    <3>1. spoilt' = FALSE BY <1>2 DEF Consistent, Typed
    <3>2. spoilt = FALSE BY <3>1, SpoiltStays
    <3> QED BY <3>1, <3>2 DEF Sound
  <2>2. SeenTrue BY <2>1, SeenManaged
  <2>3. SeenTrue' BY <2>1, SeenManaged, PTL
  <2>4. (o <=> \E p \in Process : OpenBy(p)) /\ (u <=> \E p \in Process : OpenBy(p)')
    BY <1>c, <1>d DEF Open, OpenBy
  <2>5. CASE ~IsManaged(file["config"]) /\ ~IsManaged(file'["config"])
    <3>1. s = NotManaged /\ t = NotManaged
      BY <1>a, <1>b, <2>2, <2>3, <2>5 DEF SeenTrue, IsManaged
    <3> QED BY <1>2, <1>a, <1>b, <1>c, <1>d, <1>e, <1>f, <2>1, <3>1
  <2>6. CASE ~IsManaged(file["config"]) /\ IsManaged(file'["config"])
    <3>1. s = NotManaged /\ t \in Promise!Managed
      BY <1>a, <1>b, <2>2, <2>3, <2>6 DEF SeenTrue, IsManaged
    <3>2. o \/ u BY <2>4, <2>6, ConfigMoves
    <3> QED BY <1>2, <1>e, <1>f, <3>1, <3>2
  <2>7. CASE IsManaged(file["config"]) /\ ~IsManaged(file'["config"])
    <3>1. s # NotManaged /\ t = NotManaged
      BY <1>a, <1>b, <2>2, <2>3, <2>7 DEF SeenTrue, IsManaged
    <3>2. o BY <2>4, <2>7, ConfigMoves
    <3> QED BY <1>2, <1>e, <1>f, <3>1, <3>2
  <2>8. CASE IsManaged(file["config"]) /\ IsManaged(file'["config"])
    <3>1. /\ file["server"] = "selection" /\ file'["server"] = "selection"
          /\ file'["token"] = file["token"] /\ s # NotManaged
          /\ file'["config"] \in Managed
      BY <1>a, <1>b, <2>1, <2>2, <2>3, <2>8, TokenStays DEF SeenTrue, IsManaged
    <3>2. /\ s = [server |-> file["server"], token |-> file["token"],
                  config |-> file["config"]]
          /\ t = [server |-> file'["server"], token |-> file'["token"],
                  config |-> file'["config"]]
      BY <1>a, <1>b, <2>8 DEF Seen, IsManaged
    <3>3. t = [s EXCEPT !.config = file'["config"]] BY <3>1, <3>2
    <3> QED BY <1>2, <1>e, <1>f, <3>1, <3>3
  <2> QED BY <2>5, <2>6, <2>7, <2>8
<1> QED BY <1>1, <1>2

\* An init gives a repository its managed configuration in one step that
\* everybody sees, with all that a service needs, and takes it back only as a
\* whole and while its attempt is open, until a setup is spoilt: Installation
\* implements ManagedRepository.
THEOREM SetupIsAtomicHolds == Spec => SetupIsAtomic
<1>1. Init => Promise!Init
  <2> SUFFICES ASSUME Init PROVE Promise!Init OBVIOUS
  <2>1. Sound /\ spoilt = FALSE BY DEF Init, Sound
  <2>2. SeenTrue BY <2>1, ConsistentInit, SeenManaged
  <2>3. Seen \in Promise!Managed \cup {NotManaged} BY <2>2 DEF SeenTrue
  <2>4. Open = FALSE
    <3>1. \A p \in Process : serviceLock # p
      BY InstallationAssumption DEF Init
    <3> QED BY <3>1 DEF Open, Holds
  <2> QED BY <2>1, <2>3, <2>4 DEF Promise!Init, Seen
<1>2. Consistent /\ [Next]_vars /\ Consistent' =>
        [Promise!Next]_<<Seen, Open, spoilt>>
  BY PromiseStep
<1>3. Spec => Promise!Init /\ [][Promise!Next]_<<Seen, Open, spoilt>>
  BY <1>1, <1>2, AlwaysConsistent, PTL DEF Spec
<1> QED BY <1>3 DEF SetupIsAtomic, Promise!Spec, Seen

-----------------------------------------------------------------------------
(* The marker of the skill folder.                                         *)

\* p may still find the place free, and begin a copy in it.
MayBegin(p) ==
  \/ At(p, "idle") /\ given < MaxCommands
  \/ In(p, {"skill", "journal", "copy"})
  \/ /\ Named(p, "init")
     /\ In(p, {"lock", "check", "backup", "token", "secret", "server",
               "excludes", "exclude", "handoff"})

\* Commands that run are different ones.
Numbered ==
  \A p \in Process : ~At(p, "idle") =>
    /\ cli[p].number \in 1..given
    /\ \A q \in Process \ {p} :
         ~At(q, "idle") => cli[q].number # cli[p].number

Whole(folder) == folder # Absent /\ folder.copy # "part"

\* Who is about to write the marker has a whole copy before it, or the folder
\* is gone and nobody else will begin another; no journal restores a folder.
Marking(p) ==
  /\ cli[p].journal.modified["skill"] = Absent
  /\ At(p, "marker") =>
       \/ Whole(file["skill"])
       \/ file["skill"] = Absent /\ \A q \in Process \ {p} : ~MayBegin(q)

Marks == Numbered /\ MarkedComplete /\ \A p \in Process : Marking(p)

\* One command at a time, or two at all.
Few == (\A p, q \in Process : p = q) \/ MaxCommands <= 2

\* What a step of p does to the folder, and to p.
Handles(p) ==
  \/ file'["skill"] = file["skill"]
  \/ file'["skill"] = Absent /\ cli'[p].pc # "idle" /\ ~MayBegin(p)'
  \/ Whole(file'["skill"])
  \/ /\ file["skill"] = Absent /\ cli[p].pc = "copy"
     /\ file'["skill"] # Absent /\ ~file'["skill"].marker
Same(p) ==
  /\ \A q \in Process \ {p} : cli'[q] = cli[q]
  /\ given' = given
  /\ cli[p].pc # "idle"
  /\ \/ cli'[p].pc = "idle"
     \/ cli'[p].number = cli[p].number /\ (MayBegin(p)' => MayBegin(p))
  /\ cli'[p].journal.modified["skill"] = Absent
  /\ cli'[p].pc = "marker" => Whole(file'["skill"])

LEMMA MarksKept ==
  ASSUME Consistent, Few, Marks, NEW p \in Process, Same(p), Handles(p)
  PROVE  Marks'
<1>1. Numbered'
  BY DEF Marks, Numbered, Same, At
<1>2. given \in Nat /\ MaxCommands \in Nat /\ given <= MaxCommands
  BY Here, InstallationAssumption
<1>3. ASSUME NEW q \in Process \ {p}, cli[q].pc # "idle",
             NEW r \in Process \ {p, q}
      PROVE  cli[r].pc = "idle" /\ given = MaxCommands
  <2>1. /\ cli[p].number \in 1..given /\ cli[q].number \in 1..given
        /\ cli[p].number # cli[q].number
    BY <1>3 DEF Marks, Numbered, Same, At
  <2>2. MaxCommands <= 2
    BY <1>3 DEF Few
  <2>3. given = 2 /\ MaxCommands = 2
    BY <1>2, <2>1, <2>2
  <2>4. cli[r].pc # "idle" => /\ cli[r].number \in 1..given
                              /\ cli[r].number # cli[p].number
                              /\ cli[r].number # cli[q].number
    BY <1>3 DEF Marks, Numbered, Same, At
  <2>. QED
    BY <2>1, <2>3, <2>4
<1>4. ASSUME NEW q \in Process \ {p}, cli[q].pc # "idle"
      PROVE  given = MaxCommands
  <2>1. /\ cli[p].number \in 1..given /\ cli[q].number \in 1..given
        /\ cli[p].number # cli[q].number
    BY <1>4 DEF Marks, Numbered, Same, At
  <2>2. MaxCommands <= 2
    BY <1>4 DEF Few
  <2>. QED
    BY <1>2, <2>1, <2>2
<1>5. ASSUME NEW q \in Process \ {p}
      PROVE  MayBegin(q)' <=> MayBegin(q)
  BY DEF Same, MayBegin, At, In, Named
<1>6. ASSUME NEW q \in Process PROVE Marking(q)'
  <2>1. cli'[q].journal.modified["skill"] = Absent
    BY DEF Same, Marks, Marking
  <2>. SUFFICES ASSUME cli'[q].pc = "marker", ~Whole(file'["skill"])
                PROVE  /\ file'["skill"] = Absent
                       /\ \A r \in Process \ {q} : ~MayBegin(r)'
    BY <2>1 DEF Marking, At
  <2>2. q # p /\ cli[q].pc = "marker" /\ cli'[q] = cli[q]
    BY DEF Same
  <2>3. \/ Whole(file["skill"])
        \/ /\ file["skill"] = Absent
           /\ \A r \in Process \ {q} : ~MayBegin(r)
    BY <2>2 DEF Marks, Marking, At
  <2>4. MayBegin(p)' => MayBegin(p)
    <3>1. CASE cli'[p].pc = "idle"
      BY <1>2, <1>4, <2>2, <3>1 DEF MayBegin, At, In, Named, Same
    <3>. QED
      BY <3>1 DEF Same
  <2>5. CASE file'["skill"] = file["skill"]
    BY <1>5, <2>3, <2>4, <2>5
  <2>6. CASE file'["skill"] = Absent /\ cli'[p].pc # "idle" /\ ~MayBegin(p)'
    <3>1. ASSUME NEW r \in Process \ {p, q} PROVE ~MayBegin(r)
      BY <1>2, <1>3, <2>2, <3>1 DEF MayBegin, At, In, Named
    <3>. QED
      BY <1>5, <2>6, <3>1
  <2>7. CASE file["skill"] = Absent /\ cli[p].pc = "copy"
    BY <2>2, <2>3, <2>7 DEF Whole, MayBegin, In
  <2>. QED
    BY <2>5, <2>6, <2>7 DEF Handles
<1>7. MarkedComplete'
  BY DEF Handles, Marks, MarkedComplete, Whole
<1>. QED
  BY <1>1, <1>6, <1>7 DEF Marks

\* Whatever p does, it stays the command it is, until it ends; the place it goes
\* to decides whether it may still begin a copy.
Stays(p) ==
  /\ cli'[p].number = cli[p].number /\ cli'[p].name = cli[p].name
  /\ cli'[p].journal.modified["skill"] = cli[p].journal.modified["skill"]

LEMMA SameWhen ==
  ASSUME Consistent, Marks, NEW p \in Process, Step(p), given' = given,
         cli[p].pc # "idle",
         \/ cli'[p].name = "none" /\ Ends(p)
         \/ Stays(p) /\ (MayBegin(p)' => MayBegin(p)),
         cli'[p].pc = "marker" => Whole(file'["skill"])
  PROVE  Same(p)
<1>1. \A q \in Process \ {p} : cli'[q] = cli[q]
  BY OthersStay, Here
<1>2. CASE Ends(p)
  <2>1. cli'[p] = Done
    BY <1>2, Here DEF Ends, Typed
  <2>2. cli'[p].pc = "idle" /\ cli'[p].journal.modified["skill"] = Absent
    BY <2>1, FileNames DEF Done, NoJournal
  <2>. QED
    BY <1>1, <2>2 DEF Same
<1>3. CASE Stays(p) /\ (MayBegin(p)' => MayBegin(p))
  BY <1>1, <1>3 DEF Same, Stays, Marks, Marking
<1>. QED
  BY <1>2, <1>3

LEMMA GotoStays ==
  ASSUME Consistent, NEW p \in Process, NEW place, Goto(p, place)
  PROVE  Stays(p) /\ cli'[p].pc = place
BY Here DEF Goto, Stays, Typed, Command

LEMMA EndsNone ==
  ASSUME Consistent, NEW p \in Process, Ends(p)
  PROVE  cli'[p].name = "none" /\ cli'[p].pc = "idle"
BY EndsFacts, Here

LEMMA WritesStays ==
  ASSUME Consistent, NEW p \in Process, NEW f \in File \ {"skill"},
         NEW content, NEW place, Writes(p, f, content, place)
  PROVE  /\ Stays(p) /\ cli'[p].pc = place
         /\ file'["skill"] = file["skill"]
<1>1. "skill" \in File
  BY FileNames
<1>2. PICK j : j = BeforeWrite(cli[p].journal, f)
  OBVIOUS
<1>3. j.modified["skill"] = cli[p].journal.modified["skill"]
  BY <1>1, <1>2, Journaled, Here
<1>4. cli' = [cli EXCEPT ![p].journal = j, ![p].pc = place]
  BY <1>2, Zenon DEF Writes
<1>5. Stays(p) /\ cli'[p].pc = place
  BY <1>3, <1>4, Here DEF Stays, Typed, Command
<1>6. file'["skill"] = file["skill"]
  BY <1>1, Here DEF Writes, Files
<1>. QED
  BY <1>5, <1>6

LEMMA SkillDoneStays ==
  ASSUME Consistent, NEW p \in Process, cli[p].pc \in Skilling, SkillDone(p)
  PROVE  /\ Stays(p) /\ ~MayBegin(p)' /\ cli'[p].pc \notin {"idle", "marker"}
<1>1. CASE Named(p, "init")
  <2>1. PICK place : place = AfterSkill(p)
    OBVIOUS
  <2>2. place \in {"update", "config"}
    BY <2>1 DEF AfterSkill
  <2>3. PICK s : s = IF cli[p].nested THEN Append(cli[p].journal.created, "skill")
                     ELSE cli[p].journal.created
    OBVIOUS
  <2>4. cli' = [cli EXCEPT ![p].pc = place, ![p].nested = FALSE,
                  ![p].journal.created = s]
    BY <1>1, <2>1, <2>3, Zenon DEF SkillDone
  <2>5. Stays(p) /\ cli'[p].pc = place
    BY <2>4, Here DEF Stays, Typed, Command, Journals
  <2>. QED
    BY <2>2, <2>5 DEF MayBegin, At, In
<1>2. CASE ~Named(p, "init")
  BY <1>2, GotoStays DEF SkillDone, Stays, MayBegin, At, In, Named
<1>. QED
  BY <1>1, <1>2

LEMMA SkillFailsSame ==
  ASSUME Consistent, Marks, NEW p \in Process, cli[p].pc \in Skilling, Step(p),
         SkillFails(p), given' = given
  PROVE  Same(p) /\ Handles(p)
<1>1. cli[p].pc # "idle"
  BY DEF Skilling, Installing
<1>2. CASE Named(p, "init")
  <2>1. PICK place : place = IF cli[p].nested THEN "raze" ELSE AfterSkill(p)
    OBVIOUS
  <2>2. place \in {"raze", "update", "config"}
    BY <2>1 DEF AfterSkill
  <2>3. Goto(p, place) /\ file' = file
    BY <1>2, <2>1, Zenon DEF SkillFails
  <2>4. Stays(p) /\ cli'[p].pc = place
    BY <2>3, GotoStays
  <2>5. ~MayBegin(p)'
    BY <2>2, <2>4 DEF MayBegin, At, In
  <2>. QED
    BY <1>1, <2>2, <2>3, <2>4, <2>5, SameWhen DEF Handles
<1>3. CASE ~Named(p, "init")
  BY <1>1, <1>3, EndsNone, SameWhen DEF SkillFails, Handles
<1>. QED
  BY <1>2, <1>3

\* Steps outside of the installer leave the folder, and never come to it late.
LEMMA EarlySame ==
  ASSUME Consistent, Marks, NEW p \in Process,
         \/ TakeLock(p) \/ Unlock(p) \/ Release(p)
         \/ Check(p) \/ Backup(p) \/ write_token(p) \/ WriteSecret(p)
         \/ WriteServer(p) \/ ReadExcludes(p) \/ WriteExcludes(p)
  PROVE  Same(p) /\ Handles(p)
<1>. /\ Step(p) /\ given' = given
  BY DEF Step, TakeLock, Unlock, Release, Check, Backup, write_token,
     WriteSecret, WriteServer, ReadExcludes, WriteExcludes, counters
<1>1. CASE TakeLock(p)
  <2>1. file' = file /\ At(p, "lock")
    BY <1>1 DEF TakeLock
  <2>2. CASE Ends(p)
    BY <2>1, <2>2, EndsNone, SameWhen DEF Handles, At
  <2>3. CASE cli' = [cli EXCEPT
               ![p].pc = IF Named(p, "init") THEN "check" ELSE "mode",
               ![p].before = file]
    <3>1. PICK place : place = IF Named(p, "init") THEN "check" ELSE "mode"
      OBVIOUS
    <3>2. cli' = [cli EXCEPT ![p].pc = place, ![p].before = file]
      BY <2>3, <3>1
    <3>3. Stays(p) /\ cli'[p].pc = place
      BY <3>2, Here DEF Stays, Typed, Command
    <3>4. MayBegin(p)' => MayBegin(p)
      BY <2>1, <3>1, <3>3 DEF MayBegin, At, In, Named, Stays
    <3>. QED
      BY <2>1, <3>1, <3>3, <3>4, SameWhen DEF Handles, At
  <2>. QED
    BY <1>1, <2>2, <2>3 DEF TakeLock
<1>2. CASE Unlock(p)
  BY <1>2, EndsNone, SameWhen DEF Unlock, Handles, At
<1>3. CASE Release(p)
  <2>1. Stays(p) /\ cli'[p].pc = "append" /\ file' = file /\ At(p, "release")
    BY <1>3, GotoStays DEF Release
  <2>. QED
    BY <2>1, SameWhen DEF Handles, At, In, MayBegin
<1>4. CASE Check(p)
  <2>1. At(p, "check") /\ file' = file
    BY <1>4 DEF Check
  <2>2. PICK place \in {"rollback", "excludes", "backup", "token"} :
          Goto(p, place)
    BY <1>4, Zenon DEF Check
  <2>3. Stays(p) /\ cli'[p].pc = place
    BY <2>2, GotoStays
  <2>4. MayBegin(p)' => MayBegin(p)
    BY <2>1, <2>2, <2>3 DEF MayBegin, At, In, Named, Stays
  <2>. QED
    BY <2>1, <2>2, <2>3, <2>4, SameWhen DEF Handles, At
<1>5. CASE Backup(p) \/ write_token(p) \/ WriteServer(p)
  <2>1. In(p, {"backup", "token", "server"})
    BY <1>5 DEF Backup, write_token, WriteServer, At, In
  <2>2. Named(p, "init")
    BY <2>1, Here DEF In, Named, Routes, Installing
  <2>3. PICK place \in {"rollback", "token", "server", "secret", "excludes"} :
          \/ Goto(p, place) /\ file' = file
          \/ \E f \in File \ {"skill"} : \E content : Writes(p, f, content, place)
    BY <1>5, FileNames, Zenon DEF Backup, write_token, WriteServer
  <2>4. Stays(p) /\ cli'[p].pc = place /\ file'["skill"] = file["skill"]
    BY <2>3, GotoStays, WritesStays
  <2>5. MayBegin(p)' => MayBegin(p)
    BY <2>1, <2>2, <2>4 DEF MayBegin, At, In, Named, Stays
  <2>. QED
    BY <2>1, <2>3, <2>4, <2>5, SameWhen DEF Handles, In
<1>6. CASE WriteSecret(p)
  <2>1. /\ At(p, "secret") /\ Goto(p, "server")
        /\ file' = [file EXCEPT !["token"] = {cli[p].number}]
    BY <1>6 DEF WriteSecret
  <2>2. Named(p, "init")
    BY <2>1, Here DEF At, Named, Routes, Installing
  <2>3. Stays(p) /\ cli'[p].pc = "server" /\ file'["skill"] = file["skill"]
    BY <2>1, GotoStays, FileNames, Here DEF Files
  <2>4. MayBegin(p)
    BY <2>1, <2>2 DEF MayBegin, At, In
  <2>. QED
    BY <2>1, <2>3, <2>4, SameWhen DEF Handles, At
<1>7. CASE ReadExcludes(p)
  <2>1. At(p, "excludes") /\ file' = file
    BY <1>7 DEF ReadExcludes
  <2>2. CASE Ends(p)
    BY <2>1, <2>2, EndsNone, SameWhen DEF Handles, At
  <2>3. CASE Named(p, "init") /\ Goto(p, "handoff")
    <3>1. Stays(p) /\ cli'[p].pc = "handoff" /\ MayBegin(p)
      BY <2>1, <2>3, GotoStays DEF MayBegin, At, In
    <3>. QED
      BY <2>1, <3>1, SameWhen DEF Handles, At
  <2>4. CASE cli' = [cli EXCEPT
               ![p].excludes = file["excludes"], ![p].pc = "exclude",
               ![p].journal = IF Named(p, "init")
                              THEN BeforeWrite(@, "excludes") ELSE @]
    <3>1. PICK j : j = IF Named(p, "init")
                       THEN BeforeWrite(cli[p].journal, "excludes")
                       ELSE cli[p].journal
      OBVIOUS
    <3>2. cli' = [cli EXCEPT ![p].excludes = file["excludes"],
                    ![p].pc = "exclude", ![p].journal = j]
      BY <2>4, <3>1, Zenon
    <3>3. j.modified["skill"] = cli[p].journal.modified["skill"]
      BY <3>1, FileNames, Journaled, Here
    <3>4. Stays(p) /\ cli'[p].pc = "exclude"
      BY <3>2, <3>3, Here DEF Stays, Typed, Command
    <3>5. MayBegin(p)' => MayBegin(p)
      BY <2>1, <3>4 DEF MayBegin, At, In, Named, Stays
    <3>. QED
      BY <2>1, <3>4, <3>5, SameWhen DEF Handles, At
  <2>. QED
    BY <1>7, <2>2, <2>3, <2>4, Zenon DEF ReadExcludes
<1>8. CASE WriteExcludes(p)
  <2>1. /\ At(p, "exclude")
        /\ Ends(p) \/ (Named(p, "init") /\ Goto(p, "handoff"))
    BY <1>8 DEF WriteExcludes
  <2>2. file'["skill"] = file["skill"]
    BY <1>8, FileNames, Here DEF WriteExcludes, Files
  <2>3. CASE Ends(p)
    BY <2>1, <2>2, <2>3, EndsNone, SameWhen DEF Handles, At
  <2>4. CASE Named(p, "init") /\ Goto(p, "handoff")
    <3>1. Stays(p) /\ cli'[p].pc = "handoff" /\ MayBegin(p)
      BY <2>1, <2>4, GotoStays DEF MayBegin, At, In
    <3>. QED
      BY <2>1, <2>2, <3>1, SameWhen DEF Handles, At
  <2>. QED
    BY <2>1, <2>3, <2>4
<1>. QED
  BY <1>1, <1>2, <1>3, <1>4, <1>5, <1>6, <1>7, <1>8

LEMMA LateSame ==
  ASSUME Consistent, Marks, NEW p \in Process,
         \/ WriteHandoff(p) \/ Update(p) \/ WriteConfig(p) \/ WriteHistory(p)
         \/ SetMode(p) \/ AppendHistory(p) \/ Interrupt(p) \/ EndRollback(p)
         \/ Report(p) \/ WriteFails(p)
  PROVE  Same(p) /\ Handles(p)
<1>. /\ Step(p) /\ given' = given
  BY DEF Step, WriteHandoff, Update, WriteConfig, WriteHistory, SetMode,
     AppendHistory, Interrupt, EndRollback, Report, WriteFails, counters
<1>1. CASE WriteHandoff(p)
  <2>1. At(p, "handoff")
    BY <1>1 DEF WriteHandoff
  <2>2. Named(p, "init")
    BY <2>1, Here DEF At, Named, Routes, Installing
  <2>3. PICK place \in {"skill", "update", "config"} :
          \/ Goto(p, place) /\ file' = file
          \/ Writes(p, "handoff", "template", place)
    BY <1>1, Zenon DEF WriteHandoff, AfterSkill
  <2>4. Stays(p) /\ cli'[p].pc = place /\ file'["skill"] = file["skill"]
    BY <2>3, GotoStays, WritesStays, FileNames
  <2>5. MayBegin(p)
    BY <2>1, <2>2 DEF MayBegin, At, In
  <2>. QED
    BY <2>1, <2>3, <2>4, <2>5, SameWhen DEF Handles, At
<1>2. CASE \/ Update(p) \/ EndRollback(p) \/ WriteConfig(p) \/ WriteHistory(p)
           \/ Report(p)
  <2>1. In(p, {"update", "rollback", "config", "history", "report"})
    BY <1>2 DEF Update, EndRollback, WriteConfig, WriteHistory, Report, At, In
  <2>2. PICK place \in {"rollback", "unlock", "history", "config", "report"} :
          \/ Goto(p, place) /\ file' = file
          \/ \E f \in File \ {"skill"} : \E content : Writes(p, f, content, place)
    BY <1>2, FileNames, Zenon
       DEF Update, EndRollback, WriteConfig, WriteHistory, Report
  <2>3. Stays(p) /\ cli'[p].pc = place /\ file'["skill"] = file["skill"]
    BY <2>2, GotoStays, WritesStays
  <2>. QED
    BY <2>1, <2>2, <2>3, SameWhen DEF Handles, In, At, MayBegin
<1>3. CASE SetMode(p)
  <2>1. /\ At(p, "mode") /\ (Goto(p, "release") \/ Goto(p, "unlock"))
        /\ file'["skill"] = file["skill"]
    BY <1>3, FileNames, Here DEF SetMode, Files
  <2>2. Stays(p) /\ cli'[p].pc \in {"release", "unlock"}
    BY <2>1, GotoStays
  <2>. QED
    BY <2>1, <2>2, SameWhen DEF Handles, At, In, MayBegin
<1>4. CASE AppendHistory(p)
  <2>1. At(p, "append") /\ Ends(p) /\ file'["skill"] = file["skill"]
    BY <1>4, FileNames, Here DEF AppendHistory, Files
  <2>. QED
    BY <2>1, EndsNone, SameWhen DEF Handles, At
<1>5. CASE Interrupt(p)
  <2>1. /\ cli[p].pc # "idle" /\ file' = file
        /\ cli' = [cli EXCEPT ![p].pc = "rollback", ![p].nested = FALSE]
    BY <1>5 DEF Interrupt, In, Attempting, Installing
  <2>2. Stays(p) /\ cli'[p].pc = "rollback"
    BY <2>1, Here DEF Stays, Typed, Command
  <2>. QED
    BY <2>1, <2>2, SameWhen DEF Handles, At, In, MayBegin
<1>6. CASE WriteFails(p)
  <2>1. PICK f \in File :
          /\ Writing(p, f)
          /\ cli' = [cli EXCEPT ![p].journal = BeforeWrite(@, f),
                               ![p].pc = "rollback"]
    BY <1>6 DEF WriteFails
  <2>2. f # "skill" /\ cli[p].pc # "idle" /\ file' = file
    BY <1>6, <2>1 DEF Writing, WriteFails, At
  <2>3. PICK j : j = BeforeWrite(cli[p].journal, f)
    OBVIOUS
  <2>4. j.modified["skill"] = cli[p].journal.modified["skill"]
    BY <2>2, <2>3, FileNames, Journaled, Here
  <2>5. cli' = [cli EXCEPT ![p].journal = j, ![p].pc = "rollback"]
    BY <2>1, <2>3, Zenon
  <2>6. Stays(p) /\ cli'[p].pc = "rollback"
    BY <2>4, <2>5, Here DEF Stays, Typed, Command
  <2>. QED
    BY <2>2, <2>6, SameWhen DEF Handles, At, In, MayBegin
<1>. QED
  BY <1>1, <1>2, <1>3, <1>4, <1>5, <1>6

LEMMA InstallerSame ==
  ASSUME Consistent, Marks, NEW p \in Process,
         \/ InspectSkill(p) \/ JournalSkill(p) \/ BeginCopy(p) \/ EndCopy(p)
         \/ WriteMarker(p) \/ Retire(p) \/ Swap(p) \/ Raze(p)
  PROVE  Same(p) /\ Handles(p)
<1>. /\ Step(p) /\ given' = given
  BY DEF Step, InspectSkill, JournalSkill, BeginCopy, EndCopy, WriteMarker,
     Retire, Swap, Raze, counters
<1>1. cli[p].pc \in Skilling /\ cli[p].pc # "idle"
  BY DEF InspectSkill, JournalSkill, BeginCopy, EndCopy, WriteMarker, Retire,
     Swap, Raze, At, Skilling, Installing
<1>2. ASSUME SkillDone(p), Whole(file'["skill"]) \/ file'["skill"] = file["skill"]
      PROVE  Same(p) /\ Handles(p)
  BY <1>1, <1>2, SkillDoneStays, SameWhen DEF Handles
<1>3. ASSUME SkillFails(p)
      PROVE  Same(p) /\ Handles(p)
  BY <1>1, <1>3, SkillFailsSame
<1>4. /\ "skill" \in File /\ file \in [File -> Anything]
      /\ file["skill"] \in Copy \cup {Absent}
      /\ \A c \in Copy : c # Absent
  BY FileNames, Contents, AbsentAssumption, Here DEF Files
<1>5. CASE InspectSkill(p)
  <2>1. At(p, "skill") /\ MayBegin(p)
    BY <1>5 DEF InspectSkill, MayBegin, At, In
  <2>2. \/ Goto(p, AfterSkill(p)) /\ file' = file
        \/ SkillFails(p)
        \/ /\ skill_state(file["skill"]) = "current"
           /\ file' = [file EXCEPT !["skill"].marker = TRUE]
           /\ SkillDone(p)
        \/ Goto(p, "retire") /\ file' = file
        \/ Goto(p, IF Named(p, "init") THEN "journal" ELSE "copy")
           /\ file' = file
    BY <1>5, Zenon DEF InspectSkill
  <2>3. ASSUME NEW place, place # "marker", Goto(p, place), file' = file
        PROVE  Same(p) /\ Handles(p)
    BY <1>1, <2>1, <2>3, GotoStays, SameWhen DEF Handles
  <2>4. ASSUME skill_state(file["skill"]) = "current",
               file' = [file EXCEPT !["skill"].marker = TRUE]
        PROVE  Whole(file'["skill"])
    <3>1. file["skill"] # Absent /\ file["skill"].copy = "new"
      BY <2>4 DEF skill_state
    <3>2. file'["skill"] = [file["skill"] EXCEPT !.marker = TRUE]
      BY <1>4, <2>4
    <3>3. file'["skill"] \in Copy /\ file'["skill"].copy = "new"
      BY <1>4, <3>1, <3>2 DEF Copy
    <3>. QED
      BY <1>4, <3>3 DEF Whole
  <2>. QED
    BY <1>2, <1>3, <2>2, <2>3, <2>4 DEF AfterSkill
<1>6. CASE JournalSkill(p)
  <2>1. CASE cli' = [cli EXCEPT ![p].pc = "copy", ![p].nested = TRUE]
             /\ file' = file
    <3>1. Stays(p) /\ cli'[p].pc = "copy"
      BY <2>1, Here DEF Stays, Typed, Command
    <3>2. MayBegin(p)
      BY <1>6 DEF JournalSkill, MayBegin, At, In
    <3>. QED
      BY <1>1, <2>1, <3>1, <3>2, SameWhen DEF Handles
  <2>. QED
    BY <1>3, <1>6, <2>1 DEF JournalSkill
<1>7. CASE BeginCopy(p)
  <2>1. CASE /\ cli[p].pc = "copy" /\ file["skill"] = Absent
             /\ file' = [file EXCEPT
                           !["skill"] = [copy |-> "part", marker |-> FALSE]]
             /\ Goto(p, "copying")
    <3>1. /\ file'["skill"] = [copy |-> "part", marker |-> FALSE]
          /\ file'["skill"] \in Copy
      BY <1>4, <2>1 DEF Copy
    <3>2. Stays(p) /\ cli'[p].pc = "copying" /\ MayBegin(p)
      BY <2>1, GotoStays DEF MayBegin, In
    <3>. QED
      BY <1>1, <1>4, <2>1, <3>1, <3>2, SameWhen DEF Handles
  <2>. QED
    BY <1>3, <1>7, <2>1 DEF BeginCopy, At
<1>8. CASE EndCopy(p)
  <2>1. CASE /\ cli[p].pc = "copying" /\ file["skill"] # Absent
             /\ file' = [file EXCEPT !["skill"].copy =
                           IF @ = "raided" THEN @ ELSE "new"]
             /\ Goto(p, "marker")
    <3> DEFINE copied == IF file["skill"].copy = "raided" THEN "raided" ELSE "new"
    <3>1. file'["skill"] = [file["skill"] EXCEPT !.copy = copied]
      BY <1>4, <2>1
    <3>2. file'["skill"] \in Copy /\ file'["skill"].copy # "part"
      BY <1>4, <2>1, <3>1 DEF Copy
    <3>3. Stays(p) /\ cli'[p].pc = "marker"
      BY <2>1, GotoStays
    <3>4. ~MayBegin(p)'
      BY <3>3 DEF MayBegin, At, In
    <3>. QED
      BY <1>1, <1>4, <3>2, <3>3, <3>4, SameWhen DEF Handles, Whole
  <2>. QED
    BY <1>3, <1>8, <2>1 DEF EndCopy, At
<1>9. CASE WriteMarker(p)
  <2>1. CASE /\ cli[p].pc = "marker" /\ file["skill"] # Absent
             /\ file' = [file EXCEPT !["skill"].marker = TRUE]
             /\ SkillDone(p)
    <3>1. file["skill"] \in Copy /\ file["skill"].copy # "part"
      BY <1>4, <2>1 DEF Marks, Marking, Whole, At
    <3>2. file'["skill"] = [file["skill"] EXCEPT !.marker = TRUE]
      BY <1>4, <2>1
    <3>3. file'["skill"] \in Copy /\ file'["skill"].copy # "part"
      BY <3>1, <3>2 DEF Copy
    <3>. QED
      BY <1>2, <1>4, <2>1, <3>3 DEF Whole
  <2>. QED
    BY <1>3, <1>9, <2>1 DEF WriteMarker, At
<1>10. CASE Retire(p)
  <2>1. CASE file' = [file EXCEPT !["skill"] = Absent] /\ Goto(p, "swap")
    <3>1. Stays(p) /\ cli'[p].pc = "swap" /\ file'["skill"] = Absent
      BY <1>4, <2>1, GotoStays
    <3>2. ~MayBegin(p)'
      BY <3>1 DEF MayBegin, At, In
    <3>. QED
      BY <1>1, <3>1, <3>2, SameWhen DEF Handles
  <2>. QED
    BY <1>3, <1>10, <2>1 DEF Retire
<1>11. CASE Swap(p)
  <2>1. CASE file' = [file EXCEPT !["skill"] = Fresh] /\ SkillDone(p)
    <3>1. file'["skill"] \in Copy /\ file'["skill"].copy # "part"
      BY <1>4, <2>1 DEF Copy, Fresh
    <3>. QED
      BY <1>2, <1>4, <2>1, <3>1 DEF Whole
  <2>. QED
    BY <1>3, <1>11, <2>1 DEF Swap
<1>12. CASE Raze(p)
  <2>1. PICK place : place = AfterSkill(p)
    OBVIOUS
  <2>2. place \in {"update", "config"}
    BY <2>1 DEF AfterSkill
  <2>3. cli' = [cli EXCEPT ![p].pc = place, ![p].nested = FALSE]
    BY <1>12, <2>1 DEF Raze
  <2>4. Stays(p) /\ cli'[p].pc = place
    BY <2>3, Here DEF Stays, Typed, Command
  <2>5. ~MayBegin(p)'
    BY <2>2, <2>4 DEF MayBegin, At, In
  <2>6. file'["skill"] \in {file["skill"], Absent}
    BY <1>4, <1>12 DEF Raze
  <2>. QED
    BY <1>1, <2>2, <2>4, <2>5, <2>6, SameWhen DEF Handles
<1>. QED
  BY <1>5, <1>6, <1>7, <1>8, <1>9, <1>10, <1>11, <1>12

\* A removal takes the folder apart; it makes no part of a copy of it.
LEMMA RaidSame ==
  ASSUME Consistent, Marks, NEW p \in Process, Raid(p)
  PROVE  Same(p) /\ Handles(p)
<1>. /\ Step(p) /\ given' = given /\ cli' = cli
  BY DEF Step, Raid, counters
<1>1. cli[p].pc \in {"raze", "rollback"}
  BY DEF Raid, Removes, At
<1>2. PICK marker \in {file["skill"].marker, FALSE} :
        file' = [file EXCEPT !["skill"] = [copy |-> "raided", marker |-> marker]]
  BY DEF Raid
<1>3. /\ "skill" \in File /\ file \in [File -> Anything]
      /\ file["skill"] \in Copy \cup {Absent} /\ file["skill"] # Absent
      /\ \A c \in Copy : c # Absent
  BY FileNames, Contents, AbsentAssumption, Here DEF Files, Raid
<1>4. /\ file'["skill"] = [copy |-> "raided", marker |-> marker]
      /\ file'["skill"] \in Copy
  BY <1>2, <1>3 DEF Copy
<1>5. Whole(file'["skill"])
  BY <1>3, <1>4 DEF Whole
<1>6. Stays(p) /\ (MayBegin(p)' => MayBegin(p))
  BY <1>1 DEF Stays, MayBegin, At, In, Named
<1>. QED
  BY <1>1, <1>5, <1>6, SameWhen DEF Handles

\* What is restored is not the folder.
LEMMA RestoredSame ==
  ASSUME Consistent, Marks, NEW p \in Process, Step(p), given' = given,
         cli[p].pc \in {"rollback", "rewrite"}, NEW f \in File \ {"skill"},
         NEW failed \in SUBSET File, Restored(p, f, failed),
         file'["skill"] = file["skill"]
  PROVE  Same(p) /\ Handles(p)
<1>. HIDE DEF Restored
<1>1. Typed /\ "skill" \in File \ {f}
  BY Here, FileNames
<1>2. /\ cli'[p].pc = "rollback" /\ cli'[p].name = cli[p].name
      /\ cli'[p].number = cli[p].number
      /\ cli'[p].journal.modified["skill"] = cli[p].journal.modified["skill"]
  BY <1>1, RestoredFacts
<1>. QED
  BY <1>2, SameWhen DEF Stays, Handles, MayBegin, At, In

LEMMA RestoresSame ==
  ASSUME Consistent, Marks, NEW p \in Process,
         Restore(p) \/ Rewrite(p) \/ RestoreFails(p)
  PROVE  Same(p) /\ Handles(p)
<1>. /\ Step(p) /\ given' = given
  BY DEF Step, Restore, Rewrite, RestoreFails, counters
<1>1. \A f \in File : cli[p].journal.modified[f] # Absent => f # "skill"
  BY DEF Marks, Marking
<1>2. CASE Restore(p)
  <2>1. PICK f \in File :
          /\ cli[p].journal.modified[f] # Absent
          /\ file' = [file EXCEPT ![f] = Cut(f)]
          /\ cli' = [cli EXCEPT ![p].pc = "rewrite", ![p].open = f]
    BY <1>2 DEF Restore
  <2>2. f # "skill" /\ cli[p].pc = "rollback"
    BY <1>1, <1>2, <2>1 DEF Restore, At
  <2>3. file'["skill"] = file["skill"]
    BY <2>1, <2>2, FileNames, Here DEF Files
  <2>4. Stays(p) /\ cli'[p].pc = "rewrite"
    BY <2>1, Here DEF Stays, Typed, Command
  <2>. QED
    BY <2>2, <2>3, <2>4, SameWhen DEF Handles, MayBegin, At, In
<1>3. CASE Rewrite(p)
  <2>1. PICK f : f = cli[p].open
    OBVIOUS
  <2>2. /\ cli[p].pc = "rewrite" /\ Restored(p, f, {})
        /\ file' = [file EXCEPT ![f] = cli[p].journal.modified[f]]
    BY <1>3, <2>1 DEF Rewrite, At
  <2>3. f \in File /\ cli[p].journal.modified[f] # Absent
    BY <2>1, <2>2, Here DEF Routes
  <2>4. f \in File \ {"skill"}
    BY <1>1, <2>3
  <2>5. file'["skill"] = file["skill"]
    BY <2>2, <2>4, FileNames, Here DEF Files
  <2>. QED
    BY <2>2, <2>4, <2>5, RestoredSame
<1>4. CASE RestoreFails(p)
  <2>1. PICK f \in File :
          /\ cli[p].journal.modified[f] # Absent
          /\ cli[p].pc \in {"rollback", "rewrite"}
          /\ Restored(p, f, {f})
    BY <1>4 DEF RestoreFails, At
  <2>2. f \in File \ {"skill"} /\ file' = file
    BY <1>1, <1>4, <2>1 DEF RestoreFails
  <2>. QED
    BY <2>1, <2>2, RestoredSame
<1>. QED
  BY <1>2, <1>3, <1>4

LEMMA RemovesSame ==
  ASSUME Consistent, Marks, NEW p \in Process, Remove(p) \/ RemoveFails(p)
  PROVE  Same(p) /\ Handles(p)
<1>. /\ Step(p) /\ given' = given
  BY DEF Step, Remove, RemoveFails, counters
<1>1. PICK f \in File : /\ Removes(p, f)
                       /\ (file' = file \/ file' = [file EXCEPT ![f] = Absent])
                       /\ \/ cli' = [cli EXCEPT ![p].journal.created =
                                      SubSeq(@, 1, Len(@) - 1)]
                          \/ cli' = [cli EXCEPT
                                ![p].journal.created = SubSeq(@, 1, Len(@) - 1),
                                ![p].failed = @ \cup {f}]
  BY DEF Remove, RemoveFails
<1>2. cli[p].pc = "rollback"
  BY <1>1 DEF Removes, At
<1>3. PICK s : s = cli[p].journal.created
  OBVIOUS
<1>4. PICK t : t = SubSeq(s, 1, Len(s) - 1)
  OBVIOUS
<1>5. PICK g : g = cli[p].failed \cup {f}
  OBVIOUS
<1>6. \/ cli' = [cli EXCEPT ![p].journal.created = t]
      \/ cli' = [cli EXCEPT ![p].journal.created = t, ![p].failed = g]
  BY <1>1, <1>3, <1>4, <1>5, Zenon
<1>7. Stays(p) /\ cli'[p].pc = "rollback"
  BY <1>2, <1>6, Here DEF Stays, Typed, Command, Journals
<1>8. file'["skill"] \in {file["skill"], Absent}
  BY <1>1, FileNames, Here DEF Files
<1>. QED
  BY <1>2, <1>7, <1>8, SameWhen DEF Handles, MayBegin, At, In

LEMMA RaisesSame ==
  ASSUME Consistent, Marks, NEW p \in Process, Raises(p)
  PROVE  Same(p) /\ Handles(p)
<1>. /\ Step(p) /\ given' = given
  BY DEF Step, Raises, counters
<1>1. CASE In(p, Installing) /\ SkillFails(p)
  BY <1>1, SkillFailsSame DEF In, Skilling
<1>2. cli[p].pc # "idle"
  BY DEF Raises, At, In, Attempting, Installing
<1>3. CASE Ends(p) /\ file' = file
  BY <1>2, <1>3, EndsNone, SameWhen DEF Handles
<1>4. CASE (Goto(p, "rollback") \/ Goto(p, "unlock")) /\ file' = file
  <2>1. Stays(p) /\ cli'[p].pc \in {"rollback", "unlock"}
    BY <1>4, GotoStays
  <2>. QED
    BY <1>2, <1>4, <2>1, SameWhen DEF Handles, MayBegin, At, In
<1>. QED
  BY <1>1, <1>3, <1>4 DEF Raises, In

LEMMA BeginsNumber ==
  ASSUME Consistent, NEW p \in Process, NEW command \in Command,
         Begins(p, command), command.pc # "marker", command.journal = NoJournal
  PROVE  /\ cli[p].pc = "idle" /\ given < MaxCommands /\ given' = given + 1
         /\ file' = file /\ cli'[p].number = given + 1
         /\ cli'[p].journal.modified["skill"] = Absent
         /\ cli'[p].pc # "marker"
<1>1. /\ cli[p].pc = "idle" /\ given < MaxCommands /\ given' = given + 1
      /\ file' = file
      /\ cli' = [cli EXCEPT ![p] = [command EXCEPT !.number = given + 1]]
  BY DEF Begins, At
<1>2. PICK d : d = [command EXCEPT !.number = given + 1]
  OBVIOUS
<1>3. /\ d.number = given + 1 /\ d.journal = command.journal
      /\ d.pc = command.pc
  BY <1>2 DEF Command
<1>4. cli'[p] = d
  BY <1>1, <1>2, Here, Zenon DEF Typed
<1>5. NoJournal.modified["skill"] = Absent
  BY FileNames DEF NoJournal
<1>. QED
  BY <1>1, <1>3, <1>4, <1>5

\* A command that begins is a new one.
LEMMA BeginMarks ==
  ASSUME Consistent, Marks, NEW p \in Process, Begin(p)
  PROVE  Marks'
<1> DEFINE New ==
      /\ cli[p].pc = "idle" /\ given < MaxCommands /\ given' = given + 1
      /\ file' = file /\ cli'[p].number = given + 1
      /\ cli'[p].journal.modified["skill"] = Absent
      /\ cli'[p].pc # "marker"
<1>1. New
  <2>1. ASSUME NEW planner \in BOOLEAN, NEW mode \in Mode \cup {"unset"},
               InitCommand(p, planner, mode)
        PROVE  New
    <3> DEFINE existing == IF file["config"] = Absent THEN "none"
                           ELSE file["config"].config
    <3> DEFINE c == [Done EXCEPT !.pc = "lock", !.name = "init",
              !.planner = planner, !.mode = mode, !.existing = existing]
    <3>1. Begins(p, c) /\ file["config"] # Damaged
      BY <2>1 DEF InitCommand
    <3>2. file["config"] \in Content("config") \cup {Absent}
      BY Here, FileNames
    <3>3. existing \in {"none", "manual", "managed"}
      BY <3>1, <3>2, Contents DEF Managed, Manual
    <3> HIDE DEF existing
    <3>4. c \in Command /\ c.pc = "lock" /\ c.journal = NoJournal
      BY <3>3, DoneTyped DEF Done, Command, Places
    <3>. QED
      BY <3>1, <3>4, BeginsNumber
  <2>2. ASSUME SkillCommand(p)
        PROVE  New
    <3> DEFINE c == [Done EXCEPT !.pc = "skill", !.name = "skill",
                                 !.planner = TRUE]
    <3>1. c \in Command /\ c.pc = "skill" /\ c.journal = NoJournal
      BY DoneTyped DEF Done, Command, Places, Attempting
    <3>. QED
      BY <2>2, <3>1, BeginsNumber DEF SkillCommand
  <2>3. ASSUME NEW mode \in Mode, ModeCommand(p, mode)
        PROVE  New
    <3> DEFINE c == [Done EXCEPT !.pc = "lock", !.name = "mode", !.mode = mode]
    <3>1. c \in Command /\ c.pc = "lock" /\ c.journal = NoJournal
      BY DoneTyped DEF Done, Command, Places
    <3>. QED
      BY <2>3, <3>1, BeginsNumber DEF ModeCommand
  <2>. QED
    BY <2>1, <2>2, <2>3, Zenon DEF Begin
<1>2. \A q \in Process \ {p} : cli'[q] = cli[q]
  BY OthersStay, Here
<1>3. given \in Nat /\ MaxCommands \in Nat
  BY Here, InstallationAssumption
<1>5. Numbered'
  BY <1>1, <1>2, <1>3 DEF Marks, Numbered, At
<1>6. ASSUME NEW q \in Process PROVE MayBegin(q)' => MayBegin(q)
  BY <1>1, <1>2 DEF MayBegin, At, In, Named
<1>7. ASSUME NEW q \in Process PROVE Marking(q)'
  BY <1>1, <1>2, <1>6 DEF Marks, Marking, At
<1>. QED
  BY <1>1, <1>5, <1>7 DEF Marks, MarkedComplete

LEMMA MarksStep ==
  ASSUME Few
  PROVE  Consistent /\ Marks /\ [Next]_vars => Marks'
<1>. SUFFICES ASSUME Consistent, Marks, [Next]_vars
              PROVE  Marks'
  OBVIOUS
<1>1. ASSUME NEW p \in Process, Begin(p) PROVE Marks'
  BY <1>1, BeginMarks
<1>2. ASSUME NEW p \in Process, Step(p) PROVE Marks'
  <2>1. Same(p) /\ Handles(p)
    BY <1>2, EarlySame, LateSame, InstallerSame, RaidSame, RaisesSame,
       RestoresSame, RemovesSame DEF Step
  <2>. QED
    BY <2>1, MarksKept
<1>3. ASSUME NEW p \in Process, Kill(p) PROVE Marks'
  <2>1. /\ \A q \in Process \ {p} : cli'[q] = cli[q]
        /\ given' = given /\ cli[p].pc # "idle" /\ file' = file
        /\ cli'[p] = Done
    BY <1>3, OthersStay, Here DEF Kill, Ends, At, Typed
  <2>2. cli'[p].pc = "idle" /\ cli'[p].journal.modified["skill"] = Absent
    BY <2>1, FileNames DEF Done, NoJournal
  <2>. QED
    BY <2>1, <2>2, MarksKept DEF Same, Handles
<1>4. CASE RemoveLock \/ MoveAside \/ UNCHANGED vars
  <2>1. cli' = cli /\ given' = given /\ file'["skill"] = file["skill"]
    BY <1>4, FileNames, Here DEF RemoveLock, MoveAside, vars, counters,
       Consistent, Typed, Present, Files
  <2>. QED
    BY <2>1 DEF Marks, Numbered, MarkedComplete, Marking, MayBegin, At, In, Named
<1>. QED
  BY <1>1, <1>2, <1>3, <1>4 DEF Next

LEMMA MarksInit == Init => Marks
<1>. SUFFICES ASSUME Init PROVE Marks
  OBVIOUS
<1>1. \A p \in Process : cli[p] = Done
  BY DEF Init
<1>2. \A p \in Process : cli[p].pc = "idle"
                         /\ cli[p].journal.modified["skill"] = Absent
  <2>1. Done.pc = "idle" /\ Done.journal.modified["skill"] = Absent
    BY FileNames DEF Done, NoJournal
  <2>. QED
    BY <1>1, <2>1, Zenon
<1>3. MarkedComplete
  BY FileNames, Zenon DEF Init, MarkedComplete
<1>. QED
  BY <1>2, <1>3 DEF Marks, Numbered, Marking, At

\* The install marker is the last thing written: through failures, rollbacks,
\* kills and failed undos a marked copy of the skill has been copied to the end
\* (_write_marker), whatever a removal takes out of it, when one command runs at
\* a time, however many there are, and for any two commands.
THEOREM MarkedCompleteHolds ==
  ASSUME (\A p, q \in Process : p = q) \/ MaxCommands <= 2
  PROVE  Spec => []MarkedComplete
<1>1. Few
  BY DEF Few
<1>2. Consistent /\ Marks /\ [Next]_vars => Marks'
  BY <1>1, MarksStep
<1>3. Marks => MarkedComplete
  BY DEF Marks
<1>. QED
  BY <1>2, <1>3, MarksInit, AlwaysConsistent, PTL DEF Spec

=============================================================================
