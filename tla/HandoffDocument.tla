-------------------------- MODULE HandoffDocument --------------------------
(***************************************************************************)
(* HANDOFF.md as a text that several hands edit: the Planner plans in it,  *)
(* the Executor reports in it, and the commands approve, execute, qa and   *)
(* archive read and rewrite it (workspace.py, with workflow.py and         *)
(* integration.py).  HandoffWorkflow takes a document for a Status and a   *)
(* plan; here it is a sequence of lines, and what the code finds in it by  *)
(* regular expressions is what the operators below compute.                *)
(*                                                                         *)
(* A line is a `## ' heading, a `**Status:**' line with its value, or any  *)
(* other text.  Line endings, trailing white space and the Branch field    *)
(* are left out.                                                           *)
(***************************************************************************)
EXTENDS Naturals, FiniteSets, SequencesExt, FiniteSetsExt

CONSTANTS
  Template,   \* the document at the start
  Typed,      \* bound: the lines that are typed by hand
  QAFiles,    \* bound: the contents of the files given to `handoff qa'
  MaxRuns,    \* bound: runs
  MaxEdits,   \* bound: lines inserted, removed or overwritten by hand
  MaxLines    \* bound: length of the document

Required == <<"Current Task", "Execution Notes", "QA Feedback">>
Headings == ToSet(Required) \cup {"Other"}
Eligible == {"READY FOR EXECUTION", "CHANGES REQUESTED"}
Verdicts == {"APPROVED", "CHANGES REQUESTED"}
Statuses == Eligible \cup {"", "NO TASK", "DRAFT", "READY FOR QA", "APPROVED"}

Heading(h) == [kind |-> "heading", text |-> h]
Status(s) == [kind |-> "status", text |-> s]
Text(t) == [kind |-> "text", text |-> t]
Blank == Text("")
Separator == Text("---")

Line == {Heading(h) : h \in Headings} \cup {Status(s) : s \in Statuses}
          \cup {Blank, Separator} \cup [kind : {"text"}, text : STRING]

ASSUME DocumentAssumption ==
  /\ Typed \subseteq Line
  /\ QAFiles \cup {Template} \subseteq Seq(Line)
  /\ MaxRuns \in Nat /\ MaxEdits \in Nat /\ MaxLines \in Nat

VARIABLES
  doc,        \* HANDOFF.md
  approved,   \* approved_plan_hash of workflow.json: no or one plan
  submitted,  \* the document of the request that runs
  delivered,  \* the document the server evaluated, until it is changed
  archived,   \* the plan of the last entry in HANDOFF-ARCHIVE.md: no or one
  stage,      \* who acted last, and whether a run is under way
  runs, edits \* counters for the bounds

vars == <<doc, approved, submitted, delivered, archived, stage, runs, edits>>

\* running, completed and failed: outstanding.json exists; in the last two the
\* server has evaluated the delivery and the client has not reconciled it.
Outstanding == {"running", "completed", "failed"}
Stages == Outstanding \cup {"planned", "accepted", "returned", "judged"}

-----------------------------------------------------------------------------
(* Reading a document.                                                     *)

Where(d, P(_)) == {i \in DOMAIN d : P(d[i])}
IsHeading(l) == l.kind = "heading"
IsStatus(l) == l.kind = "status"
HeadingAt(d, h) == Where(d, LAMBDA l : l = Heading(h))

\* _STATUS_RE allows any white space between `**Status:**' and the value: the
\* value of an empty Status line is the next line that is not blank.
read_status(d) ==
  LET found == Where(d, IsStatus)
      first == Min(found)
      next  == {i \in DOMAIN d : i > first /\ d[i] # Blank}
  IN IF found = {} THEN ""
     ELSE IF d[first].text # "" \/ next = {} THEN d[first].text
     ELSE IF d[Min(next)].kind = "text" THEN d[Min(next)].text
     ELSE "a heading or Status line"

\* Exactly one of each required heading, in order, and no other inside
\* Current Task.
handoff_structure(d) ==
  LET at(k) == HeadingAt(d, Required[k])
  IN /\ \A k \in 1..3 : Cardinality(at(k)) = 1
     /\ Min(at(1)) < Min(at(2)) /\ Min(at(2)) < Min(at(3))
     /\ ~ \E i \in Where(d, IsHeading) : Min(at(1)) < i /\ i < Min(at(2))

Unambiguous(d) ==
  \A h \in {"Current Task", "QA Feedback"} : Cardinality(HeadingAt(d, h)) <= 1

\* A section with its heading ends before the next `## ' heading.
Section(d, h) ==
  LET at   == HeadingAt(d, h)
      next == {i \in Where(d, IsHeading) : i > Min(at)}
  IN IF at = {} THEN <<>>
     ELSE SubSeq(d, Min(at), IF next = {} THEN Len(d) ELSE Min(next) - 1)

\* What _STATUS_RE.sub leaves of a section: a Status line loses its value with
\* the blank lines up to the next line; a Status line without value takes the
\* next line that is not blank for the value.
StatusDropped(s) ==
  LET Copy(acc, l) ==
        IF l = Blank /\ acc.after # "text" THEN acc
        ELSE IF acc.after = "empty" THEN [acc EXCEPT !.after = "status"]
        ELSE IF IsStatus(l)
          THEN [kept |-> Append(acc.kept, Status("")),
                after |-> IF l.text = "" THEN "empty" ELSE "status"]
        ELSE [kept |-> Append(acc.kept, l), after |-> "text"]
  IN FoldLeft(Copy, [kept |-> <<>>, after |-> "text"], s).kept

current_task_without_status(d) == StatusDropped(Section(d, "Current Task"))

planner_fingerprint(d) ==
  IF ~Unambiguous(d) THEN <<>>
  ELSE current_task_without_status(d) \o <<Separator>> \o Section(d, "QA Feedback")

approved_plan_hash(d) == current_task_without_status(d)

normalize_owned(f) == SelectSeq(f, LAMBDA l : l \notin {Blank, Separator})

plan_changed_since_approval(d) ==
  approved # {} /\ Unambiguous(d) /\ approved_plan_hash(d) \notin approved

-----------------------------------------------------------------------------
(* Rewriting a document.                                                   *)

\* A deviant: the last Status line.
ReplaceLastStatus(d, s) ==
  LET found == Where(d, IsStatus)
  IN IF found = {} THEN d ELSE ReplaceAt(d, Max(found), Status(s))

\* The first Status line; a document without one stays as it is.
replace_status(d, s) ==
  LET found == Where(d, IsStatus)
  IN IF found = {} THEN d ELSE ReplaceAt(d, Min(found), Status(s))

\* The body of QA Feedback is replaced or, after a blank line, appended to;
\* the body reaches to the end of the document, whatever is in it.
render_qa(d, file, append) ==
  LET q    == Min(HeadingAt(d, "QA Feedback"))
      body == SubSeq(d, q + 1, Len(d))
      gap  == IF Len(body) > 1 /\ Last(body) = Blank THEN <<>> ELSE <<Blank>>
  IN SubSeq(d, 1, q) \o (IF append THEN body \o gap ELSE <<>>) \o file

-----------------------------------------------------------------------------

Init ==
  /\ doc = Template
  /\ approved = {} /\ archived = {}
  /\ submitted = <<>> /\ delivered = <<>>
  /\ stage = "planned"
  /\ runs = 0 /\ edits = 0

\* A line is inserted, overwritten or removed, by the Planner or the human
\* when they like, by the Executor while it runs.
Edit ==
  /\ edits < MaxEdits
  /\ \E i \in 1..(Len(doc) + 1) :
       \/ /\ Len(doc) < MaxLines
          /\ \E l \in Typed : doc' = InsertAt(doc, i, l)
       \/ /\ i <= Len(doc)
          /\ \E l \in Typed : doc' = ReplaceAt(doc, i, l)
       \/ /\ i <= Len(doc)
          /\ doc' = RemoveAt(doc, i)
  /\ edits' = edits + 1
  /\ IF stage \in Outstanding THEN UNCHANGED <<stage, delivered>>
     ELSE stage' = "planned" /\ delivered' = <<>>
  /\ UNCHANGED <<approved, submitted, archived, runs>>

\* The Executor is told to set READY FOR QA; APPROVED stands for any other Status
\* it may write.
ExecutorStatus ==
  /\ stage = "running"
  /\ \E s \in {"READY FOR QA", "APPROVED"} :
       doc' = replace_status(doc, s)
  /\ UNCHANGED <<approved, submitted, delivered, archived, stage, runs, edits>>

\* The same plan is approved once: its Status is not written again.
Approve ==
  /\ stage \notin Outstanding
  /\ read_status(doc) \in {"DRAFT"} \cup Eligible
  /\ Unambiguous(doc)
  /\ approved_plan_hash(doc) \notin approved
  /\ approved' = {approved_plan_hash(doc)}
  /\ doc' = replace_status(doc, "READY FOR EXECUTION")
  /\ stage' = "planned" /\ delivered' = <<>>
  /\ UNCHANGED <<submitted, archived, runs, edits>>

\* Nothing tests the structure before a run; the first heading counts.
Submit ==
  /\ stage \notin Outstanding
  /\ read_status(doc) \in Eligible
  /\ Unambiguous(doc)
  /\ approved_plan_hash(doc) \in approved
  /\ runs < MaxRuns
  /\ runs' = runs + 1
  /\ submitted' = doc
  /\ stage' = "running" /\ delivered' = <<>>
  /\ UNCHANGED <<doc, approved, archived, edits>>

\* A deviant: the plan alone is compared.
TaskIntact(before, after) ==
  normalize_owned(approved_plan_hash(before))
    = normalize_owned(approved_plan_hash(after))

\* _boundary_note: blank lines and separators may differ.
PlanIntact(before, after) ==
  normalize_owned(planner_fingerprint(before))
    = normalize_owned(planner_fingerprint(after))

\* The worker is over; the process may have failed whatever it wrote.
evaluate_transition ==
  /\ stage = "running"
  /\ \/ /\ handoff_structure(doc)
        /\ PlanIntact(submitted, doc)
        /\ read_status(doc) = "READY FOR QA"
        /\ stage' = "completed"
     \/ stage' = "failed"
  /\ delivered' = doc
  /\ UNCHANGED <<doc, approved, submitted, archived, runs, edits>>

SetReadyForQA ==
  /\ stage = "completed"
  /\ doc' = IF read_status(doc) = "READY FOR QA" THEN doc
            ELSE replace_status(doc, "READY FOR QA")
  /\ stage' = "accepted" /\ submitted' = <<>>
  /\ UNCHANGED <<approved, delivered, archived, runs, edits>>

RestoreSubmittedStatus ==
  /\ stage = "failed"
  /\ doc' = IF read_status(submitted) \in {"", read_status(doc)} THEN doc
            ELSE replace_status(doc, read_status(submitted))
  /\ stage' = "returned" /\ submitted' = <<>> /\ delivered' = <<>>
  /\ UNCHANGED <<approved, archived, runs, edits>>

\* A deviant: the plan is compared, the structure is not.
PlanUntouched(updated) == approved_plan_hash(updated) = approved_plan_hash(doc)

\* What cmd_qa refuses to write.
Harmless(updated) ==
  /\ handoff_structure(updated)
  /\ approved_plan_hash(updated) = approved_plan_hash(doc)

QA(verdict, file, append) ==
  LET keep    == append /\ read_status(doc) \in Verdicts
      body    == render_qa(doc, file, append)
      updated == IF keep THEN body ELSE replace_status(body, verdict)
  IN /\ stage \notin Outstanding
     /\ handoff_structure(doc)
     /\ ~plan_changed_since_approval(doc)
     /\ read_status(doc) = "READY FOR QA" \/ keep
     /\ Len(updated) <= MaxLines
     /\ Harmless(updated)
     /\ doc' = updated
     /\ stage' = "judged" /\ delivered' = <<>>
     /\ UNCHANGED <<approved, submitted, archived, runs, edits>>

\* archive without --superseded: workflow.json is removed and the document
\* stays as it is, so a second archive of the same plan is refused.
Archive ==
  /\ stage \notin Outstanding
  /\ handoff_structure(doc)
  /\ ~plan_changed_since_approval(doc)
  /\ read_status(doc) = "APPROVED"
  /\ current_task_without_status(doc) \notin archived
  /\ archived' = {current_task_without_status(doc)}
  /\ approved' = {}
  /\ stage' = "planned" /\ delivered' = <<>>
  /\ UNCHANGED <<doc, submitted, runs, edits>>

Next ==
  \/ Edit \/ ExecutorStatus
  \/ Approve \/ Submit
  \/ evaluate_transition \/ SetReadyForQA \/ RestoreSubmittedStatus
  \/ \E v \in Verdicts, f \in QAFiles, append \in BOOLEAN : QA(v, f, append)
  \/ Archive

Spec == Init /\ [][Next]_vars

-----------------------------------------------------------------------------
(* What the documents promise, stated over the lines themselves.           *)

Under(d, i, h) ==
  \E k \in 1..i : d[k] = Heading(h) /\ \A j \in (k + 1)..i : ~IsHeading(d[j])

\* A line is the value of an empty Status line above it, blank lines apart,
\* unless that Status line is itself the value of one before: every second of
\* a run of empty Status lines is.
IsStatusValue(d, i) ==
  LET run == {k \in 1..(i - 1) : \A j \in k..(i - 1) : d[j] \in {Blank, Status("")}}
  IN ~IsHeading(d[i]) /\ Cardinality({k \in run : IsStatus(d[k])}) % 2 = 1

PlannerOwns(d, i) ==
  /\ d[i] \notin {Blank, Separator}
  /\ \/ /\ Under(d, i, "Current Task")
        /\ ~IsStatus(d[i]) /\ ~IsStatusValue(d, i)
     \/ Under(d, i, "QA Feedback")

PlannerLines(d) ==
  LET own == SelectSeq([i \in 1..Len(d) |-> i], LAMBDA i : PlannerOwns(d, i))
  IN [k \in DOMAIN own |-> d[own[k]]]

\* The required headings, each once and in order, and no heading between
\* Current Task and Execution Notes.
WellFormed(d) ==
  \E i, j, k \in DOMAIN d :
    /\ i < j /\ j < k
    /\ d[i] = Heading("Current Task") /\ d[j] = Heading("Execution Notes")
    /\ d[k] = Heading("QA Feedback")
    /\ \A n \in DOMAIN d \ {i, j, k} :
         IsHeading(d[n]) => d[n] = Heading("Other") /\ ~(i < n /\ n < j)

\* A delivery that the server accepts has every line the Planner wrote into
\* Current Task and QA Feedback of the request, in the same order and no other,
\* blank lines, separators and Status apart (evaluate_transition,
\* _boundary_note), however Status lines and headings were moved about.
PlannerTextKept ==
  stage = "completed" => PlannerLines(delivered) = PlannerLines(submitted)

\* After an unsuccessful delivery the document routes neither the Planner to QA
\* nor the human to the merge: it has the submitted Status again, or none that
\* any reader finds (_restore_submitted_status).
NotRouted ==
  stage = "returned" => read_status(doc) \in Eligible \cup {""}

\* After `handoff qa' the document is one the next command takes: it has its
\* three headings, the approved plan, and the verdict for a Status.  A document
\* whose only Status line was in the replaced QA body has no Status left.
VerdictStands ==
  stage = "judged" =>
    /\ WellFormed(doc)
    /\ approved = {} \/ approved_plan_hash(doc) \in approved
    /\ read_status(doc) \in Verdicts \cup {""}

\* The message of `handoff qa' for a plan that changed says to restore the
\* document from the delivered copy: an accepted delivery in its delivered form
\* can be judged.  The code accepts a delivery whose Current Task lost a
\* separator or a blank line, and its plan hash is another one.
AcceptedCanBeJudged ==
  stage = "accepted" /\ doc = delivered => ~plan_changed_since_approval(doc)

=============================================================================
