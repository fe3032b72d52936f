----------------------- MODULE HandoffDocumentProofs -----------------------
(***************************************************************************)
(* Theorems about HandoffDocument, for documents of any length, any number *)
(* of edits and of runs, and any files given to `handoff qa'.              *)
(***************************************************************************)
EXTENDS HandoffDocument, TLAPS, WellFoundedInduction, SequenceTheorems,
        FiniteSetTheorems

Document == Seq(Line)

-----------------------------------------------------------------------------
(* Reading.                                                                *)

\* Min of FiniteSetsExt is the least number.
LEMMA Least ==
  ASSUME NEW S \in SUBSET Nat, S # {}
  PROVE  Min(S) \in S /\ \A x \in S : Min(S) <= x
<1> DEFINE less == OpToRel(<, Nat)
<1>1. \A x, y \in Nat : x < y => <<x, y>> \in less
  BY DEF OpToRel
<1>2. IsWellFoundedOn(less, Nat)
  BY NatLessThanWellFounded
<1> HIDE DEF less
<1>3. PICK n \in S : \A x \in S : ~ (<<x, n>> \in less)
  BY <1>2, WFMin
<1>4. ASSUME NEW x \in S PROVE n <= x
  <2>1. x \in Nat /\ n \in Nat
    OBVIOUS
  <2>2. ~(x < n)
    BY <1>1, <1>3, <2>1, Zenon
  <2>. QED
    BY <2>1, <2>2
<1>. QED
  BY <1>4 DEF Min

\* Who is the least is Min.
LEMMA LeastIs ==
  ASSUME NEW S \in SUBSET Nat, NEW n \in S, \A x \in S : n <= x
  PROVE  Min(S) = n
<1>1. Min(S) \in S /\ \A x \in S : Min(S) <= x
  BY Least
<1>2. Min(S) \in Nat /\ n \in Nat /\ Min(S) <= n /\ n <= Min(S)
  BY <1>1
<1>. QED
  BY <1>2

StatusLines(d) == {i \in DOMAIN d : d[i].kind = "status"}
FirstStatus(d) == Min(StatusLines(d))
AfterFirst(d) == {i \in DOMAIN d : i > FirstStatus(d) /\ d[i] # Blank}

LEMMA StatusWhere ==
  ASSUME NEW d
  PROVE  Where(d, IsStatus) = StatusLines(d)
BY DEF Where, IsStatus, StatusLines

LEMMA Reads ==
  ASSUME NEW d
  PROVE  read_status(d) =
           IF StatusLines(d) = {} THEN ""
           ELSE IF d[FirstStatus(d)].text # "" \/ AfterFirst(d) = {}
             THEN d[FirstStatus(d)].text
           ELSE IF d[Min(AfterFirst(d))].kind = "text"
             THEN d[Min(AfterFirst(d))].text
           ELSE "a heading or Status line"
BY StatusWhere, Zenon DEF read_status, FirstStatus, AfterFirst

LEMMA First ==
  ASSUME NEW d \in Document, StatusLines(d) # {}
  PROVE  /\ FirstStatus(d) \in StatusLines(d) /\ FirstStatus(d) \in DOMAIN d
         /\ FirstStatus(d) \in Nat
         /\ \A i \in StatusLines(d) : FirstStatus(d) <= i
<1>1. StatusLines(d) \in SUBSET Nat /\ StatusLines(d) \subseteq DOMAIN d
  BY DEF StatusLines, Document
<1>. QED
  BY <1>1, Least DEF FirstStatus

\* replace_status: the status read afterwards is the one written, or none where
\* there is no Status line.
LEMMA StatusReplaced ==
  ASSUME NEW d \in Document, NEW s \in Statuses, s # ""
  PROVE  /\ replace_status(d, s) \in Document
         /\ read_status(replace_status(d, s)) \in {"", s}
<1>1. CASE StatusLines(d) = {}
  BY <1>1, StatusWhere, Reads DEF replace_status
<1>2. CASE StatusLines(d) # {}
  <2>n. PICK n : n = FirstStatus(d)
    OBVIOUS
  <2>r. PICK r : r = [d EXCEPT ![n] = Status(s)]
    OBVIOUS
  <2>1. replace_status(d, s) = r
    BY <1>2, <2>n, <2>r, StatusWhere, Zenon
    DEF replace_status, ReplaceAt, FirstStatus
  <2>2. n \in DOMAIN d /\ n \in StatusLines(d)
    BY <1>2, <2>n, First
  <2>3. Status(s) \in Line /\ Status(s).kind = "status" /\ Status(s).text = s
    BY DEF Status, Line
  <2>d. PICK l \in Line : l = Status(s)
    BY <2>3
  <2>4. r \in Document /\ DOMAIN r = DOMAIN d
    <3>1. DOMAIN d = 1..Len(d)
      BY LenProperties DEF Document
    <3>2. r \in Seq(Line)
      BY <2>r, <2>2, <2>d, <3>1, ExceptSeq, Zenon DEF Document
    <3>. QED
      BY <2>r, <3>2 DEF Document
  <2>5. r[n] = Status(s) /\ \A i \in DOMAIN d \ {n} : r[i] = d[i]
    BY <2>r, <2>2 DEF Document
  <2>6. StatusLines(r) = StatusLines(d)
    BY <2>2, <2>3, <2>4, <2>5 DEF StatusLines
  <2>7. FirstStatus(r) = n
    BY <2>6, <2>n DEF FirstStatus
  <2>. QED
    BY <1>2, <2>1, <2>3, <2>4, <2>5, <2>6, <2>7, Reads
<1>. QED
  BY <1>1, <1>2

\* A verdict that is read is read still when lines are appended.
LEMMA VerdictRead ==
  ASSUME NEW d \in Document, NEW t \in Document, read_status(d) \in Verdicts
  PROVE  read_status(d \o t) = read_status(d)
<1>c. PICK c : c = d \o t
  OBVIOUS
<1>n. PICK n : n = FirstStatus(d)
  OBVIOUS
<1>m. PICK m : m = Min(AfterFirst(d))
  OBVIOUS
<1>1. /\ c \in Document /\ DOMAIN d \subseteq DOMAIN c
      /\ \A i \in DOMAIN d : c[i] = d[i]
      /\ \A i \in DOMAIN c \ DOMAIN d : \A j \in DOMAIN d : j <= i
      /\ DOMAIN c \subseteq Nat
  BY <1>c, ConcatProperties DEF Document
<1>2. StatusLines(d) # {}
  BY Reads DEF Verdicts
<1>3. n \in StatusLines(d) /\ n \in DOMAIN d /\ n \in Nat
      /\ \A i \in StatusLines(d) : n <= i
  BY <1>2, <1>n, First
<1>4. n \in StatusLines(c) /\ \A i \in StatusLines(c) : n <= i
  BY <1>1, <1>3 DEF StatusLines
<1>5. FirstStatus(c) = n /\ StatusLines(c) # {}
  BY <1>1, <1>4, LeastIs DEF FirstStatus, StatusLines
<1>6. c[n] = d[n]
  BY <1>1, <1>3
<1>7. CASE d[n].text # ""
  BY <1>2, <1>5, <1>6, <1>7, <1>c, <1>n, Reads
<1>8. CASE d[n].text = ""
  <2>1. AfterFirst(d) # {}
    BY <1>2, <1>8, <1>n, Reads DEF Verdicts
  <2>2. AfterFirst(d) \in SUBSET Nat
    BY DEF AfterFirst, Document
  <2>3. m \in AfterFirst(d) /\ \A i \in AfterFirst(d) : m <= i
    BY <2>1, <2>2, <1>m, Least
  <2>4. m \in DOMAIN d
    BY <2>3 DEF AfterFirst
  <2>5. m \in AfterFirst(c) /\ \A i \in AfterFirst(c) : m <= i
    BY <1>1, <1>5, <1>n, <2>3, <2>4 DEF AfterFirst
  <2>6. AfterFirst(c) \in SUBSET Nat
    BY <1>1 DEF AfterFirst
  <2>7. Min(AfterFirst(c)) = m /\ AfterFirst(c) # {}
    BY <2>5, <2>6, LeastIs
  <2>8. c[m] = d[m]
    BY <1>1, <2>4
  <2>. QED
    BY <1>2, <1>5, <1>6, <1>8, <1>c, <1>n, <1>m, <2>1, <2>7, <2>8, Reads
<1>. QED
  BY <1>7, <1>8


-----------------------------------------------------------------------------
(* The structure.                                                          *)

HeadingLines(d, h) == {i \in DOMAIN d : d[i] = Heading(h)}

LEMMA HeadingWhere ==
  ASSUME NEW d, NEW h
  PROVE  HeadingAt(d, h) = HeadingLines(d, h)
BY Zenon DEF Where, HeadingAt, HeadingLines

\* A heading that is there once is at the least of its lines.
LEMMA Once ==
  ASSUME NEW d \in Document, NEW h, Cardinality(HeadingAt(d, h)) = 1
  PROVE  /\ Min(HeadingAt(d, h)) \in DOMAIN d
         /\ HeadingAt(d, h) = {Min(HeadingAt(d, h))}
         /\ d[Min(HeadingAt(d, h))] = Heading(h)
<1>1. /\ HeadingAt(d, h) \in SUBSET (1..Len(d))
      /\ HeadingAt(d, h) \in SUBSET Nat
      /\ HeadingAt(d, h) \subseteq DOMAIN d /\ Len(d) \in Nat
  BY HeadingWhere DEF HeadingLines, Document
<1>2. IsFiniteSet(1..Len(d))
  BY <1>1, FS_Interval
<1>3. IsFiniteSet(HeadingAt(d, h))
  BY <1>1, <1>2, FS_Subset
<1>4. PICK n : HeadingAt(d, h) = {n}
  BY <1>3, FS_Singleton
<1>5. n \in Nat /\ Min({n}) = n
  BY <1>1, <1>4, LeastIs
<1>. QED
  BY <1>1, <1>4, <1>5, HeadingWhere DEF HeadingLines

\* What handoff_structure accepts has its headings in order, and either section
\* that is read once.
LEMMA Structured ==
  ASSUME NEW d \in Document, handoff_structure(d)
  PROVE  /\ WellFormed(d) /\ Unambiguous(d)
         /\ Min(HeadingAt(d, "QA Feedback")) \in DOMAIN d
<1>1. /\ Required[1] = "Current Task" /\ Required[2] = "Execution Notes"
      /\ Required[3] = "QA Feedback"
  BY DEF Required
<1>i. PICK i : i = Min(HeadingAt(d, "Current Task"))
  OBVIOUS
<1>j. PICK j : j = Min(HeadingAt(d, "Execution Notes"))
  OBVIOUS
<1>k. PICK k : k = Min(HeadingAt(d, "QA Feedback"))
  OBVIOUS
<1>2. /\ Cardinality(HeadingAt(d, "Current Task")) = 1
      /\ Cardinality(HeadingAt(d, "Execution Notes")) = 1
      /\ Cardinality(HeadingAt(d, "QA Feedback")) = 1
      /\ i < j /\ j < k
      /\ \A n \in Where(d, IsHeading) : ~(i < n /\ n < j)
  <2>1. /\ \A n \in 1..3 : Cardinality(HeadingAt(d, Required[n])) = 1
        /\ Min(HeadingAt(d, Required[1])) < Min(HeadingAt(d, Required[2]))
        /\ Min(HeadingAt(d, Required[2])) < Min(HeadingAt(d, Required[3]))
        /\ ~ \E n \in Where(d, IsHeading) :
               /\ Min(HeadingAt(d, Required[1])) < n
               /\ n < Min(HeadingAt(d, Required[2]))
    BY Zenon DEF handoff_structure
  <2>2. 1 \in 1..3 /\ 2 \in 1..3 /\ 3 \in 1..3
    OBVIOUS
  <2>. QED
    BY <1>1, <1>i, <1>j, <1>k, <2>1, <2>2, Zenon
<1>3. /\ i \in DOMAIN d /\ HeadingAt(d, "Current Task") = {i}
      /\ d[i] = Heading("Current Task")
      /\ j \in DOMAIN d /\ HeadingAt(d, "Execution Notes") = {j}
      /\ d[j] = Heading("Execution Notes")
      /\ k \in DOMAIN d /\ HeadingAt(d, "QA Feedback") = {k}
      /\ d[k] = Heading("QA Feedback")
  BY <1>2, <1>i, <1>j, <1>k, Once
<1>4. ASSUME NEW n \in DOMAIN d \ {i, j, k}, IsHeading(d[n])
      PROVE  d[n] = Heading("Other") /\ ~(i < n /\ n < j)
  <2>1. d[n] \in Line
    BY DEF Document
  <2>2. PICK h \in Headings : d[n] = Heading(h)
    <3>1. Blank.kind = "text" /\ Separator.kind = "text"
      BY DEF Blank, Separator, Text
    <3>. QED
      BY <1>4, <2>1, <3>1 DEF IsHeading, Line, Status
  <2>3. h \in {"Current Task", "Execution Notes", "QA Feedback", "Other"}
    <3>1. DOMAIN Required = {1, 2, 3}
      BY DEF Required
    <3>. QED
      BY <1>1, <3>1, Zenon DEF Headings, ToSet
  <2>4. h \notin {"Current Task", "Execution Notes", "QA Feedback"}
    BY <1>3, <2>2, HeadingWhere DEF HeadingLines
  <2>5. n \in Where(d, IsHeading)
    BY <1>4 DEF Where
  <2>. QED
    BY <1>2, <2>2, <2>3, <2>4, <2>5
<1>5. WellFormed(d)
  BY <1>2, <1>3, <1>4, Zenon DEF WellFormed
<1>6. Unambiguous(d)
  <2>1. 1 <= 1
    OBVIOUS
  <2>2. \A h \in {"Current Task", "QA Feedback"} :
           Cardinality(HeadingAt(d, h)) <= 1
    BY <1>2, <2>1, Zenon
  <2>. QED
    BY <2>2, Zenon DEF Unambiguous
<1>. QED
  BY <1>3, <1>5, <1>6, <1>k


-----------------------------------------------------------------------------
(* The steps.                                                              *)

DocumentsTyped == doc \in Document /\ submitted \in Document

\* What a run was submitted with lets a run begin.
SubmittedEligible ==
  stage \in Outstanding => read_status(submitted) \in Eligible

DocumentInv ==
  DocumentsTyped /\ SubmittedEligible /\ NotRouted /\ VerdictStands

LEMMA EditTyped ==
  ASSUME doc \in Document, Edit
  PROVE  doc' \in Document
<1>1. PICK i \in 1..(Len(doc) + 1) :
        \/ \E l \in Typed : doc' = InsertAt(doc, i, l)
        \/ i <= Len(doc) /\ \E l \in Typed : doc' = ReplaceAt(doc, i, l)
        \/ i <= Len(doc) /\ doc' = RemoveAt(doc, i)
  BY Zenon DEF Edit
<1>2. /\ Len(doc) \in Nat /\ i \in Int /\ i <= Len(doc) + 1 /\ 1 <= i
      /\ Typed \subseteq Line /\ \A n \in 1..Len(doc) : doc[n] \in Line
  BY DocumentAssumption DEF Document
<1>3. SubSeq(doc, 1, i - 1) \in Seq(Line)
  BY <1>2, SubSeqProperties
<1>4. /\ SubSeq(doc, i, Len(doc)) \in Seq(Line)
      /\ SubSeq(doc, i + 1, Len(doc)) \in Seq(Line)
  BY <1>2, SubSeqProperties
<1>5. ASSUME NEW l \in Typed, doc' = InsertAt(doc, i, l) PROVE doc' \in Document
  <2>1. <<l>> \in Seq(Line)
    BY <1>2
  <2>. QED
    BY <1>3, <1>4, <1>5, <2>1, ConcatProperties DEF InsertAt, Document
<1>6. ASSUME NEW l \in Typed, i <= Len(doc), doc' = ReplaceAt(doc, i, l)
      PROVE  doc' \in Document
  <2>1. l \in Line /\ i \in 1..Len(doc)
    BY <1>2, <1>6
  <2>. QED
    BY <1>6, <2>1, ExceptSeq, Zenon DEF ReplaceAt, Document
<1>7. CASE doc' = RemoveAt(doc, i)
  BY <1>3, <1>4, <1>7, ConcatProperties DEF RemoveAt, Document
<1>. QED
  BY <1>1, <1>5, <1>6, <1>7

LEMMA Associative ==
  ASSUME NEW a \in Document, NEW b \in Document, NEW c \in Document
  PROVE  (a \o b) \o c = a \o (b \o c)
BY ConcatAssociative DEF Document

LEMMA Joined ==
  ASSUME NEW a \in Document, NEW b \in Document
  PROVE  a \o b \in Document
BY ConcatProperties DEF Document

LEMMA Regrouped ==
  ASSUME NEW a \in Document, NEW b \in Document, NEW c \in Document,
         NEW d \in Document
  PROVE  (a \o (b \o c)) \o d = (a \o b) \o (c \o d)
<1>1. PICK bc \in Document : bc = b \o c
  BY Joined
<1>2. PICK cd \in Document : cd = c \o d
  BY Joined
<1>3. (a \o bc) \o d = a \o (bc \o d)
  BY Associative, SMTT(60)
<1>4. bc \o d = b \o cd
  BY <1>1, <1>2, Associative, SMTT(60)
<1>5. a \o (b \o cd) = (a \o b) \o cd
  BY Associative, SMTT(60)
<1>. QED
  BY <1>1, <1>2, <1>3, <1>4, <1>5, Zenon

\* The verdict stands in the document that is written.
LEMMA Judged ==
  ASSUME doc \in Document, NEW v \in Verdicts, NEW file \in QAFiles,
         NEW append \in BOOLEAN, QA(v, file, append)
  PROVE  doc' \in Document /\ VerdictStands'
<1>b. PICK body : body = render_qa(doc, file, append)
  OBVIOUS
<1>k. PICK keep \in BOOLEAN :
        keep = (append /\ read_status(doc) \in Verdicts)
  BY Zenon
<1>1. /\ handoff_structure(doc) /\ ~plan_changed_since_approval(doc)
      /\ doc' = IF keep THEN body ELSE replace_status(body, v)
      /\ handoff_structure(doc')
      /\ approved_plan_hash(doc') = approved_plan_hash(doc)
      /\ stage' = "judged" /\ approved' = approved
  BY <1>b, <1>k, Zenon DEF QA, Harmless
<1>2. Unambiguous(doc) /\ Min(HeadingAt(doc, "QA Feedback")) \in DOMAIN doc
  BY <1>1, Structured
<1>q. PICK q : q = Min(HeadingAt(doc, "QA Feedback"))
  OBVIOUS
<1>3. /\ q \in 1..Len(doc) /\ q \in Int /\ Len(doc) \in Nat
      /\ \A n \in 1..Len(doc) : doc[n] \in Line
  <2>1. Len(doc) \in Nat /\ DOMAIN doc = 1..Len(doc)
    BY LenProperties DEF Document
  <2>2. \A n \in 1..Len(doc) : doc[n] \in Line
    BY ElementOfSeq DEF Document
  <2>3. q \in 1..Len(doc)
    BY <1>2, <1>q, <2>1, Zenon
  <2>. QED
    BY <2>1, <2>2, <2>3
<1>4. /\ SubSeq(doc, 1, q) \in Document
      /\ SubSeq(doc, q + 1, Len(doc)) \in Document
      /\ SubSeq(doc, 1, q) \o SubSeq(doc, q + 1, Len(doc)) = doc
  <2>1. SubSeq(doc, 1, q) \in Seq(Line)
    BY <1>3, SubSeqProperties
  <2>2. SubSeq(doc, q + 1, Len(doc)) \in Seq(Line)
    BY <1>3, SubSeqProperties
  <2>3. SubSeq(doc, 1, q) \o SubSeq(doc, q + 1, Len(doc))
          = SubSeq(doc, 1, Len(doc))
    BY <1>3, ConcatAdjacentSubSeq DEF Document
  <2>. QED
    BY <2>1, <2>2, <2>3, SubSeqFull DEF Document
<1>5. file \in Document
  BY DocumentAssumption DEF Document
<1>t. PICK t : t = SubSeq(doc, q + 1, Len(doc))
  OBVIOUS
<1>g. PICK gap : gap = IF Len(t) > 1 /\ Last(t) = Blank THEN <<>> ELSE <<Blank>>
  OBVIOUS
<1>6. gap \in Document
  <2>1. Blank \in Line
    BY DEF Line
  <2>. QED
    BY <1>g, <2>1, EmptySeq DEF Document
<1>7. body = SubSeq(doc, 1, q) \o (IF append THEN t \o gap ELSE <<>>) \o file
  BY <1>b, <1>q, <1>t, <1>g, Zenon DEF render_qa
<1>8. body \in Document
  BY <1>4, <1>5, <1>6, <1>7, <1>t, ConcatProperties, EmptySeq DEF Document
<1>9. append => body = doc \o (gap \o file)
  <2>1. PICK a : a = SubSeq(doc, 1, q)
    OBVIOUS
  <2>2. a \in Document /\ t \in Document /\ a \o t = doc
    BY <1>4, <1>t, <2>1
  <2>3. /\ a \in Document /\ t \in Document /\ gap \in Document
        /\ file \in Document
    BY <1>5, <1>6, <2>2
  <2>4. (a \o (t \o gap)) \o file = (a \o t) \o (gap \o file)
    BY <2>3, Regrouped, SMTT(60)
  <2>5. append => body = (a \o (t \o gap)) \o file
    BY <1>7, <2>1, Zenon
  <2>. QED
    BY <2>2, <2>4, <2>5, Zenon
<1>10. doc' \in Document /\ read_status(doc') \in Verdicts \cup {""}
  <2>1. CASE keep
    <3>1. gap \o file \in Document
      BY <1>5, <1>6, ConcatProperties DEF Document
    <3>2. append /\ read_status(doc) \in Verdicts
      BY <1>k, <2>1
    <3>. QED
      BY <1>1, <1>8, <1>9, <2>1, <3>1, <3>2, VerdictRead
  <2>2. CASE ~keep
    <3>1. v \in Statuses /\ v # ""
      BY DEF Verdicts, Statuses, Eligible
    <3>. QED
      BY <1>1, <1>8, <2>2, <3>1, StatusReplaced
  <2>. QED
    BY <2>1, <2>2
<1>11. WellFormed(doc')
  BY <1>1, <1>10, Structured
<1>12. approved' = {} \/ approved_plan_hash(doc') \in approved'
  BY <1>1, <1>2, Zenon DEF plan_changed_since_approval
<1>. QED
  BY <1>1, <1>10, <1>11, <1>12 DEF VerdictStands

LEMMA DocumentInit == Init => DocumentInv
<1>. SUFFICES ASSUME Init PROVE DocumentInv
  OBVIOUS
<1>1. doc \in Document /\ submitted \in Document
  BY DocumentAssumption, EmptySeq DEF Init, Document
<1>. QED
  BY <1>1 DEF Init, DocumentInv, DocumentsTyped, SubmittedEligible, NotRouted,
     VerdictStands, Outstanding

LEMMA DocumentStep == DocumentInv /\ [Next]_vars => DocumentInv'
<1>. SUFFICES ASSUME DocumentInv, [Next]_vars PROVE DocumentInv'
  OBVIOUS
<1>. USE DEF Outstanding
<1>t. doc \in Document /\ submitted \in Document
  BY DEF DocumentInv, DocumentsTyped
<1>e. <<>> \in Document
  BY EmptySeq DEF Document
<1>1. CASE Edit
  <2>1. doc' \in Document
    BY <1>1, <1>t, EditTyped
  <2>2. /\ submitted' = submitted
        /\ IF stage \in Outstanding THEN stage' = stage ELSE stage' = "planned"
    BY <1>1, Zenon DEF Edit
  <2>. QED
    BY <1>t, <2>1, <2>2 DEF DocumentInv, DocumentsTyped, SubmittedEligible,
       NotRouted, VerdictStands
<1>2. CASE ExecutorStatus
  <2>1. /\ stage = "running" /\ stage' = stage /\ submitted' = submitted
        /\ \E s \in {"READY FOR QA", "APPROVED"} : doc' = replace_status(doc, s)
    BY <1>2 DEF ExecutorStatus
  <2>2. doc' \in Document
    BY <1>t, <2>1, StatusReplaced DEF Statuses, Eligible
  <2>. QED
    BY <1>t, <2>1, <2>2 DEF DocumentInv, DocumentsTyped, SubmittedEligible,
       NotRouted, VerdictStands
<1>3. CASE Approve
  <2>1. /\ doc' = replace_status(doc, "READY FOR EXECUTION")
        /\ stage' = "planned" /\ submitted' = submitted
    BY <1>3 DEF Approve
  <2>2. doc' \in Document
    BY <1>t, <2>1, StatusReplaced DEF Statuses, Eligible
  <2>. QED
    BY <1>t, <2>1, <2>2 DEF DocumentInv, DocumentsTyped, SubmittedEligible,
       NotRouted, VerdictStands
<1>4. CASE Submit
  <2>1. /\ read_status(doc) \in Eligible /\ submitted' = doc /\ doc' = doc
        /\ stage' = "running"
    BY <1>4 DEF Submit
  <2>. QED
    BY <1>t, <2>1 DEF DocumentInv, DocumentsTyped, SubmittedEligible,
       NotRouted, VerdictStands
<1>5. CASE evaluate_transition
  <2>1. /\ stage = "running" /\ stage' \in {"completed", "failed"}
        /\ submitted' = submitted /\ doc' = doc
    BY <1>5 DEF evaluate_transition
  <2>. QED
    BY <1>t, <2>1 DEF DocumentInv, DocumentsTyped, SubmittedEligible,
       NotRouted, VerdictStands
<1>6. CASE SetReadyForQA
  <2>1. /\ doc' \in {doc, replace_status(doc, "READY FOR QA")}
        /\ stage' = "accepted" /\ submitted' = <<>>
    BY <1>6 DEF SetReadyForQA
  <2>2. doc' \in Document
    BY <1>t, <2>1, StatusReplaced DEF Statuses, Eligible
  <2>. QED
    BY <1>e, <2>1, <2>2 DEF DocumentInv, DocumentsTyped, SubmittedEligible,
       NotRouted, VerdictStands
<1>7. CASE RestoreSubmittedStatus
  <2>1. PICK s : s = read_status(submitted)
    OBVIOUS
  <2>2. /\ stage = "failed" /\ stage' = "returned" /\ submitted' = <<>>
        /\ doc' = IF s \in {"", read_status(doc)} THEN doc
                  ELSE replace_status(doc, s)
    BY <1>7, <2>1, Zenon DEF RestoreSubmittedStatus
  <2>3. s \in Eligible
    BY <2>1, <2>2 DEF DocumentInv, SubmittedEligible
  <2>4. s \in Statuses /\ s # ""
    BY <2>3 DEF Statuses, Eligible
  <2>5. replace_status(doc, s) \in Document
        /\ read_status(replace_status(doc, s)) \in {"", s}
    BY <1>t, <2>4, StatusReplaced
  <2>6. doc' \in Document /\ read_status(doc') \in Eligible \cup {""}
    BY <1>t, <2>2, <2>3, <2>4, <2>5
  <2>. QED
    BY <1>e, <2>2, <2>6 DEF DocumentInv, DocumentsTyped, SubmittedEligible,
       NotRouted, VerdictStands
<1>8. ASSUME NEW v \in Verdicts, NEW file \in QAFiles, NEW append \in BOOLEAN,
             QA(v, file, append)
      PROVE  DocumentInv'
  <2>1. doc' \in Document /\ VerdictStands'
    BY <1>8, <1>t, Judged
  <2>2. stage' = "judged" /\ submitted' = submitted
    BY <1>8 DEF QA
  <2>. QED
    BY <1>t, <2>1, <2>2 DEF DocumentInv, DocumentsTyped, SubmittedEligible,
       NotRouted
<1>9. CASE Archive
  <2>1. doc' = doc /\ stage' = "planned" /\ submitted' = submitted
    BY <1>9 DEF Archive
  <2>. QED
    BY <1>t, <2>1 DEF DocumentInv, DocumentsTyped, SubmittedEligible,
       NotRouted, VerdictStands
<1>10. CASE UNCHANGED vars
  BY <1>10 DEF vars, DocumentInv, DocumentsTyped, SubmittedEligible,
     NotRouted, VerdictStands
<1>. QED
  BY <1>1, <1>2, <1>3, <1>4, <1>5, <1>6, <1>7, <1>8, <1>9, <1>10, Zenon DEF Next

LEMMA AlwaysDocumentInv == Spec => []DocumentInv
<1>. QED
  BY DocumentInit, DocumentStep, PTL DEF Spec

-----------------------------------------------------------------------------
(* The theorems.                                                           *)

\* After an unsuccessful delivery, whatever the Executor wrote and however long
\* the document is, no reader finds a Status in it that routes the Planner to QA
\* or the human to the merge (_restore_submitted_status).
THEOREM NotRoutedHolds == Spec => []NotRouted
<1>1. DocumentInv => NotRouted
  BY DEF DocumentInv
<1>. QED
  BY <1>1, AlwaysDocumentInv, PTL

\* After `handoff qa', with whatever file and in whatever document, the three
\* headings are in order, the plan is the approved one, and the Status read is
\* a verdict, or there is none (cmd_qa, render_qa).
THEOREM VerdictStandsHolds == Spec => []VerdictStands
<1>1. DocumentInv => VerdictStands
  BY DEF DocumentInv
<1>. QED
  BY <1>1, AlwaysDocumentInv, PTL
====
