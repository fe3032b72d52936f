------------------------- MODULE MCHandoffDocument -------------------------
(***************************************************************************)
(* A small HANDOFF.md, and what is typed into it, for TLC.                 *)
(***************************************************************************)
EXTENDS HandoffDocument

MCTemplate ==
  <<Heading("Current Task"), Status("DRAFT"), Text("plan"), Separator,
    Heading("Execution Notes"),
    Heading("QA Feedback"), Text("feedback")>>

MCTyped ==
  {Heading("QA Feedback"), Heading("Other"),
   Status(""), Status("READY FOR QA"), Blank, Text("READY FOR QA")}

MCQAFiles ==
  {<<Status("DRAFT")>>, <<Heading("Other")>>, <<Heading("Execution Notes")>>}
=============================================================================
