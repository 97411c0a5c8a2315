-------------------------------- MODULE MCReportLife --------------------------------
(* ReportLife for TLC: two events and a list that was cut, two sections, a few  *)
(* drafts; three marks, one of them praise.                                     *)
EXTENDS ReportInvariants

CONSTANTS e1, e2, o1, m1, m2, m3

Words(numbers) == [denies |-> FALSE, claims |-> numbers, numbers |-> numbers, discloses |-> FALSE]
Denial == [denies |-> TRUE, claims |-> {}, numbers |-> {}, discloses |-> FALSE]

MCSections == {"summary", "limitations"}
MCEventText == Words({})

Counts == [id \in Evidence |-> IF id = o1 THEN {26, 60} ELSE {}]

Package(evidence, unknowns, confidences) ==
  [evidence |-> evidence, unknowns |-> unknowns, confidences |-> confidences,
   counts |-> Counts, shortened |-> {o1}]

MCPackages ==
  {Package({e1, e2, o1}, TRUE, {"high", "low"}), Package({e1, o1}, FALSE, {"low"})}

MCTemplates ==
  {[declared |-> MCSections, required |-> {"summary"}],
   [declared |-> {"summary"}, required |-> {"summary"}]}

Item(text, refs) == [text |-> text, refs |-> refs, counters |-> {}]
Section(body, items) == [body |-> body, items |-> items]
Draft(sections) == [sections |-> sections, repeats |-> FALSE]

Summary == Section(NoText, {Item(Words({25}), {o1})})
Quiet == Section(Denial, {})

MCDrafts ==
  {Draft([summary |-> Section(NoText, {Item(Words({26}), {o1})})]),
   Draft([summary |-> Summary]),
   Draft([summary |-> Section(Words({26}), {Item(Words({}), {e1})}), limitations |-> Quiet]),
   Draft([summary |-> Section(NoText, {}), limitations |-> Section(NoText, {Item(Denial, {})})]),
   Draft([limitations |-> Section(Words({}), {})]),
   [sections |-> [summary |-> Summary], repeats |-> TRUE]}

\* The first mark is taken back and its events are delivered twice; the last is
\* praise.
MCMaxEvents == [mark \in Marks |-> IF mark = m1 THEN 2 ELSE 1]
MCDeliveries == [mark \in Marks |-> IF mark = m1 THEN 2 ELSE 1]
=============================================================================
