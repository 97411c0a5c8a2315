------------------------------- MODULE ReportChecks -------------------------------
(***************************************************************************)
(* The report of an investigation that has its evidence package: the       *)
(* writer's draft, what it must not be, the events put back into it        *)
(* (services/investigation.py), the checks that hold it against the        *)
(* package (evals/properties.py) and the findings on record                *)
(* (graph/report_nodes.py).                                                *)
(*                                                                         *)
(* A text is what the checks read in it: whether it only denies that there *)
(* is anything to say, which counts it claims, which numbers it holds and  *)
(* whether it speaks of something left out.                                *)
(***************************************************************************)
EXTENDS Naturals, FiniteSets

CONSTANTS
  Events,            \* ids of evidence of type "event"
  Others,            \* ids of other evidence
  Sections,          \* section ids, "limitations" among them
  Packages,          \* the evidence packages an investigation can end with
  Templates,         \* the outputs of the templates
  Drafts,            \* what the writer may answer
  EventText,         \* the text an event that is put back gets
  NoText,            \* a section without a body
  ReconcileLimit,    \* how many events are put back
  FindingsCapacity   \* InvestigationState: report_findings

Evidence == Events \union Others

Texts ==
  [denies : BOOLEAN, claims : SUBSET Nat, numbers : SUBSET Nat, discloses : BOOLEAN]

Items == [text : Texts, refs : SUBSET Evidence, counters : SUBSET Evidence]

Contents == [body : Texts \union {NoText}, items : SUBSET Items]

\* counts are the answers to "how many" that a piece of evidence offers, and
\* shortened is the evidence that left rows behind.
PackageRecords ==
  [evidence : SUBSET Evidence, unknowns : BOOLEAN,
   confidences : SUBSET {"high", "medium", "low"},
   counts : [Evidence -> SUBSET Nat], shortened : SUBSET Evidence]

TemplateRecords == [declared : SUBSET Sections, required : SUBSET Sections]

\* The sections of a report, by their id.
AreSections(sections) ==
  /\ DOMAIN sections \subseteq Sections
  /\ sections \in [DOMAIN sections -> Contents]

\* A report has sections; repeats: a section id occurs twice.
IsDraft(answer) ==
  /\ answer = [sections |-> answer.sections, repeats |-> answer.repeats]
  /\ AreSections(answer.sections) /\ DOMAIN answer.sections # {}

ASSUME ReportAssumption ==
  /\ IsFiniteSet(Evidence)
  /\ Events \intersect Others = {}
  /\ "limitations" \in Sections
  /\ NoText \notin Texts
  /\ EventText \in Texts
  /\ Packages \subseteq PackageRecords
  /\ Templates \subseteq TemplateRecords
  /\ \A answer \in Drafts : IsDraft(answer)
  /\ ReconcileLimit \in Nat
  /\ FindingsCapacity \in Nat

VARIABLES
  stage,     \* what is next for the report, or how it ended
  package,   \* evidence_package
  template,  \* template_output
  draft,     \* the sections as the writer gave them
  report,    \* the sections of the report
  findings   \* report_findings, and with them report_rejections and unknowns

content == <<package, template, draft, report, findings>>

-----------------------------------------------------------------------------
(* Reading a report. *)

ItemsOf(sections) == UNION {sections[id].items : id \in DOMAIN sections}

CitedAsSupport(sections) == UNION {item.refs : item \in ItemsOf(sections)}
Cited(sections) == CitedAsSupport(sections) \union UNION {item.counters : item \in ItemsOf(sections)}

TextsOf(section) ==
  {item.text : item \in section.items} \union ({section.body} \ {NoText})

\* Altered: whatever is written counts, a denial too.
Stated_AnyText(sections) ==
  "limitations" \in DOMAIN sections /\ TextsOf(sections["limitations"]) # {}

\* The limitations say something.  The texts are joined before they are looked
\* up among the denials, so two texts are never a denial.
Stated(sections) ==
  /\ "limitations" \in DOMAIN sections
  /\ LET limits == sections["limitations"]
     IN  /\ TextsOf(limits) # {}
         /\ TextsOf(limits) = {limits.body} /\ limits.items = {} => ~limits.body.denies
         /\ limits.body = NoText /\ Cardinality(limits.items) = 1 =>
              \A item \in limits.items : ~item.text.denies

\* _validate_report
Acceptable(answer) ==
  /\ ~answer.repeats
  /\ DOMAIN answer.sections \subseteq template.declared
  /\ Cited(answer.sections) \subseteq package.evidence

-----------------------------------------------------------------------------
(* Events that the writer left out. *)

Uncited(sections) == (package.evidence \intersect Events) \ Cited(sections)

PutBack(event) == [text |-> EventText, refs |-> {event}, counters |-> {}]

WithLimits(sections, added) ==
  [id \in DOMAIN sections \union {"limitations"} |->
     IF id \notin DOMAIN sections THEN [body |-> NoText, items |-> added]
     ELSE IF id = "limitations" THEN [sections[id] EXCEPT !.items = @ \union added]
     ELSE sections[id]]

\* Altered: only a limitations section that the writer has made is filled.
Reconciled_ExistingOnly(sections) ==
  IF Uncited(sections) = {} \/ "limitations" \notin DOMAIN sections
    THEN {sections}
    ELSE {WithLimits(sections, {PutBack(event) : event \in events}) :
            events \in {some \in SUBSET Uncited(sections) :
              \/ some = Uncited(sections) /\ Cardinality(some) <= ReconcileLimit
              \/ Cardinality(some) = ReconcileLimit}}

\* What _reconcile_evidence can return: events that no section cites are put
\* under the limitations, as many as it allows and if the template has them.
Reconciled(sections) ==
  IF Uncited(sections) = {} \/ "limitations" \notin template.declared
    THEN {sections}
    ELSE {WithLimits(sections, {PutBack(event) : event \in events}) :
            events \in {some \in SUBSET Uncited(sections) :
              \/ some = Uncited(sections) /\ Cardinality(some) <= ReconcileLimit
              \/ Cardinality(some) = ReconcileLimit}}

-----------------------------------------------------------------------------
(* The checks: what each finds in a report. *)

UnresolvedRefs(sections) ==
  {<<"evidence_refs_resolve", ref>> : ref \in Cited(sections) \ package.evidence}

\* A count is judged against the evidence cited for it, if that counts anything.
Grounded(item) == UNION {package.counts[ref] : ref \in item.refs}
UngroundedCounts(sections) ==
  UNION {{<<"counts_are_grounded", claim>> :
            claim \in {c \in item.text.claims : Grounded(item) # {} /\ c \notin Grounded(item)}} :
           item \in ItemsOf(sections)}

\* A shortened list that is cited: some text speaks of an omission, or one of
\* the counts of the list is among the numbers of the report.
AllTexts(sections) == UNION {TextsOf(sections[id]) : id \in DOMAIN sections}
HiddenOmissions(sections) ==
  {<<"omission_is_disclosed", ref>> :
     ref \in {r \in package.shortened \intersect CitedAsSupport(sections) :
       \A text \in AllTexts(sections) :
         ~text.discloses /\ text.numbers \intersect package.counts[r] = {}}}

\* A report without the section passes: there is nothing it could deny.
UnadmittedUnknowns(sections) ==
  {<<"unknowns_reach_limitations", id>> :
     id \in {s \in DOMAIN sections \intersect {"limitations"} : package.unknowns /\ ~Stated(sections)}}

Empty(sections) == {id \in template.required \ {"limitations"} :
                      id \in DOMAIN sections => TextsOf(sections[id]) = {}}
UnansweredSections(sections) ==
  {<<"required_sections_are_answered", id>> : id \in {s \in Empty(sections) : ~Stated(sections)}}

\* Only what reached "medium" at least counts as supported.
Unsupported == package.confidences # {} /\ package.confidences \subseteq {"low"}
UnadmittedCause(sections) ==
  {<<"unsupported_cause_is_admitted", id>> :
     id \in {s \in {"limitations"} : Unsupported /\ ~Stated(sections)}}

FindingsOf(sections) ==
  UnresolvedRefs(sections) \union UngroundedCounts(sections) \union HiddenOmissions(sections)
    \union UnadmittedUnknowns(sections) \union UnansweredSections(sections)
    \union UnadmittedCause(sections)

-----------------------------------------------------------------------------
(* The steps. *)

Stages == {"report_writer", "report_eval", "publish", "posted", "recorded"}
ReportEnds == {"raised", "invalid"}

NoReport == <<>>

\* A draft that cites or holds what it must not raises out of the graph.
WriteReport ==
  /\ stage = "report_writer"
  /\ \E answer \in Drafts :
       IF Acceptable(answer)
         THEN /\ draft' = answer.sections
              /\ report' \in Reconciled(answer.sections)
              /\ stage' = "report_eval"
         ELSE /\ stage' = "raised"
              /\ UNCHANGED <<draft, report>>
  /\ UNCHANGED <<package, template, findings>>

\* Altered: the findings are stored without a look at how many there are.
EvalReport_Unbounded ==
  /\ stage = "report_eval"
  /\ findings' = FindingsOf(report)
  /\ stage' = "publish"
  /\ UNCHANGED <<package, template, draft, report>>

\* The report goes out as it stands; more findings than the state can hold cost it.
EvalReport ==
  /\ stage = "report_eval"
  /\ findings' = FindingsOf(report)
  /\ stage' = IF Cardinality(findings') <= FindingsCapacity THEN "publish" ELSE "invalid"
  /\ UNCHANGED <<package, template, draft, report>>
=============================================================================
