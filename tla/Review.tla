-------------------------------- MODULE Review --------------------------------
(***************************************************************************)
(* What a chapter's run hands from step to step, while its author works on    *)
(* the same plans, drafts and issues through the API: the plan and its         *)
(* options (generation_service), the option chosen at the approval             *)
(* (workflow_service), the draft, its issues (quality_service) and its canon   *)
(* patch.  One action is one transaction; how a run's steps are claimed and     *)
(* attempted is in Workflow, what overlapping sessions do to rows in Canon.     *)
(***************************************************************************)
EXTENDS Integers, Sequences, FiniteSets

CONSTANTS
    OptionName,  \* of a plan's options
    NoOption,    \* none is chosen
    IssueStatus, \* open, resolved, ignored
    IssueKind,   \* of the issues that the gate counts: continuity errors, high fact risks
    MaxPlan,     \* bound on the plans made
    MaxDraft     \* bound on the drafts written

PlanId == 1 .. MaxPlan
DraftId == 1 .. MaxDraft
None == 0 \* in place of an id

PlotOption == [plan : PlanId, name : OptionName]
Choice == PlotOption \cup {NoOption}

ASSUME ReviewBounds == MaxPlan \in Nat /\ MaxDraft \in Nat
ASSUME ReviewStatus == "open" \in IssueStatus /\ IssueStatus \subseteq {"open", "resolved", "ignored"}
ASSUME ReviewOptions == NoOption \notin PlotOption

PlanRow == [id : PlanId, selected : Choice]

\* The patch of a draft is pending while the draft is one, and rejected when it is superseded.
DraftRow == [id : DraftId, plan : PlanId, option : Choice,
             status : {"draft", "accepted", "superseded", "rejected"}]

IssueRow == [draft : DraftId, kind : IssueKind, status : IssueStatus]

\* The steps between which a plan or a draft is handed on.
RunSteps ==
    <<"plan", "plot_approval", "write", "quality_gate", "draft_approval", "canon_commit">>

\* What the run is at and has: option is a parameter, the others are results of steps; the counts
\* of the write step are zero or not.
ChapterRun ==
    [step : {RunSteps[i] : i \in DOMAIN RunSteps} \cup {"finished"}, failed : BOOLEAN,
     plan : PlanId \cup {None}, option : Choice, draft : DraftId \cup {None},
     counted : BOOLEAN, passed : BOOLEAN]

VARIABLES
    plans,  \* rows of plot_plans
    drafts, \* rows of generations
    issues, \* rows of continuity_issues and fact_risks
    chapter \* the run

reviewVars == <<plans, drafts, issues, chapter>>

\* Rows and the run are well formed; ids are not used twice.
ReviewTypeOK ==
    /\ plans \subseteq PlanRow
    /\ drafts \subseteq DraftRow
    /\ issues \subseteq IssueRow
    /\ chapter \in ChapterRun
    /\ \A p, q \in plans : p.id = q.id => p = q
    /\ \A d, e \in drafts : d.id = e.id => d = e

ReviewInit ==
    /\ plans = {} /\ drafts = {} /\ issues = {}
    /\ chapter = [step |-> "plan", failed |-> FALSE, plan |-> None, option |-> NoOption,
                  draft |-> None, counted |-> FALSE, passed |-> FALSE]

-----------------------------------------------------------------------------
(* Rows *)

PlanOf(id) == CHOOSE p \in plans : p.id = id
DraftOf(id) == CHOOSE d \in drafts : d.id = id

\* An option of another plan is refused wherever one is chosen or used.
Belongs(option, id) == option.plan = id

WithSelected(id, choice) == {p \in plans : p.id # id} \cup {[id |-> id, selected |-> choice]}

WithStatus(rows, id, status) ==
    {IF d.id = id THEN [d EXCEPT !.status = status] ELSE d : d \in rows}

\* A new draft with the issues found in it.
StoreDraft(rows, plan, option, kinds) ==
    LET id == Cardinality(drafts) + 1 IN
    /\ id \in DraftId
    /\ drafts' = rows \cup {[id |-> id, plan |-> plan, option |-> option,
                             status |-> "draft"]}
    /\ issues' = issues \cup [draft : {id}, kind : kinds, status : {"open"}]

-----------------------------------------------------------------------------
(* The run *)

OnRunStep(step) == chapter.step = step /\ ~chapter.failed

\* The last attempt of a step raises, as it does on a draft too close to a source, or the author
\* rejects what the run waits for.
StepFails ==
    /\ chapter.step # "finished" /\ ~chapter.failed
    /\ chapter' = [chapter EXCEPT !.failed = TRUE]
    /\ UNCHANGED <<plans, drafts, issues>>

MakePlan ==
    LET id == Cardinality(plans) + 1 IN
    /\ OnRunStep("plan")
    /\ id \in PlanId
    /\ plans' = plans \cup {[id |-> id, selected |-> NoOption]}
    /\ chapter' = [chapter EXCEPT !.plan = id, !.step = "plot_approval"]
    /\ UNCHANGED <<drafts, issues>>

\* Approval without an option leaves the parameter as it is.
ApprovePlot ==
    /\ OnRunStep("plot_approval")
    /\ chapter' = [chapter EXCEPT !.step = "write"]
    /\ UNCHANGED <<plans, drafts, issues>>

ApproveOption(option) ==
    /\ OnRunStep("plot_approval")
    /\ Belongs(option, chapter.plan)
    /\ plans' = WithSelected(chapter.plan, option)
    /\ chapter' = [chapter EXCEPT !.option = option, !.step = "write"]
    /\ UNCHANGED <<drafts, issues>>

\* The parameter goes before what is selected in the row.
Used == IF chapter.option # NoOption THEN chapter.option ELSE PlanOf(chapter.plan).selected

\* The choice is checked against the plan before the scene is written; one that belongs to an
\* earlier plan fails every attempt (StepFails).
WriteDraft ==
    /\ OnRunStep("write")
    /\ Used # NoOption => Belongs(Used, chapter.plan)
    /\ plans' = WithSelected(chapter.plan, Used)
    /\ \E kinds \in SUBSET IssueKind :
          /\ StoreDraft(drafts, chapter.plan, Used, kinds)
          /\ chapter' = [chapter EXCEPT !.step = "quality_gate",
                                        !.draft = Cardinality(drafts) + 1,
                                        !.counted = kinds # {}]

QualityGate ==
    /\ OnRunStep("quality_gate")
    /\ chapter' = [chapter EXCEPT !.passed = ~chapter.counted, !.step = "draft_approval"]
    /\ UNCHANGED <<plans, drafts, issues>>

\* By the author, or automatically if the gate was passed.
ApproveDraft ==
    /\ OnRunStep("draft_approval")
    /\ chapter' = [chapter EXCEPT !.step = "canon_commit"]
    /\ UNCHANGED <<plans, drafts, issues>>

\* A patch that is not pending is refused (StepFails).
CommitDraft ==
    /\ OnRunStep("canon_commit")
    /\ DraftOf(chapter.draft).status = "draft"
    /\ drafts' = WithStatus(drafts, chapter.draft, "accepted")
    /\ chapter' = [chapter EXCEPT !.step = "finished"]
    /\ UNCHANGED <<plans, issues>>

Position(step) == CHOOSE i \in DOMAIN RunSteps : RunSteps[i] = step

\* Mutant: only the state of the steps is reset, not the results.
ResetSteps(run, step) == [run EXCEPT !.step = step, !.failed = FALSE]

\* The results of the steps from the given one on are dropped; parameters are kept.
Reset(run, step) ==
    LET keeps(name) == Position(name) < Position(step) IN
    [run EXCEPT !.step = step, !.failed = FALSE,
                !.plan = IF keeps("plan") THEN @ ELSE None,
                !.draft = IF keeps("write") THEN @ ELSE None,
                !.counted = @ /\ keeps("write"),
                !.passed = @ /\ keeps("quality_gate")]

\* From the failed step or an earlier one.
Retry ==
    /\ chapter.failed
    /\ \E i \in 1 .. Position(chapter.step) : chapter' = Reset(chapter, RunSteps[i])
    /\ UNCHANGED <<plans, drafts, issues>>

-----------------------------------------------------------------------------
(* The author *)

SelectOption(id, option) ==
    /\ Belongs(option, id)
    /\ plans' = WithSelected(id, option)
    /\ UNCHANGED <<drafts, issues, chapter>>

AcceptDraft(d) ==
    /\ d.status = "draft"
    /\ drafts' = WithStatus(drafts, d.id, "accepted")
    /\ UNCHANGED <<plans, issues, chapter>>

RejectDraft(d) ==
    /\ d.status \notin {"accepted", "rejected"}
    /\ drafts' = WithStatus(drafts, d.id, "rejected")
    /\ UNCHANGED <<plans, issues, chapter>>

\* A revision takes the plan and the option of its draft, and the place of one that is undecided.
ReviseDraft(d) ==
    /\ d.status # "accepted"
    /\ \E kinds \in SUBSET IssueKind :
          StoreDraft(IF d.status = "draft" THEN WithStatus(drafts, d.id, "superseded") ELSE drafts,
                     d.plan, d.option, kinds)
    /\ UNCHANGED <<plans, chapter>>

\* From an issue its draft is revised; the issue stays as it is.
ReviseFromIssue(i) == ReviseDraft(DraftOf(i.draft))

UpdateIssue(i) ==
    /\ \E status \in IssueStatus :
          issues' = (issues \ {i}) \cup {[i EXCEPT !.status = status]}
    /\ UNCHANGED <<plans, drafts, chapter>>

ReviewNext ==
    \/ MakePlan \/ ApprovePlot \/ WriteDraft \/ QualityGate \/ ApproveDraft \/ CommitDraft
    \/ StepFails \/ Retry
    \/ \E option \in PlotOption : ApproveOption(option)
    \/ \E p \in plans : \E option \in PlotOption : SelectOption(p.id, option)
    \/ \E d \in drafts : AcceptDraft(d) \/ RejectDraft(d) \/ ReviseDraft(d)
    \/ \E i \in issues : ReviseFromIssue(i) \/ UpdateIssue(i)

ReviewSpec == ReviewInit /\ [][ReviewNext]_reviewVars

-----------------------------------------------------------------------------
\* Through failures, retries from any step and the author's own edits, the draft that a run
\* carries is one written from the plan it carries, with the option its author chose for that
\* plan and never one of an earlier plan; what the gate decided is about the issues of that
\* draft; and a finished run has put that draft into canon.
WrittenAsChosen ==
    chapter.draft # None =>
        LET d == DraftOf(chapter.draft) IN
        /\ d.plan = chapter.plan
        /\ d.option # NoOption => d.option.plan = d.plan
        /\ chapter.option # NoOption => d.option = chapter.option
        /\ chapter.passed => \A i \in issues : i.draft # d.id
        /\ chapter.step = "finished" => d.status = "accepted"

===============================================================================
