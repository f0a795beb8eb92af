----------------------------- MODULE AgentProofs ------------------------------
(***************************************************************************)
(* A chapter's drafts, the material of its prompt and the outside calls    *)
(* of a research request, for any options, texts, budgets, pages and       *)
(* bounds.                                                                 *)
(***************************************************************************)
EXTENDS Review, Context, Research, FoldTheorems

(***************************************************************************)
(* Review.  A draft is written from the plot that was chosen.  The ids     *)
(* of a table's rows are 1 .. n, so a new row has an id of its own; a      *)
(* run has a plan and a draft according to the step it is at, and its      *)
(* draft is one that was written for its plan as that was when it was      *)
(* approved.                                                               *)
(***************************************************************************)

RowIds(table) == {row.id : row \in table}

\* Ids are given in order, each to one row.
Numbered(table) ==
    /\ \A p, q \in table : p.id = q.id => p = q
    /\ \E n \in Nat : RowIds(table) = 1 .. n

\* What the run has, by the step it is at.
RunOK ==
    /\ chapter.failed => chapter.step # "finished"
    /\ chapter.plan = None <=> chapter.step = "plan"
    /\ chapter.plan # None => chapter.plan \in RowIds(plans)
    /\ chapter.draft # None <=>
          chapter.step \in {"quality_gate", "draft_approval", "canon_commit", "finished"}
    /\ chapter.draft # None => chapter.draft \in RowIds(drafts)
    /\ chapter.passed =>
          chapter.step \in {"draft_approval", "canon_commit", "finished"} /\ ~chapter.counted

\* The draft of the run, as it was written.
DraftOK ==
    \A d \in drafts :
        /\ d.option # NoOption => d.option.plan = d.plan
        /\ d.id = chapter.draft =>
              /\ d.plan = chapter.plan
              /\ chapter.option # NoOption => d.option = chapter.option
              /\ ~chapter.counted => \A i \in issues : i.draft # d.id
              /\ chapter.step = "finished" => d.status = "accepted"

\* No issue is of a draft that is not there.
IssuesOK == \A i \in issues : i.draft \in RowIds(drafts)

ReviewInv == ReviewTypeOK /\ Numbered(plans) /\ Numbered(drafts) /\ RunOK /\ DraftOK /\ IssuesOK

-----------------------------------------------------------------------------
(* Rows and their ids *)

LEMMA NumberedCounts ==
    ASSUME NEW table, Numbered(table)
    PROVE  Cardinality(table) \in Nat /\ RowIds(table) = 1 .. Cardinality(table)
  <1>1. PICK n \in Nat : RowIds(table) = 1 .. n
    BY DEF Numbered
  <1>. DEFINE f == [i \in 1 .. n |-> CHOOSE row \in table : row.id = i]
  <1>2. ASSUME NEW i \in 1 .. n
        PROVE  f[i] \in table /\ f[i].id = i
    <2>1. \E row \in table : row.id = i
      BY <1>1 DEF RowIds
    <2>. QED
      BY <2>1
  <1>3. ASSUME NEW row \in table
        PROVE  row.id \in 1 .. n /\ f[row.id] = row
    <2>1. row.id \in 1 .. n
      BY <1>1 DEF RowIds
    <2>. QED
      BY <1>2, <2>1 DEF Numbered
  <1>. HIDE DEF f
  <1>4. f \in [1 .. n -> table]
    <2>1. f = [i \in 1 .. n |-> f[i]]
      BY DEF f
    <2>. QED
      BY <1>2, <2>1
  <1>5. f \in Bijection(1 .. n, table)
    BY <1>2, <1>3, <1>4 DEF Bijection, Injection, Surjection, IsInjective
  <1>6. ExistsBijection(1 .. n, table)
    BY <1>5 DEF ExistsBijection
  <1>7. Cardinality(table) = n
    BY <1>6, FS_CountingElements
  <1>. QED
    BY <1>1, <1>7

LEMMA NextId ==
    ASSUME NEW table, Numbered(table), NEW row, row.id = Cardinality(table) + 1
    PROVE  /\ row.id \notin RowIds(table)
           /\ Numbered(table \cup {row}) /\ RowIds(table \cup {row}) = RowIds(table) \cup {row.id}
  <1>. PICK n : n = Cardinality(table)
    OBVIOUS
  <1>1. n \in Nat /\ RowIds(table) = 1 .. n
    BY NumberedCounts
  <1>2. RowIds(table \cup {row}) = RowIds(table) \cup {row.id}
    BY DEF RowIds
  <1>3. row.id \notin RowIds(table)
    BY <1>1
  <1>4. RowIds(table \cup {row}) = 1 .. (n + 1)
    <2>1. \A i : i \in 1 .. (n + 1) <=> i \in 1 .. n \/ i = n + 1
      BY <1>1
    <2>. QED
      BY <1>1, <1>2, <2>1
  <1>5. \A p \in table : p.id # row.id
    BY <1>3 DEF RowIds
  <1>6. \A p, q \in table \cup {row} : p.id = q.id => p = q
    BY <1>5 DEF Numbered
  <1>7. n + 1 \in Nat
    BY <1>1
  <1>. QED
    BY <1>2, <1>3, <1>4, <1>6, <1>7 DEF Numbered

LEMMA SelectedRows ==
    ASSUME plans \in SUBSET PlanRow, Numbered(plans), NEW id \in RowIds(plans), NEW choice \in Choice
    PROVE  /\ WithSelected(id, choice) \in SUBSET PlanRow /\ Numbered(WithSelected(id, choice))
           /\ RowIds(WithSelected(id, choice)) = RowIds(plans)
  <1>. DEFINE row == [id |-> id, selected |-> choice]
              new == {p \in plans : p.id # id} \cup {row}
  <1>1. row \in PlanRow /\ row.id = id
    BY DEF RowIds, PlanRow
  <1>. HIDE DEF row
  <1>2. new \in SUBSET PlanRow /\ RowIds(new) = RowIds(plans)
    BY <1>1 DEF RowIds
  <1>3. \A p, q \in new : p.id = q.id => p = q
    BY <1>1 DEF Numbered
  <1>. QED
    BY <1>2, <1>3 DEF Numbered, WithSelected, row

Status == {"draft", "accepted", "superseded", "rejected"}

LEMMA StatusRows ==
    ASSUME drafts \in SUBSET DraftRow, Numbered(drafts), NEW id, NEW status \in Status,
           NEW rows, rows = WithStatus(drafts, id, status)
    PROVE  /\ rows \in SUBSET DraftRow /\ Numbered(rows) /\ RowIds(rows) = RowIds(drafts)
           /\ \A e \in rows : \E d \in drafts :
                 /\ e.id = d.id /\ e.plan = d.plan /\ e.option = d.option
                 /\ e.status = IF d.id = id THEN status ELSE d.status
  <1>1. ASSUME NEW d \in drafts
        PROVE  LET e == IF d.id = id THEN [d EXCEPT !.status = status] ELSE d
               IN  /\ e \in DraftRow /\ e.id = d.id /\ e.plan = d.plan /\ e.option = d.option
                   /\ e.status = IF d.id = id THEN status ELSE d.status
    BY DEF DraftRow, Status
  <1>2. \A e \in rows : e \in DraftRow /\ \E d \in drafts :
           /\ e = IF d.id = id THEN [d EXCEPT !.status = status] ELSE d
           /\ e.id = d.id /\ e.plan = d.plan /\ e.option = d.option
           /\ e.status = IF d.id = id THEN status ELSE d.status
    BY <1>1 DEF WithStatus
  <1>3. \A d \in drafts : \E e \in rows : e.id = d.id
    BY <1>1 DEF WithStatus
  <1>4. RowIds(rows) = RowIds(drafts)
    BY <1>2, <1>3 DEF RowIds
  <1>5. \A e, g \in rows : e.id = g.id => e = g
    BY <1>2 DEF Numbered
  <1>6. Numbered(rows)
    BY <1>4, <1>5 DEF Numbered
  <1>. QED
    BY <1>2, <1>4, <1>6

\* A new draft has a new id, and its issues are its own.
LEMMA DraftStored ==
    ASSUME ReviewInv, NEW rows \in SUBSET DraftRow, Numbered(rows), RowIds(rows) = RowIds(drafts),
           NEW plan \in PlanId, NEW option \in Choice, NEW kinds \in SUBSET IssueKind,
           StoreDraft(rows, plan, option, kinds),
           NEW id, id = Cardinality(drafts) + 1
    PROVE  /\ id \in DraftId /\ id \notin RowIds(drafts)
           /\ drafts' = rows \cup {[id |-> id, plan |-> plan, option |-> option, status |-> "draft"]}
           /\ drafts' \in SUBSET DraftRow /\ Numbered(drafts') /\ RowIds(drafts') = RowIds(drafts) \cup {id}
           /\ issues' \in SUBSET IssueRow /\ IssuesOK'
           /\ \A i \in issues' \ issues : i.draft = id
           /\ kinds = {} => issues' = issues
  <1>. DEFINE row == [id |-> id, plan |-> plan, option |-> option, status |-> "draft"]
  <1>1. /\ Numbered(drafts) /\ issues \in SUBSET IssueRow /\ IssuesOK
    BY DEF ReviewInv, ReviewTypeOK
  <1>2. /\ id \in DraftId /\ drafts' = rows \cup {row}
        /\ issues' = issues \cup [draft : {id}, kind : kinds, status : {"open"}]
    BY DEF StoreDraft
  <1>3. Cardinality(rows) = Cardinality(drafts)
    <2>1. /\ Cardinality(rows) \in Nat /\ RowIds(rows) = 1 .. Cardinality(rows)
          /\ Cardinality(drafts) \in Nat /\ RowIds(drafts) = 1 .. Cardinality(drafts)
      BY <1>1, NumberedCounts
    <2>2. \A a, b \in Nat : 1 .. a = 1 .. b => a <= b
      <3>1. SUFFICES ASSUME NEW a \in Nat, NEW b \in Nat, 1 .. a = 1 .. b, ~(a <= b)
                     PROVE  FALSE
        OBVIOUS
      <3>2. a \in 1 .. a /\ a \notin 1 .. b
        BY <3>1
      <3>. QED
        BY <3>1, <3>2
    <2>. PICK a, b : a = Cardinality(rows) /\ b = Cardinality(drafts)
      OBVIOUS
    <2>3. a \in Nat /\ b \in Nat /\ a <= b /\ b <= a
      BY <2>1, <2>2
    <2>4. a = b
      BY <2>3
    <2>. QED
      BY <2>4
  <1>4. row \in DraftRow /\ row.id = id
    BY <1>2 DEF DraftRow
  <1>. HIDE DEF row
  <1>5. /\ id \notin RowIds(drafts) /\ Numbered(drafts') /\ RowIds(drafts') = RowIds(drafts) \cup {id}
    BY <1>2, <1>3, <1>4, NextId
  <1>6. \A i \in [draft : {id}, kind : kinds, status : {"open"}] : i \in IssueRow /\ i.draft = id
    BY <1>2, ReviewStatus DEF IssueRow
  <1>7. issues' \in SUBSET IssueRow /\ (\A i \in issues' \ issues : i.draft = id)
    BY <1>1, <1>2, <1>6
  <1>8. IssuesOK'
    BY <1>1, <1>5, <1>7 DEF IssuesOK
  <1>9. kinds = {} => issues' = issues
    BY <1>2
  <1>. QED
    BY <1>2, <1>4, <1>5, <1>7, <1>8, <1>9 DEF row

-----------------------------------------------------------------------------
(* The run *)

StepNames ==
    {"plan", "plot_approval", "write", "quality_gate", "draft_approval", "canon_commit"}

LEMMA RunStepsOrder ==
    /\ {RunSteps[i] : i \in DOMAIN RunSteps} = StepNames
    /\ DOMAIN RunSteps = 1 .. 6
    /\ Position("plan") = 1 /\ Position("plot_approval") = 2 /\ Position("write") = 3
    /\ Position("quality_gate") = 4 /\ Position("draft_approval") = 5 /\ Position("canon_commit") = 6
  <1>1. DOMAIN RunSteps = 1 .. 6
    BY DEF RunSteps
  <1>2. /\ RunSteps[1] = "plan" /\ RunSteps[2] = "plot_approval" /\ RunSteps[3] = "write"
        /\ RunSteps[4] = "quality_gate" /\ RunSteps[5] = "draft_approval"
        /\ RunSteps[6] = "canon_commit"
    BY DEF RunSteps
  <1>3. \A i \in 1 .. 6 : i = 1 \/ i = 2 \/ i = 3 \/ i = 4 \/ i = 5 \/ i = 6
    OBVIOUS
  <1>4. {RunSteps[i] : i \in 1 .. 6} = StepNames
    <2>1. \A i \in 1 .. 6 : RunSteps[i] \in StepNames
      BY <1>2, <1>3 DEF StepNames
    <2>2. \A name \in StepNames : \E i \in 1 .. 6 : RunSteps[i] = name
      BY <1>2 DEF StepNames
    <2>. QED
      BY <2>1, <2>2
  <1>. QED
    BY <1>1, <1>2, <1>3, <1>4 DEF Position

LEMMA RunTyped == ChapterRun =
    [step : StepNames \cup {"finished"}, failed : BOOLEAN,
     plan : PlanId \cup {None}, option : Choice, draft : DraftId \cup {None},
     counted : BOOLEAN, passed : BOOLEAN]
  BY RunStepsOrder DEF ChapterRun

\* A step of the run alone: what has to hold of the run, and of the draft it has.
LEMMA OnlyRun ==
    ASSUME ReviewInv, UNCHANGED <<plans, drafts, issues>>, chapter' \in ChapterRun, RunOK', DraftOK'
    PROVE  ReviewInv'
  BY DEF ReviewInv, ReviewTypeOK, Numbered, IssuesOK, RowIds

LEMMA StepFailsKeeps ==
    ASSUME ReviewInv, StepFails
    PROVE  ReviewInv'
  <1>1. chapter \in ChapterRun /\ RunOK /\ DraftOK
    BY DEF ReviewInv, ReviewTypeOK
  <1>2. UNCHANGED <<plans, drafts, issues>> /\ chapter.step # "finished"
        /\ chapter' = [chapter EXCEPT !.failed = TRUE]
    BY DEF StepFails
  <1>3. chapter' \in ChapterRun
    BY <1>1, <1>2, RunTyped
  <1>4. RunOK'
    BY <1>1, <1>2, RunTyped DEF RunOK
  <1>5. DraftOK'
    BY <1>1, <1>2, RunTyped DEF DraftOK
  <1>. QED
    BY <1>2, <1>3, <1>4, <1>5, OnlyRun

LEMMA ApprovePlotKeeps ==
    ASSUME ReviewInv, ApprovePlot
    PROVE  ReviewInv'
  <1>1. chapter \in ChapterRun /\ RunOK /\ DraftOK
    BY DEF ReviewInv, ReviewTypeOK
  <1>2. UNCHANGED <<plans, drafts, issues>> /\ chapter.step = "plot_approval" /\ ~chapter.failed
        /\ chapter' = [chapter EXCEPT !.step = "write"]
    BY DEF ApprovePlot, OnRunStep
  <1>3. chapter' \in ChapterRun
    BY <1>1, <1>2, RunTyped DEF StepNames
  <1>4. RunOK'
    BY <1>1, <1>2, RunTyped DEF RunOK
  <1>5. DraftOK'
    BY <1>1, <1>2, RunTyped DEF DraftOK
  <1>. QED
    BY <1>2, <1>3, <1>4, <1>5, OnlyRun

\* The gate is passed only on counts of the draft that the run has.
LEMMA QualityGateKeeps ==
    ASSUME ReviewInv, QualityGate
    PROVE  ReviewInv'
  <1>1. chapter \in ChapterRun /\ RunOK /\ DraftOK
    BY DEF ReviewInv, ReviewTypeOK
  <1>2. UNCHANGED <<plans, drafts, issues>> /\ chapter.step = "quality_gate" /\ ~chapter.failed
        /\ chapter' = [chapter EXCEPT !.passed = ~chapter.counted, !.step = "draft_approval"]
    BY DEF QualityGate, OnRunStep
  <1>3. chapter' \in ChapterRun
    BY <1>1, <1>2, RunTyped DEF StepNames
  <1>4. RunOK'
    BY <1>1, <1>2, RunTyped DEF RunOK
  <1>5. DraftOK'
    BY <1>1, <1>2, RunTyped DEF DraftOK
  <1>. QED
    BY <1>2, <1>3, <1>4, <1>5, OnlyRun

LEMMA ApproveDraftKeeps ==
    ASSUME ReviewInv, ApproveDraft
    PROVE  ReviewInv'
  <1>1. chapter \in ChapterRun /\ RunOK /\ DraftOK
    BY DEF ReviewInv, ReviewTypeOK
  <1>2. UNCHANGED <<plans, drafts, issues>> /\ chapter.step = "draft_approval" /\ ~chapter.failed
        /\ chapter' = [chapter EXCEPT !.step = "canon_commit"]
    BY DEF ApproveDraft, OnRunStep
  <1>3. chapter' \in ChapterRun
    BY <1>1, <1>2, RunTyped DEF StepNames
  <1>4. RunOK'
    BY <1>1, <1>2, RunTyped DEF RunOK
  <1>5. DraftOK'
    BY <1>1, <1>2, RunTyped DEF DraftOK
  <1>. QED
    BY <1>2, <1>3, <1>4, <1>5, OnlyRun

\* What a retry keeps: the plan after its step, the draft after the step that writes it.
LEMMA ResetRun ==
    ASSUME chapter \in ChapterRun, NEW name \in StepNames
    PROVE  LET run == Reset(chapter, name) IN
           /\ run \in ChapterRun
           /\ run.step = name /\ ~run.failed /\ run.option = chapter.option
           /\ run.plan = IF name = "plan" THEN None ELSE chapter.plan
           /\ run.draft = IF name \in {"plan", "plot_approval", "write"} THEN None ELSE chapter.draft
           /\ run.counted <=> chapter.counted /\ name \notin {"plan", "plot_approval", "write"}
           /\ run.passed <=> chapter.passed /\ name \in {"draft_approval", "canon_commit"}
  <1>. DEFINE plan == Position("plan") < Position(name)
              write == Position("write") < Position(name)
              gate == Position("quality_gate") < Position(name)
  <1>1. Reset(chapter, name) =
          [chapter EXCEPT !.step = name, !.failed = FALSE,
                          !.plan = IF plan THEN @ ELSE None,
                          !.draft = IF write THEN @ ELSE None,
                          !.counted = @ /\ write,
                          !.passed = @ /\ gate]
    BY DEF Reset
  <1>2. /\ plan <=> name # "plan"
        /\ write <=> name \notin {"plan", "plot_approval", "write"}
        /\ gate <=> name \in {"draft_approval", "canon_commit"}
    BY RunStepsOrder DEF StepNames
  <1>. HIDE DEF plan, write, gate
  <1>3. Reset(chapter, name) \in ChapterRun
    BY <1>1, RunTyped, Zenon
  <1>. QED
    BY <1>1, <1>2, <1>3, RunTyped

LEMMA RetryKeeps ==
    ASSUME ReviewInv, Retry
    PROVE  ReviewInv'
  <1>1. chapter \in ChapterRun /\ RunOK /\ DraftOK
    BY DEF ReviewInv, ReviewTypeOK
  <1>2. PICK i \in 1 .. Position(chapter.step) : chapter' = Reset(chapter, RunSteps[i])
    BY DEF Retry
  <1>3. UNCHANGED <<plans, drafts, issues>> /\ chapter.failed
    BY DEF Retry
  <1>4. chapter.step \in StepNames
    BY <1>1, <1>3, RunTyped DEF RunOK
  <1>. PICK name : name = RunSteps[i]
    OBVIOUS
  <1>5. name \in StepNames /\ Position(name) <= Position(chapter.step)
    <2>1. Position(chapter.step) \in 1 .. 6
      BY <1>4, RunStepsOrder DEF StepNames
    <2>2. i \in 1 .. 6 /\ i <= Position(chapter.step)
      BY <2>1
    <2>3. name \in StepNames /\ Position(name) = i
      <3>1. i = 1 \/ i = 2 \/ i = 3 \/ i = 4 \/ i = 5 \/ i = 6
        BY <2>2
      <3>. QED
        BY <3>1, RunStepsOrder DEF RunSteps, StepNames
    <2>. QED
      BY <2>2, <2>3
  <1>6. /\ chapter' \in ChapterRun
        /\ chapter'.step = name /\ ~chapter'.failed /\ chapter'.option = chapter.option
        /\ chapter'.plan = IF name = "plan" THEN None ELSE chapter.plan
        /\ chapter'.draft = IF name \in {"plan", "plot_approval", "write"} THEN None ELSE chapter.draft
        /\ chapter'.counted <=> chapter.counted /\ name \notin {"plan", "plot_approval", "write"}
        /\ chapter'.passed <=> chapter.passed /\ name \in {"draft_approval", "canon_commit"}
    BY <1>1, <1>2, <1>5, ResetRun
  <1>7. /\ name # "plan" => chapter.step # "plan"
        /\ name \in {"quality_gate", "draft_approval", "canon_commit"} =>
              chapter.step \in {"quality_gate", "draft_approval", "canon_commit"}
    BY <1>4, <1>5, RunStepsOrder DEF StepNames
  <1>8. RunOK'
    BY <1>1, <1>3, <1>4, <1>5, <1>6, <1>7, RunTyped DEF RunOK, StepNames, RowIds
  <1>9. DraftOK'
    <2>1. \A d \in drafts : d.id # None
      BY DEF ReviewInv, ReviewTypeOK, DraftRow, DraftId, None
    <2>2. CASE name \in {"plan", "plot_approval", "write"}
      BY <1>1, <1>3, <1>6, <2>1, <2>2 DEF DraftOK
    <2>3. CASE name \notin {"plan", "plot_approval", "write"}
      BY <1>1, <1>3, <1>5, <1>6, <2>3 DEF DraftOK, StepNames
    <2>. QED
      BY <2>2, <2>3
  <1>. QED
    BY <1>3, <1>6, <1>8, <1>9, OnlyRun

-----------------------------------------------------------------------------
(* Plans *)

\* A choice in the row of a plan: nothing else depends on what is selected there.
LEMMA SelectOptionKeeps ==
    ASSUME ReviewInv, NEW id \in RowIds(plans), NEW option \in PlotOption, SelectOption(id, option)
    PROVE  ReviewInv'
  <1>1. plans \in SUBSET PlanRow /\ Numbered(plans) /\ option \in Choice
    BY DEF ReviewInv, ReviewTypeOK, Choice
  <1>2. plans' = WithSelected(id, option) /\ UNCHANGED <<drafts, issues, chapter>>
    BY DEF SelectOption
  <1>3. plans' \in SUBSET PlanRow /\ Numbered(plans') /\ RowIds(plans') = RowIds(plans)
    BY <1>1, <1>2, SelectedRows
  <1>4. ReviewTypeOK'
    BY <1>2, <1>3 DEF ReviewInv, ReviewTypeOK, Numbered
  <1>5. RunOK'
    BY <1>2, <1>3 DEF ReviewInv, RunOK
  <1>6. DraftOK' /\ IssuesOK'
    BY <1>2 DEF ReviewInv, DraftOK, IssuesOK, RowIds
  <1>. QED
    BY <1>2, <1>3, <1>4, <1>5, <1>6 DEF ReviewInv, Numbered, RowIds

LEMMA ApproveOptionKeeps ==
    ASSUME ReviewInv, NEW option \in PlotOption, ApproveOption(option)
    PROVE  ReviewInv'
  <1>1. chapter \in ChapterRun /\ RunOK /\ DraftOK
    BY DEF ReviewInv, ReviewTypeOK
  <1>2. /\ plans' = WithSelected(chapter.plan, option) /\ UNCHANGED <<drafts, issues>>
        /\ chapter.step = "plot_approval" /\ ~chapter.failed
        /\ chapter' = [chapter EXCEPT !.option = option, !.step = "write"]
    BY DEF ApproveOption, OnRunStep
  <1>3. plans \in SUBSET PlanRow /\ Numbered(plans) /\ option \in Choice /\ chapter.plan \in RowIds(plans)
    BY <1>1, <1>2 DEF ReviewInv, ReviewTypeOK, Choice, RunOK
  <1>4. plans' \in SUBSET PlanRow /\ Numbered(plans') /\ RowIds(plans') = RowIds(plans)
    BY <1>2, <1>3, SelectedRows
  <1>5. chapter' \in ChapterRun
    BY <1>1, <1>2, <1>3, RunTyped DEF StepNames
  <1>6. ReviewTypeOK'
    BY <1>2, <1>4, <1>5 DEF ReviewInv, ReviewTypeOK, Numbered
  <1>7. RunOK'
    BY <1>1, <1>2, <1>4, RunTyped DEF RunOK
  <1>8. DraftOK'
    <2>1. chapter'.draft = None
      BY <1>1, <1>2, RunTyped DEF RunOK
    <2>2. \A d \in drafts : d.id # None
      BY DEF ReviewInv, ReviewTypeOK, DraftRow, DraftId, None
    <2>. QED
      BY <1>1, <1>2, <2>1, <2>2 DEF DraftOK
  <1>9. IssuesOK' /\ Numbered(drafts)'
    BY <1>2 DEF ReviewInv, IssuesOK, Numbered, RowIds
  <1>. QED
    BY <1>4, <1>6, <1>7, <1>8, <1>9 DEF ReviewInv, Numbered, RowIds

LEMMA MakePlanKeeps ==
    ASSUME ReviewInv, MakePlan
    PROVE  ReviewInv'
  <1>1. chapter \in ChapterRun /\ RunOK /\ DraftOK /\ plans \in SUBSET PlanRow /\ Numbered(plans)
    BY DEF ReviewInv, ReviewTypeOK
  <1>. PICK id, row : id = Cardinality(plans) + 1 /\ row = [id |-> id, selected |-> NoOption]
    OBVIOUS
  <1>2. /\ plans' = plans \cup {row} /\ id \in PlanId /\ UNCHANGED <<drafts, issues>>
        /\ chapter.step = "plan" /\ ~chapter.failed
        /\ chapter' = [chapter EXCEPT !.plan = id, !.step = "plot_approval"]
    BY DEF MakePlan, OnRunStep
  <1>3. row \in PlanRow /\ row.id = id
    BY <1>2 DEF PlanRow, Choice
  <1>4. plans' \in SUBSET PlanRow /\ Numbered(plans') /\ RowIds(plans') = RowIds(plans) \cup {id}
    <2>1. row.id = Cardinality(plans) + 1
      BY <1>3
    <2>2. Numbered(plans \cup {row}) /\ RowIds(plans \cup {row}) = RowIds(plans) \cup {row.id}
      BY <1>1, <2>1, NextId
    <2>. QED
      BY <1>1, <1>2, <1>3, <2>2
  <1>5. chapter' \in ChapterRun
    BY <1>1, <1>2, RunTyped DEF StepNames
  <1>6. ReviewTypeOK'
    BY <1>2, <1>4, <1>5 DEF ReviewInv, ReviewTypeOK, Numbered
  <1>7. RunOK'
    <2>1. id # None
      BY <1>2 DEF PlanId, None
    <2>. QED
      BY <1>1, <1>2, <1>4, <2>1, RunTyped DEF RunOK
  <1>8. DraftOK'
    <2>1. chapter'.draft = None
      BY <1>1, <1>2, RunTyped DEF RunOK
    <2>2. \A d \in drafts : d.id # None
      BY DEF ReviewInv, ReviewTypeOK, DraftRow, DraftId, None
    <2>. QED
      BY <1>1, <1>2, <2>1, <2>2 DEF DraftOK
  <1>9. IssuesOK' /\ Numbered(drafts)'
    BY <1>2 DEF ReviewInv, IssuesOK, Numbered, RowIds
  <1>. QED
    BY <1>4, <1>6, <1>7, <1>8, <1>9 DEF ReviewInv, Numbered, RowIds

-----------------------------------------------------------------------------
(* Drafts and issues *)

\* The status of a draft that is not accepted, or that becomes accepted.
LEMMA StatusKeeps ==
    ASSUME ReviewInv, NEW id, NEW status \in Status, NEW rows, rows = WithStatus(drafts, id, status),
           status = "accepted" \/ \A d \in drafts : d.id = id => d.status # "accepted"
    PROVE  /\ rows \in SUBSET DraftRow /\ Numbered(rows) /\ RowIds(rows) = RowIds(drafts)
           /\ \A e \in rows : \E d \in drafts :
                 /\ e.id = d.id /\ e.plan = d.plan /\ e.option = d.option
                 /\ d.status = "accepted" => e.status = "accepted"
                 /\ d.id = id => e.status = status
  BY StatusRows DEF ReviewInv, ReviewTypeOK

\* Then the run's draft stays what it was.
LEMMA SameDrafts ==
    ASSUME ReviewInv, drafts' \in SUBSET DraftRow, Numbered(drafts'), RowIds(drafts') = RowIds(drafts),
           \A e \in drafts' : \E d \in drafts :
              /\ e.id = d.id /\ e.plan = d.plan /\ e.option = d.option
              /\ d.status = "accepted" => e.status = "accepted",
           UNCHANGED <<plans, issues, chapter>>
    PROVE  ReviewInv'
  <1>1. ReviewTypeOK'
    BY DEF ReviewInv, ReviewTypeOK, Numbered
  <1>2. RunOK' /\ IssuesOK'
    BY DEF ReviewInv, RunOK, IssuesOK, RowIds
  <1>3. DraftOK'
    BY DEF ReviewInv, DraftOK
  <1>4. Numbered(plans')
    BY DEF ReviewInv
  <1>. QED
    BY <1>1, <1>2, <1>3, <1>4 DEF ReviewInv, Numbered, RowIds

LEMMA AcceptDraftKeeps ==
    ASSUME ReviewInv, NEW d \in drafts, AcceptDraft(d)
    PROVE  ReviewInv'
  <1>. PICK rows : rows = WithStatus(drafts, d.id, "accepted")
    OBVIOUS
  <1>1. drafts' = rows /\ UNCHANGED <<plans, issues, chapter>>
    BY DEF AcceptDraft
  <1>2. /\ rows \in SUBSET DraftRow /\ Numbered(rows) /\ RowIds(rows) = RowIds(drafts)
        /\ \A e \in rows : \E g \in drafts :
              /\ e.id = g.id /\ e.plan = g.plan /\ e.option = g.option
              /\ g.status = "accepted" => e.status = "accepted"
    BY StatusKeeps DEF Status
  <1>. QED
    BY <1>1, <1>2, SameDrafts

LEMMA RejectDraftKeeps ==
    ASSUME ReviewInv, NEW d \in drafts, RejectDraft(d)
    PROVE  ReviewInv'
  <1>. PICK rows : rows = WithStatus(drafts, d.id, "rejected")
    OBVIOUS
  <1>1. drafts' = rows /\ UNCHANGED <<plans, issues, chapter>> /\ d.status # "accepted"
    BY DEF RejectDraft
  <1>2. \A g \in drafts : g.id = d.id => g.status # "accepted"
    BY <1>1 DEF ReviewInv, Numbered
  <1>3. /\ rows \in SUBSET DraftRow /\ Numbered(rows) /\ RowIds(rows) = RowIds(drafts)
        /\ \A e \in rows : \E g \in drafts :
              /\ e.id = g.id /\ e.plan = g.plan /\ e.option = g.option
              /\ g.status = "accepted" => e.status = "accepted"
    BY <1>2, StatusKeeps DEF Status
  <1>. QED
    BY <1>1, <1>3, SameDrafts

LEMMA CommitDraftKeeps ==
    ASSUME ReviewInv, CommitDraft
    PROVE  ReviewInv'
  <1>1. chapter \in ChapterRun /\ RunOK /\ DraftOK /\ IssuesOK
    BY DEF ReviewInv, ReviewTypeOK
  <1>. PICK id, rows : id = chapter.draft /\ rows = WithStatus(drafts, id, "accepted")
    OBVIOUS
  <1>2. /\ drafts' = rows /\ UNCHANGED <<plans, issues>>
        /\ chapter.step = "canon_commit" /\ ~chapter.failed
        /\ chapter' = [chapter EXCEPT !.step = "finished"]
    BY DEF CommitDraft, OnRunStep
  <1>3. /\ rows \in SUBSET DraftRow /\ Numbered(rows) /\ RowIds(rows) = RowIds(drafts)
        /\ \A e \in rows : \E d \in drafts :
              /\ e.id = d.id /\ e.plan = d.plan /\ e.option = d.option
              /\ d.id = id => e.status = "accepted"
    BY StatusKeeps DEF Status
  <1>4. chapter' \in ChapterRun
    BY <1>1, <1>2, RunTyped
  <1>5. ReviewTypeOK'
    BY <1>2, <1>3, <1>4 DEF ReviewInv, ReviewTypeOK, Numbered
  <1>6. RunOK'
    BY <1>1, <1>2, <1>3, RunTyped DEF RunOK
  <1>7. DraftOK'
    BY <1>1, <1>2, <1>3, RunTyped DEF DraftOK
  <1>8. IssuesOK'
    BY <1>1, <1>2, <1>3 DEF IssuesOK
  <1>9. Numbered(plans')
    BY <1>2 DEF ReviewInv
  <1>. QED
    BY <1>2, <1>3, <1>5, <1>6, <1>7, <1>8, <1>9 DEF ReviewInv, Numbered, RowIds

LEMMA UpdateIssueKeeps ==
    ASSUME ReviewInv, NEW i \in issues, UpdateIssue(i)
    PROVE  ReviewInv'
  <1>1. issues \in SUBSET IssueRow /\ DraftOK /\ IssuesOK
    BY DEF ReviewInv, ReviewTypeOK
  <1>2. PICK status \in IssueStatus : issues' = (issues \ {i}) \cup {[i EXCEPT !.status = status]}
    BY DEF UpdateIssue
  <1>3. UNCHANGED <<plans, drafts, chapter>>
    BY DEF UpdateIssue
  <1>4. [i EXCEPT !.status = status] \in IssueRow /\ [i EXCEPT !.status = status].draft = i.draft
    BY <1>1 DEF IssueRow
  <1>5. \A j \in issues' : j \in IssueRow /\ \E k \in issues : k.draft = j.draft
    BY <1>1, <1>2, <1>4
  <1>6. ReviewTypeOK' /\ IssuesOK'
    BY <1>1, <1>3, <1>5 DEF ReviewInv, ReviewTypeOK, IssuesOK
  <1>7. DraftOK'
    BY <1>1, <1>3, <1>5 DEF DraftOK
  <1>8. RunOK' /\ Numbered(plans') /\ Numbered(drafts')
    BY <1>3 DEF ReviewInv, RunOK
  <1>. QED
    BY <1>6, <1>7, <1>8 DEF ReviewInv, Numbered, RowIds

\* A revision of an undecided draft takes its place; the run's draft is another one, or was
\* already decided, or keeps its text while it is superseded.
LEMMA ReviseDraftKeeps ==
    ASSUME ReviewInv, NEW d \in drafts, ReviseDraft(d)
    PROVE  ReviewInv'
  <1>1. /\ chapter \in ChapterRun /\ RunOK /\ DraftOK /\ IssuesOK
        /\ drafts \in SUBSET DraftRow /\ Numbered(drafts)
    BY DEF ReviewInv, ReviewTypeOK
  <1>. PICK rows, id : /\ rows = IF d.status = "draft" THEN WithStatus(drafts, d.id, "superseded")
                                 ELSE drafts
                      /\ id = Cardinality(drafts) + 1
    OBVIOUS
  <1>2. PICK kinds \in SUBSET IssueKind : StoreDraft(rows, d.plan, d.option, kinds)
    BY DEF ReviseDraft
  <1>3. UNCHANGED <<plans, chapter>>
    BY DEF ReviseDraft
  <1>4. /\ rows \in SUBSET DraftRow /\ Numbered(rows) /\ RowIds(rows) = RowIds(drafts)
        /\ \A e \in rows : \E g \in drafts :
              /\ e.id = g.id /\ e.plan = g.plan /\ e.option = g.option
              /\ g.status = "accepted" => e.status = "accepted"
    <2>1. CASE d.status = "draft"
      <3>1. \A g \in drafts : g.id = d.id => g.status # "accepted"
        BY <1>1, <2>1 DEF Numbered
      <3>2. rows = WithStatus(drafts, d.id, "superseded")
        BY <2>1
      <3>. QED
        BY <3>1, <3>2, StatusKeeps DEF Status
    <2>2. CASE d.status # "draft"
      BY <1>1, <2>2
    <2>. QED
      BY <2>1, <2>2
  <1>. PICK row : row = [id |-> id, plan |-> d.plan, option |-> d.option, status |-> "draft"]
    OBVIOUS
  <1>5. d.plan \in PlanId /\ d.option \in Choice
    BY <1>1 DEF DraftRow
  <1>6. /\ id \in DraftId /\ id \notin RowIds(drafts) /\ drafts' = rows \cup {row}
        /\ drafts' \in SUBSET DraftRow /\ Numbered(drafts') /\ RowIds(drafts') = RowIds(drafts) \cup {id}
        /\ issues' \in SUBSET IssueRow /\ IssuesOK'
        /\ \A i \in issues' \ issues : i.draft = id
    BY <1>2, <1>4, <1>5, DraftStored
  <1>7. ReviewTypeOK'
    BY <1>3, <1>6 DEF ReviewInv, ReviewTypeOK, Numbered
  <1>8. RunOK'
    BY <1>1, <1>3, <1>6 DEF RunOK
  <1>9. DraftOK'
    <2>. SUFFICES ASSUME NEW e \in drafts'
                  PROVE  /\ e.option # NoOption => e.option.plan = e.plan
                         /\ e.id = chapter.draft =>
                               /\ e.plan = chapter.plan
                               /\ chapter.option # NoOption => e.option = chapter.option
                               /\ ~chapter.counted => \A i \in issues' : i.draft # e.id
                               /\ chapter.step = "finished" => e.status = "accepted"
      BY <1>3 DEF DraftOK
    <2>1. CASE e = row
      <3>1. e.id = id /\ e.plan = d.plan /\ e.option = d.option
        BY <2>1
      <3>2. id # chapter.draft
        <4>1. id # None
          BY <1>6 DEF DraftId, None
        <4>. QED
          BY <1>1, <1>6, <4>1 DEF RunOK
      <3>. QED
        BY <1>1, <3>1, <3>2 DEF DraftOK
    <2>2. CASE e \in rows
      <3>1. PICK g \in drafts : /\ e.id = g.id /\ e.plan = g.plan /\ e.option = g.option
                                /\ g.status = "accepted" => e.status = "accepted"
        BY <1>4, <2>2
      <3>2. e.id # id
        BY <1>6, <3>1 DEF RowIds
      <3>. QED
        BY <1>1, <1>6, <3>1, <3>2 DEF DraftOK
    <2>. QED
      BY <1>6, <2>1, <2>2
  <1>10. Numbered(plans')
    BY <1>3 DEF ReviewInv
  <1>. QED
    BY <1>6, <1>7, <1>8, <1>9, <1>10 DEF ReviewInv, Numbered, RowIds

\* A draft is written from the run's plan, with the option that belongs to it.
LEMMA WriteDraftKeeps ==
    ASSUME ReviewInv, WriteDraft
    PROVE  ReviewInv'
  <1>1. /\ chapter \in ChapterRun /\ RunOK /\ DraftOK /\ IssuesOK
        /\ drafts \in SUBSET DraftRow /\ Numbered(drafts)
        /\ plans \in SUBSET PlanRow /\ Numbered(plans)
    BY DEF ReviewInv, ReviewTypeOK
  <1>. PICK plan, used, id : plan = chapter.plan /\ used = Used /\ id = Cardinality(drafts) + 1
    OBVIOUS
  <1>2. /\ chapter.step = "write" /\ ~chapter.failed /\ plans' = WithSelected(plan, used)
        /\ used # NoOption => used.plan = plan
    BY DEF WriteDraft, OnRunStep, Belongs
  <1>3. PICK kinds \in SUBSET IssueKind :
           /\ StoreDraft(drafts, plan, used, kinds)
           /\ chapter' = [chapter EXCEPT !.step = "quality_gate", !.draft = id,
                                         !.counted = kinds # {}]
    BY DEF WriteDraft
  <1>4. plan \in RowIds(plans) /\ plan \in PlanId
    BY <1>1, <1>2 DEF RunOK, RowIds, PlanRow
  <1>5. used \in Choice
    <2>1. PlanOf(plan) \in plans
      BY <1>4 DEF PlanOf, RowIds
    <2>. QED
      BY <1>1, <2>1, RunTyped DEF Used, PlanRow
  <1>6. plans' \in SUBSET PlanRow /\ Numbered(plans') /\ RowIds(plans') = RowIds(plans)
    BY <1>1, <1>2, <1>4, <1>5, SelectedRows
  <1>. PICK row : row = [id |-> id, plan |-> plan, option |-> used, status |-> "draft"]
    OBVIOUS
  <1>7. /\ id \in DraftId /\ id \notin RowIds(drafts) /\ drafts' = drafts \cup {row}
        /\ drafts' \in SUBSET DraftRow /\ Numbered(drafts') /\ RowIds(drafts') = RowIds(drafts) \cup {id}
        /\ issues' \in SUBSET IssueRow /\ IssuesOK'
        /\ kinds = {} => issues' = issues
    BY <1>1, <1>3, <1>4, <1>5, DraftStored
  <1>. PICK counted : counted = (kinds # {}) /\ counted \in BOOLEAN
    OBVIOUS
  <1>8. chapter' = [chapter EXCEPT !.step = "quality_gate", !.draft = id, !.counted = counted]
    BY <1>3
  <1>9. /\ chapter' \in ChapterRun /\ chapter'.step = "quality_gate" /\ chapter'.draft = id
        /\ chapter'.plan = plan /\ chapter'.option = chapter.option /\ ~chapter'.failed
        /\ chapter'.passed = chapter.passed /\ chapter'.counted = counted
    BY <1>1, <1>2, <1>7, <1>8, RunTyped DEF StepNames
  <1>10. ReviewTypeOK'
    BY <1>6, <1>7, <1>9 DEF ReviewInv, ReviewTypeOK, Numbered
  <1>11. id # None
    BY <1>7 DEF DraftId, None
  <1>12. RunOK'
    BY <1>1, <1>2, <1>4, <1>6, <1>7, <1>9, <1>11 DEF RunOK
  <1>13. DraftOK'
    <2>1. ASSUME NEW e \in drafts'
          PROVE  /\ e.option # NoOption => e.option.plan = e.plan
                 /\ e.id = id =>
                       /\ e.plan = plan
                       /\ chapter.option # NoOption => e.option = chapter.option
                       /\ kinds = {} => \A i \in issues' : i.draft # e.id
      <3>1. CASE e = row
        <4>1. e.id = id /\ e.plan = plan /\ e.option = used
          BY <3>1
        <4>2. chapter.option # NoOption => used = chapter.option
          BY DEF Used
        <4>3. kinds = {} => \A i \in issues' : i.draft # id
          BY <1>1, <1>7 DEF IssuesOK
        <4>. QED
          BY <1>2, <4>1, <4>2, <4>3
      <3>2. CASE e \in drafts
        <4>1. e.id # id
          BY <1>7, <3>2 DEF RowIds
        <4>. QED
          BY <1>1, <3>2, <4>1 DEF DraftOK
      <3>. QED
        BY <1>7, <3>1, <3>2
    <2>2. counted <=> kinds # {}
      OBVIOUS
    <2>. QED
      BY <1>9, <2>1, <2>2 DEF DraftOK
  <1>. QED
    BY <1>6, <1>7, <1>10, <1>12, <1>13 DEF ReviewInv, Numbered, RowIds

-----------------------------------------------------------------------------
(* The specification *)

LEMMA ReviewInit_ReviewInv == ReviewInit => ReviewInv
  <1>. SUFFICES ASSUME ReviewInit
                PROVE  ReviewInv
    OBVIOUS
  <1>1. ReviewTypeOK
    BY RunTyped DEF ReviewInit, ReviewTypeOK, StepNames, Choice
  <1>2. Numbered({})
    <2>1. RowIds({}) = {} /\ 1 .. 0 = {}
      BY DEF RowIds
    <2>. QED
      BY <2>1 DEF Numbered
  <1>3. RunOK /\ DraftOK /\ IssuesOK
    BY DEF ReviewInit, RunOK, DraftOK, IssuesOK
  <1>. QED
    BY <1>1, <1>2, <1>3 DEF ReviewInit, ReviewInv

LEMMA ReviewInvKept == ReviewInv /\ [ReviewNext]_reviewVars => ReviewInv'
  <1>. SUFFICES ASSUME ReviewInv, [ReviewNext]_reviewVars
                PROVE  ReviewInv'
    OBVIOUS
  <1>1. CASE MakePlan
    BY <1>1, MakePlanKeeps
  <1>2. CASE ApprovePlot
    BY <1>2, ApprovePlotKeeps
  <1>3. CASE WriteDraft
    BY <1>3, WriteDraftKeeps
  <1>4. CASE QualityGate
    BY <1>4, QualityGateKeeps
  <1>5. CASE ApproveDraft
    BY <1>5, ApproveDraftKeeps
  <1>6. CASE CommitDraft
    BY <1>6, CommitDraftKeeps
  <1>7. CASE StepFails
    BY <1>7, StepFailsKeeps
  <1>8. CASE Retry
    BY <1>8, RetryKeeps
  <1>9. ASSUME NEW option \in PlotOption, ApproveOption(option)
        PROVE  ReviewInv'
    BY <1>9, ApproveOptionKeeps
  <1>10. ASSUME NEW p \in plans, NEW option \in PlotOption, SelectOption(p.id, option)
         PROVE  ReviewInv'
    <2>. PICK id : id = p.id
      OBVIOUS
    <2>1. id \in RowIds(plans)
      BY DEF RowIds
    <2>. QED
      BY <1>10, <2>1, SelectOptionKeeps
  <1>11. ASSUME NEW d \in drafts, AcceptDraft(d) \/ RejectDraft(d) \/ ReviseDraft(d)
         PROVE  ReviewInv'
    BY <1>11, AcceptDraftKeeps, RejectDraftKeeps, ReviseDraftKeeps
  <1>12. ASSUME NEW i \in issues, ReviseFromIssue(i)
         PROVE  ReviewInv'
    <2>. PICK d : d = DraftOf(i.draft)
      OBVIOUS
    <2>1. d \in drafts
      BY DEF ReviewInv, IssuesOK, RowIds, DraftOf
    <2>. QED
      BY <1>12, <2>1, ReviseDraftKeeps DEF ReviseFromIssue
  <1>13. ASSUME NEW i \in issues, UpdateIssue(i)
         PROVE  ReviewInv'
    BY <1>13, UpdateIssueKeeps
  <1>14. CASE UNCHANGED reviewVars
    BY <1>14 DEF reviewVars, ReviewInv, ReviewTypeOK, Numbered, RowIds, RunOK, DraftOK, IssuesOK
  <1>. QED
    BY <1>1, <1>2, <1>3, <1>4, <1>5, <1>6, <1>7, <1>8, <1>9, <1>10, <1>11, <1>12, <1>13, <1>14
    DEF ReviewNext

LEMMA ReviewInductive == ReviewSpec => []ReviewInv
  BY ReviewInit_ReviewInv, ReviewInvKept, PTL DEF ReviewSpec

\* Rows and the run stay well formed, and no id is given to two rows, through every retry of the
\* run and every edit of its author.
THEOREM ReviewWellFormed == ReviewSpec => []ReviewTypeOK
  BY ReviewInductive, PTL DEF ReviewInv

\* Whatever the author selects, revises or rejects and however often the run is retried, the draft
\* that a run carries is written from its plan, with the option chosen for it; the gate's verdict
\* is on that draft, and a finished run has put it into canon.
THEOREM DraftIsTheChosenOne == ReviewSpec => []WrittenAsChosen
  <1>1. ReviewInv => WrittenAsChosen
    <2>. SUFFICES ASSUME ReviewInv, chapter.draft # None, NEW d, d = DraftOf(chapter.draft)
                  PROVE  /\ d.plan = chapter.plan
                         /\ d.option # NoOption => d.option.plan = d.plan
                         /\ chapter.option # NoOption => d.option = chapter.option
                         /\ chapter.passed => \A i \in issues : i.draft # d.id
                         /\ chapter.step = "finished" => d.status = "accepted"
      BY DEF WrittenAsChosen
    <2>1. d \in drafts /\ d.id = chapter.draft
      BY DEF DraftOf, ReviewInv, RunOK, RowIds
    <2>. QED
      BY <2>1 DEF ReviewInv, RunOK, DraftOK
  <1>. QED
    BY <1>1, ReviewInductive, PTL

-----------------------------------------------------------------------------
(***************************************************************************)
(* Context.  What is taken and what is assembled fit their budgets, and    *)
(* nothing is left out in silence.  What is taken is a sum over the        *)
(* fragments that grows by what one search result adds; the prompt is a    *)
(* fold over the sections, and its step keeps that the characters used     *)
(* are those of the texts so far.                                          *)
(***************************************************************************)

Fragment == [match : Match, length : Nat]

ContextTyped ==
    /\ stage \in {"search", "take", "assemble", "done"}
    /\ found \in Seq(Match) /\ next \in 1 .. Len(found) + 1
    /\ fragments \in Seq(Fragment) /\ truncated \in BOOLEAN
    /\ sections \in Seq(Nat)

\* What is taken is usable, once, and a text that is cut fills the budget.
TakenOK ==
    /\ \A i \in DOMAIN fragments : fragments[i].match.text \in Text
    /\ \A i, j \in DOMAIN fragments : fragments[i].match.text = fragments[j].match.text => i = j
    /\ Taken <= MaxCharacters
    /\ truncated => Taken = MaxCharacters
    /\ ~truncated =>
          /\ \A i \in DOMAIN fragments : fragments[i].length = LengthOf[fragments[i].match.text]
          /\ \A i \in 1 .. next - 1 : Acceptable(found[i]) => Repeated(found[i])

StagesOK ==
    /\ stage = "search" => next = 1 /\ fragments = <<>> /\ ~truncated
    /\ stage \in {"assemble", "done"} => next = Len(found) + 1
    /\ stage # "done" => prompt = <<>>

ContextInv == ContextTyped /\ TakenOK /\ StagesOK /\ PromptFits

-----------------------------------------------------------------------------
(* Sums of lengths *)

SumTaken(q) == FoldLeft(LAMBDA sum, f : sum + f.length, 0, q)
Lengths(q) == [i \in 1 .. Len(q) |-> q[i].length]

\* One step of the fold.
AddLength(sums, q, s) == IF s = {} THEN 0 ELSE sums[s \ {Max(s)}] + q[Max(s)].length

LEMMA SumTakenIsSum ==
    ASSUME NEW q \in Seq(Fragment)
    PROVE  Weights(Lengths(q), Len(q)) /\ \E f : IsSum(f, Lengths(q), Len(q)) /\ SumTaken(q) = f[1 .. Len(q)]
  <1>. PICK n, w : n = Len(q) /\ w = Lengths(q)
    OBVIOUS
  <1>. DEFINE M == 1 .. n
              F == CHOOSE sums : sums = [s \in SUBSET M |-> AddLength(sums, q, s)]
  <1>1. n \in Nat /\ DOMAIN q = M /\ \A i \in M : w[i] = q[i].length /\ w[i] \in Nat
    <2>1. n \in Nat /\ DOMAIN q = M /\ \A i \in M : q[i] \in Fragment
      OBVIOUS
    <2>2. \A x \in Fragment : x.length \in Nat
      BY DEF Fragment
    <2>3. \A i \in M : w[i] = q[i].length
      BY DEF Lengths
    <2>. QED
      BY <2>1, <2>2, <2>3
  <1>2. Weights(w, n)
    BY <1>1 DEF Weights
  <1>3. PICK f \in [SUBSET M -> Nat] : IsSum(f, w, n)
    BY <1>1, <1>2, SumExists
  <1>4. \A s \in SUBSET M : s # {} => w[Max(s)] = q[Max(s)].length
    BY <1>1, LastIsIn
  <1>5. f = [s \in SUBSET M |-> AddLength(f, q, s)]
    BY <1>3, <1>4 DEF IsSum, AddLength
  <1>6. F = [s \in SUBSET M |-> AddLength(F, q, s)]
    BY <1>5
  <1>7. SumTaken(q) = F[M]
    BY <1>1 DEF SumTaken, FoldLeft, MapThenFoldSet, AddLength
  <1>. HIDE DEF F
  <1>8. IsSum(F, w, n)
    BY <1>4, <1>6 DEF IsSum, AddLength
  <1>. QED
    BY <1>2, <1>7, <1>8

LEMMA SumTakenOfNone == SumTaken(<<>>) = 0
  <1>. PICK q, n : q = <<>> /\ n = Len(q)
    OBVIOUS
  <1>1. q \in Seq(Fragment) /\ 1 .. n = {}
    OBVIOUS
  <1>2. PICK f : IsSum(f, Lengths(q), n) /\ SumTaken(q) = f[1 .. n]
    BY <1>1, SumTakenIsSum
  <1>. QED
    BY <1>1, <1>2 DEF IsSum

LEMMA SumTakenOfOneMore ==
    ASSUME NEW q \in Seq(Fragment), NEW x \in Fragment
    PROVE  SumTaken(q) \in Nat /\ SumTaken(Append(q, x)) = SumTaken(q) + x.length
  <1>. PICK n, m, r : n = Len(q) /\ m = n + 1 /\ r = Append(q, x)
    OBVIOUS
  <1>1. n \in Nat /\ r \in Seq(Fragment) /\ Len(r) = m /\ r[m] = x /\ \A i \in 1 .. n : r[i] = q[i]
    OBVIOUS
  <1>2. PICK f : Weights(Lengths(q), n) /\ IsSum(f, Lengths(q), n) /\ SumTaken(q) = f[1 .. n]
    BY SumTakenIsSum
  <1>3. PICK g : Weights(Lengths(r), m) /\ IsSum(g, Lengths(r), m) /\ SumTaken(r) = g[1 .. m]
    BY <1>1, SumTakenIsSum
  <1>4. Agree(Lengths(q), Lengths(r), n) /\ Lengths(r)[m] = x.length
    BY <1>1 DEF Agree, Lengths
  <1>5. g[1 .. m] = f[1 .. n] + Lengths(r)[m]
    BY <1>1, <1>2, <1>3, <1>4, SumOfLonger
  <1>6. f[1 .. n] \in Nat
    <2>1. n \in 0 .. n
      BY <1>1
    <2>. QED
      BY <1>1, <1>2, <2>1, SumsAreNat
  <1>. QED
    BY <1>2, <1>3, <1>4, <1>5, <1>6

\* The lengths of the kept sections.
SumKept(q) == FoldLeft(LAMBDA sum, n : sum + n, 0, q)
AddKept(sums, q, s) == IF s = {} THEN 0 ELSE sums[s \ {Max(s)}] + q[Max(s)]

LEMMA SumKeptIsSum ==
    ASSUME NEW q \in Seq(Nat)
    PROVE  Weights(q, Len(q)) /\ \E f : IsSum(f, q, Len(q)) /\ SumKept(q) = f[1 .. Len(q)]
  <1>. PICK n : n = Len(q)
    OBVIOUS
  <1>. DEFINE M == 1 .. n
              F == CHOOSE sums : sums = [s \in SUBSET M |-> AddKept(sums, q, s)]
  <1>1. n \in Nat /\ DOMAIN q = M
    OBVIOUS
  <1>2. Weights(q, n)
    BY <1>1 DEF Weights
  <1>3. PICK f \in [SUBSET M -> Nat] : IsSum(f, q, n)
    BY <1>1, <1>2, SumExists
  <1>4. f = [s \in SUBSET M |-> AddKept(f, q, s)]
    BY <1>3 DEF IsSum, AddKept
  <1>5. F = [s \in SUBSET M |-> AddKept(F, q, s)]
    BY <1>4
  <1>6. SumKept(q) = F[M]
    BY <1>1 DEF SumKept, FoldLeft, MapThenFoldSet, AddKept
  <1>. HIDE DEF F
  <1>7. IsSum(F, q, n)
    BY <1>5 DEF IsSum, AddKept
  <1>. QED
    BY <1>2, <1>6, <1>7

LEMMA SumKeptOfNone == SumKept(<<>>) = 0
  <1>. PICK q, n : q = <<>> /\ n = Len(q)
    OBVIOUS
  <1>1. q \in Seq(Nat) /\ 1 .. n = {}
    OBVIOUS
  <1>2. PICK f : IsSum(f, q, n) /\ SumKept(q) = f[1 .. n]
    BY <1>1, SumKeptIsSum
  <1>. QED
    BY <1>1, <1>2 DEF IsSum

LEMMA SumKeptOfOneMore ==
    ASSUME NEW q \in Seq(Nat), NEW x \in Nat
    PROVE  SumKept(q) \in Nat /\ SumKept(Append(q, x)) = SumKept(q) + x
  <1>1. PICK n, m, r : n = Len(q) /\ m = n + 1 /\ r = Append(q, x)
    OBVIOUS
  <1>2. n \in Nat /\ r \in Seq(Nat) /\ Len(r) = m /\ r[m] = x /\ \A i \in 1 .. n : r[i] = q[i]
    BY <1>1
  <1>3. PICK f : Weights(q, n) /\ IsSum(f, q, n) /\ SumKept(q) = f[1 .. n]
    BY <1>1, SumKeptIsSum
  <1>4. PICK g : Weights(r, m) /\ IsSum(g, r, m) /\ SumKept(r) = g[1 .. m]
    BY <1>2, SumKeptIsSum
  <1>5. Agree(q, r, n) /\ n \in Nat /\ m = n + 1
    BY <1>1, <1>2 DEF Agree
  <1>6. g[1 .. m] = f[1 .. n] + r[m]
    BY <1>3, <1>4, <1>5, SumOfLonger
  <1>7. f[1 .. n] \in Nat
    <2>1. n \in 0 .. n
      BY <1>5
    <2>. QED
      BY <1>3, <1>5, <2>1, SumsAreNat
  <1>. QED
    BY <1>1, <1>2, <1>3, <1>4, <1>6, <1>7

\* Of the fragments, those of some kinds.
AddOfKind(sums, q, kinds, s) ==
    IF s = {} THEN 0
    ELSE sums[s \ {Max(s)}] + (IF q[Max(s)].match.kind \in kinds THEN q[Max(s)].length ELSE 0)

LEMMA JoinedIsNat ==
    ASSUME fragments \in Seq(Fragment), NEW kinds
    PROVE  Joined(kinds) \in Nat
  <1>. PICK q, n : q = fragments /\ n = Len(q)
    OBVIOUS
  <1>. DEFINE M == 1 .. n
              w == [i \in M |-> IF q[i].match.kind \in kinds THEN q[i].length ELSE 0]
              F == CHOOSE sums : sums = [s \in SUBSET M |-> AddOfKind(sums, q, kinds, s)]
              these == {i \in M : q[i].match.kind \in kinds}
  <1>1. n \in Nat /\ DOMAIN q = M /\ \A i \in M : q[i] \in Fragment
    OBVIOUS
  <1>2. Weights(w, n)
    <2>1. \A x \in Fragment : x.length \in Nat
      BY DEF Fragment
    <2>. QED
      BY <1>1, <2>1 DEF Weights
  <1>3. \A s \in SUBSET M : s # {} =>
           w[Max(s)] = IF q[Max(s)].match.kind \in kinds THEN q[Max(s)].length ELSE 0
    BY <1>1, LastIsIn
  <1>. HIDE DEF w
  <1>4. PICK f \in [SUBSET M -> Nat] : IsSum(f, w, n)
    BY <1>1, <1>2, SumExists
  <1>5. f = [s \in SUBSET M |-> AddOfKind(f, q, kinds, s)]
    BY <1>3, <1>4 DEF IsSum, AddOfKind
  <1>6. F = [s \in SUBSET M |-> AddOfKind(F, q, kinds, s)]
    BY <1>5
  <1>7. Joined(kinds) = IF these = {} THEN 0 ELSE F[M] + Cardinality(these) - 1
    BY <1>1 DEF Joined, FoldLeft, MapThenFoldSet, AddOfKind
  <1>. HIDE DEF F
  <1>8. IsSum(F, w, n)
    BY <1>3, <1>6 DEF IsSum, AddOfKind
  <1>9. F[M] \in Nat
    <2>1. n \in 0 .. n
      BY <1>1
    <2>. QED
      BY <1>1, <1>2, <1>8, <2>1, SumsAreNat
  <1>10. IsFiniteSet(these)
    <2>1. IsFiniteSet(M)
      BY <1>1, FS_Interval
    <2>2. these \subseteq M
      OBVIOUS
    <2>. QED
      BY <2>1, <2>2, FS_Subset
  <1>. HIDE DEF these
  <1>11. Cardinality(these) \in Nat /\ (these # {} => Cardinality(these) > 0)
    BY <1>10, FS_CardinalityType, FS_EmptySet
  <1>. QED
    BY <1>7, <1>9, <1>11

-----------------------------------------------------------------------------
(* Retrieval *)

LEMMA FitsBySums == PromptFits <=>
    /\ SumKept(prompt) + Cardinality(Blocks) * (HeaderLength + 2) - 2 <= MaxCharacters
    /\ \A j \in Blocks : \A i \in 1 .. j - 1 : prompt[i] = sections[i]
  BY DEF PromptFits, SumKept

LEMMA NoPromptFits == prompt = <<>> => PromptFits
  <1>. HAVE prompt = <<>>
  <1>1. SumKept(prompt) = 0 /\ Blocks = {} /\ Cardinality(Blocks) = 0
    BY SumKeptOfNone, FS_EmptySet DEF Blocks
  <1>2. 0 * (HeaderLength + 2) = 0 /\ MaxCharacters \in Nat
    BY ContextBounds
  <1>. QED
    BY <1>1, <1>2, FitsBySums

LEMMA TakenIsSumTaken ==
    Taken = SumTaken(fragments) /\ Taken' = SumTaken(fragments')
  <1>1. Taken = SumTaken(fragments)
    BY DEF Taken, SumTaken
  <1>2. (Taken = SumTaken(fragments))'
    BY <1>1, PTL
  <1>. QED
    BY <1>1, <1>2

LEMMA SearchKeeps ==
    ASSUME ContextInv, Search
    PROVE  ContextInv'
  <1>1. /\ stage = "search" /\ next = 1 /\ fragments = <<>> /\ ~truncated /\ prompt = <<>>
        /\ sections \in Seq(Nat)
    BY DEF ContextInv, ContextTyped, StagesOK, Search
  <1>2. /\ stage' = "take" /\ next' = 1 /\ fragments' = <<>> /\ ~truncated' /\ truncated' = truncated
        /\ prompt' = <<>> /\ sections' = sections
    BY <1>1 DEF Search
  <1>3. PICK n \in 0 .. Limit : found' \in [1 .. n -> Matches]
    BY DEF Search
  <1>4. found' \in Seq(Match)
    <2>1. n \in Nat
      BY ContextBounds
    <2>. QED
      BY <1>3, <2>1 DEF Matches
  <1>5. ContextTyped'
    BY <1>1, <1>2, <1>4 DEF ContextInv, ContextTyped
  <1>6. Taken' = 0 /\ MaxCharacters \in Nat
    BY <1>2, TakenIsSumTaken, SumTakenOfNone, ContextBounds
  <1>7. TakenOK'
    BY <1>2, <1>6 DEF TakenOK
  <1>8. StagesOK'
    BY <1>2 DEF StagesOK
  <1>9. PromptFits'
    <2>1. (prompt = <<>> => PromptFits)'
      BY NoPromptFits, PTL
    <2>. QED
      BY <1>2, <2>1
  <1>. QED
    BY <1>5, <1>7, <1>8, <1>9 DEF ContextInv

\* A match in hand, and the position after it.
LEMMA HandMoves ==
    ASSUME ContextInv, NEW m, InHand(m)
    PROVE  /\ stage = "take" /\ m = found[next] /\ m \in Match /\ next \in 1 .. Len(found)
           /\ next \in Nat /\ next + 1 \in 1 .. Len(found) + 1 /\ (next + 1) - 1 = next
           /\ Len(found) \in Nat /\ prompt = <<>>
           /\ \A i \in 1 .. next : i \in 1 .. next - 1 \/ i = next
  BY DEF ContextInv, ContextTyped, StagesOK, InHand

LEMMA SkipKeeps ==
    ASSUME ContextInv, NEW m, Skip(m)
    PROVE  ContextInv'
  <1>1. /\ InHand(m) /\ (~Acceptable(m) \/ Repeated(m)) /\ next' = next + 1
        /\ UNCHANGED <<stage, found, fragments, truncated, sections, prompt>>
    BY DEF Skip
  <1>2. /\ stage = "take" /\ m = found[next] /\ m \in Match /\ next \in 1 .. Len(found)
        /\ next \in Nat /\ next + 1 \in 1 .. Len(found) + 1 /\ (next + 1) - 1 = next
        /\ Len(found) \in Nat /\ prompt = <<>>
        /\ \A i \in 1 .. next : i \in 1 .. next - 1 \/ i = next
    BY <1>1, HandMoves
  <1>3. ContextTyped'
    BY <1>1, <1>2 DEF ContextInv, ContextTyped
  <1>4. Taken' = Taken
    BY <1>1, TakenIsSumTaken
  <1>5. \A i : Repeated(found[i])' <=> Repeated(found[i])
    BY <1>1 DEF Repeated
  <1>6. ~truncated => \A i \in 1 .. next' - 1 : Acceptable(found[i]) => Repeated(found[i])
    BY <1>1, <1>2 DEF ContextInv, TakenOK
  <1>7. TakenOK'
    BY <1>1, <1>4, <1>5, <1>6 DEF ContextInv, TakenOK, Acceptable
  <1>8. StagesOK'
    BY <1>1, <1>2 DEF ContextInv, StagesOK
  <1>9. PromptFits'
    <2>1. (prompt = <<>> => PromptFits)'
      BY NoPromptFits, PTL
    <2>. QED
      BY <1>1, <1>2, <2>1
  <1>. QED
    BY <1>3, <1>7, <1>8, <1>9 DEF ContextInv

LEMMA NoRoomKeeps ==
    ASSUME ContextInv, NEW m, NoRoom(m)
    PROVE  ContextInv'
  <1>1. /\ InHand(m) /\ Remaining <= 0 /\ next' = Len(found) + 1 /\ truncated' = TRUE
        /\ UNCHANGED <<stage, found, fragments, sections, prompt>>
    BY DEF NoRoom
  <1>2. /\ stage = "take" /\ Len(found) \in Nat /\ prompt = <<>>
    BY <1>1, HandMoves
  <1>3. ContextTyped'
    BY <1>1, <1>2 DEF ContextInv, ContextTyped
  <1>4. Taken' = MaxCharacters
    <2>1. Taken' = Taken
      BY <1>1, TakenIsSumTaken
    <2>2. Taken \in Nat /\ Taken <= MaxCharacters /\ MaxCharacters \in Nat
      <3>1. fragments \in Seq(Fragment) /\ [match |-> m, length |-> 0] \in Fragment
        BY <1>1, HandMoves DEF ContextInv, ContextTyped, Fragment
      <3>. QED
        BY <3>1, TakenIsSumTaken, SumTakenOfOneMore, ContextBounds DEF ContextInv, TakenOK
    <2>. QED
      BY <1>1, <2>1, <2>2 DEF Remaining
  <1>5. MaxCharacters <= MaxCharacters
    BY ContextBounds
  <1>6. TakenOK'
    BY <1>1, <1>4, <1>5 DEF ContextInv, TakenOK
  <1>7. StagesOK'
    BY <1>1, <1>2 DEF ContextInv, StagesOK
  <1>8. PromptFits'
    <2>1. (prompt = <<>> => PromptFits)'
      BY NoPromptFits, PTL
    <2>. QED
      BY <1>1, <1>2, <2>1
  <1>. QED
    BY <1>3, <1>6, <1>7, <1>8 DEF ContextInv

\* What is put at the end fits; it is the whole text, or it fills the budget.
LEMMA TakeKeeps ==
    ASSUME ContextInv, NEW m, Take(m)
    PROVE  ContextInv'
  <1>1. PICK length : length = Shorter(LengthOf[m.text], Remaining)
    OBVIOUS
  <1>2. PICK x : x = [match |-> m, length |-> length]
    OBVIOUS
  <1>3. /\ InHand(m) /\ Acceptable(m) /\ ~Repeated(m) /\ Remaining > 0
        /\ fragments' = Append(fragments, x) /\ next' = next + 1
        /\ truncated' = (truncated \/ length < LengthOf[m.text])
        /\ UNCHANGED <<stage, found, sections, prompt>>
    BY <1>1, <1>2 DEF Take
  <1>4. /\ stage = "take" /\ m = found[next] /\ m \in Match /\ next \in 1 .. Len(found)
        /\ next \in Nat /\ next + 1 \in 1 .. Len(found) + 1 /\ (next + 1) - 1 = next
        /\ Len(found) \in Nat /\ prompt = <<>>
        /\ \A i \in 1 .. next : i \in 1 .. next - 1 \/ i = next
    BY <1>3, HandMoves
  <1>5. fragments \in Seq(Fragment) /\ TakenOK
    BY DEF ContextInv, ContextTyped
  <1>6. Taken \in Nat
    <2>1. [match |-> m, length |-> 0] \in Fragment
      BY <1>4 DEF Fragment
    <2>. QED
      BY <1>5, <2>1, TakenIsSumTaken, SumTakenOfOneMore
  <1>7. m.text \in Text /\ LengthOf[m.text] \in Nat \ {0}
    <2>1. m.text \in Text
      BY <1>3, <1>4 DEF Match, Acceptable
    <2>. QED
      BY <2>1, ContextTexts
  <1>8. /\ length \in Nat /\ length <= LengthOf[m.text] /\ Taken + length <= MaxCharacters
        /\ length < LengthOf[m.text] => Taken + length = MaxCharacters
    BY <1>1, <1>3, <1>6, <1>7, ContextBounds DEF Remaining, Shorter
  <1>9. x \in Fragment /\ x.match = m /\ x.length = length
    BY <1>2, <1>4, <1>8 DEF Fragment
  <1>10. Taken' = Taken + length
    BY <1>3, <1>5, <1>9, TakenIsSumTaken, SumTakenOfOneMore
  <1>11. ~truncated
    BY <1>3, <1>5, <1>6, ContextBounds DEF TakenOK, Remaining
  <1>. PICK n : n = Len(fragments)
    OBVIOUS
  <1>12. /\ n \in Nat /\ DOMAIN fragments = 1 .. n /\ DOMAIN fragments' = 1 .. n + 1
         /\ fragments' \in Seq(Fragment) /\ fragments'[n + 1] = x
         /\ \A i \in 1 .. n : fragments'[i] = fragments[i]
         /\ \A i \in 1 .. n + 1 : i \in 1 .. n \/ i = n + 1
    BY <1>3, <1>5, <1>9
  <1>13. \A i \in 1 .. n : fragments[i].match.text # m.text
    BY <1>3, <1>12 DEF Repeated
  <1>14. ContextTyped'
    BY <1>3, <1>4, <1>12 DEF ContextInv, ContextTyped
  <1>15. TakenOK'
    <2>1. \A i \in DOMAIN fragments' : fragments'[i].match.text \in Text
      BY <1>5, <1>7, <1>9, <1>12 DEF TakenOK
    <2>2. \A i, j \in DOMAIN fragments' :
             fragments'[i].match.text = fragments'[j].match.text => i = j
      BY <1>5, <1>9, <1>12, <1>13 DEF TakenOK
    <2>3. ~truncated' => \A i \in DOMAIN fragments' :
             fragments'[i].length = LengthOf[fragments'[i].match.text]
      <3>1. ~truncated' => length = LengthOf[m.text]
        <4>1. ~truncated' => ~(length < LengthOf[m.text])
          BY <1>3, Zenon
        <4>. QED
          BY <1>7, <1>8, <4>1
      <3>2. \A i \in 1 .. n : fragments[i].length = LengthOf[fragments[i].match.text]
        BY <1>5, <1>11, <1>12 DEF TakenOK
      <3>. QED
        BY <1>9, <1>12, <3>1, <3>2
    <2>4. \A i \in 1 .. next' - 1 : Acceptable(found[i]) => Repeated(found[i])'
      <3>1. \A c : Repeated(c) => Repeated(c)'
        BY <1>12 DEF Repeated
      <3>2. Repeated(m)'
        <4>1. n + 1 \in DOMAIN fragments' /\ fragments'[n + 1].match.text = m.text
          BY <1>9, <1>12
        <4>. QED
          BY <4>1 DEF Repeated
      <3>. QED
        BY <1>3, <1>4, <1>5, <1>11, <3>1, <3>2 DEF TakenOK
    <2>5. Taken' <= MaxCharacters /\ (truncated' => Taken' = MaxCharacters)
      BY <1>3, <1>8, <1>10, <1>11
    <2>. QED
      BY <1>3, <2>1, <2>2, <2>3, <2>4, <2>5 DEF TakenOK, Acceptable
  <1>16. StagesOK'
    BY <1>3, <1>4 DEF ContextInv, StagesOK
  <1>17. PromptFits'
    <2>1. (prompt = <<>> => PromptFits)'
      BY NoPromptFits, PTL
    <2>. QED
      BY <1>3, <1>4, <2>1
  <1>. QED
    BY <1>14, <1>15, <1>16, <1>17 DEF ContextInv

LEMMA GroupKeeps ==
    ASSUME ContextInv, Group
    PROVE  ContextInv'
  <1>1. /\ stage = "take" /\ next \notin DOMAIN found /\ stage' = "assemble"
        /\ UNCHANGED <<found, next, fragments, truncated, prompt>>
    BY DEF Group
  <1>2. PICK bible \in OwnLength, story \in OwnLength, characters \in OwnLength, style \in OwnLength :
          sections' = <<bible, story, characters, style, Joined({"memory"}), Joined({"research"}),
                        Joined({"document"}), Joined({"chapter"}),
                        Joined({"story_bible", "character"})>>
    BY DEF Group
  <1>3. \A kinds : Joined(kinds) \in Nat
    BY JoinedIsNat DEF ContextInv, ContextTyped
  <1>4. sections' \in Seq(Nat)
    <2>1. bible \in Nat /\ story \in Nat /\ characters \in Nat /\ style \in Nat
      BY ContextBounds
    <2>2. PICK k1, k2, k3, k4, k5 : /\ k1 = Joined({"memory"}) /\ k2 = Joined({"research"})
                                   /\ k3 = Joined({"document"}) /\ k4 = Joined({"chapter"})
                                   /\ k5 = Joined({"story_bible", "character"})
      OBVIOUS
    <2>3. k1 \in Nat /\ k2 \in Nat /\ k3 \in Nat /\ k4 \in Nat /\ k5 \in Nat
      BY <1>3, <2>2
    <2>4. sections' = <<bible, story, characters, style, k1, k2, k3, k4, k5>>
      BY <1>2, <2>2
    <2>. QED
      BY <2>1, <2>3, <2>4
  <1>5. ContextTyped'
    BY <1>1, <1>4 DEF ContextInv, ContextTyped
  <1>6. TakenOK'
    <2>1. Taken' = Taken
      BY <1>1, TakenIsSumTaken
    <2>2. \A c : Repeated(c)' <=> Repeated(c)
      BY <1>1 DEF Repeated
    <2>. QED
      BY <1>1, <2>1, <2>2 DEF ContextInv, TakenOK, Acceptable
  <1>7. next = Len(found) + 1 /\ prompt = <<>>
    BY <1>1 DEF ContextInv, ContextTyped, StagesOK
  <1>8. StagesOK'
    BY <1>1, <1>7 DEF StagesOK
  <1>9. PromptFits'
    <2>1. (prompt = <<>> => PromptFits)'
      BY NoPromptFits, PTL
    <2>. QED
      BY <1>1, <1>7, <2>1
  <1>. QED
    BY <1>5, <1>6, <1>8, <1>9 DEF ContextInv

-----------------------------------------------------------------------------
(* Assembly *)

Blank == [room |-> MaxCharacters, full |-> FALSE, kept |-> <<>>]
Block == [room : Int, full : BOOLEAN, kept : Seq(Nat)]

\* The blocks of kept sections, and what each costs beside its text.
BlocksIn(kept, k) == {i \in 1 .. k : kept[i] > 0}
Overhead(kept, k) == Cardinality(BlocksIn(kept, k)) * (HeaderLength + 2)

\* After k sections: what is used is counted, and a section is kept only after whole ones.
Assembled(done, k) ==
    /\ done \in Block /\ Len(done.kept) = k
    /\ done.room >= -2
    /\ SumKept(done.kept) + Overhead(done.kept, k) = MaxCharacters - done.room
    /\ done.room > 0 /\ ~done.full => \A i \in 1 .. k : done.kept[i] = sections[i]
    /\ \A j \in 1 .. k : done.kept[j] > 0 => \A i \in 1 .. j - 1 : done.kept[i] = sections[i]

\* A section is clipped, or dropped; after that no other one is added.
SectionAdded(done, new, length, x) ==
    /\ new \in Block /\ new.kept = Append(done.kept, x)
    /\ \/ /\ x = 0 /\ new.room = done.room
          /\ new.room > 0 /\ ~new.full => done.room > 0 /\ ~done.full /\ length = 0
       \/ /\ x > 0 /\ ~done.full /\ done.room > 0
          /\ x <= length /\ x <= done.room - HeaderLength
          /\ x < length => x = done.room - HeaderLength
          /\ new.room = done.room - (HeaderLength + x + 2)

LEMMA AddSectionAdds ==
    ASSUME NEW done \in Block, NEW length \in Nat
    PROVE  \E x \in Nat : SectionAdded(done, AddSection(done, length), length, x)
  <1>1. PICK room \in Int, full \in BOOLEAN, kept \in Seq(Nat) :
           done = [room |-> room, full |-> full, kept |-> kept]
    BY DEF Block
  <1>2. PICK allowance, clipped : /\ allowance = room - HeaderLength
                                 /\ clipped = Shorter(length, allowance)
    OBVIOUS
  <1>3. HeaderLength \in Nat /\ \A x \in Nat : Append(kept, x) \in Seq(Nat)
    BY ContextBounds
  <1>4. ASSUME NEW x \in Nat, NEW r \in Int, NEW f \in BOOLEAN, NEW new,
               new = [room |-> r, full |-> f, kept |-> Append(kept, x)]
        PROVE  new \in Block /\ new.room = r /\ new.full = f /\ new.kept = Append(done.kept, x)
    BY <1>1, <1>3, <1>4 DEF Block
  <1>5. CASE full \/ length = 0 \/ room <= 0
    <2>1. AddSection(done, length) = [room |-> room, full |-> full, kept |-> Append(kept, 0)]
      BY <1>1, <1>5 DEF AddSection
    <2>. QED
      BY <1>1, <1>4, <1>5, <2>1 DEF SectionAdded
  <1>6. CASE ~(full \/ length = 0 \/ room <= 0) /\ allowance <= 0
    <2>1. AddSection(done, length) = [room |-> room, full |-> TRUE, kept |-> Append(kept, 0)]
      BY <1>1, <1>2, <1>6 DEF AddSection
    <2>2. PICK f \in BOOLEAN : f /\ f = TRUE
      OBVIOUS
    <2>3. AddSection(done, length) = [room |-> room, full |-> f, kept |-> Append(kept, 0)]
      BY <2>1, <2>2
    <2>4. PICK new : new = AddSection(done, length)
      OBVIOUS
    <2>5. new \in Block /\ new.room = room /\ new.full = f /\ new.kept = Append(done.kept, 0)
      BY <1>4, <2>3, <2>4
    <2>6. new.full /\ new.room = done.room
      BY <1>1, <2>2, <2>5
    <2>7. SectionAdded(done, new, length, 0)
      BY <2>5, <2>6 DEF SectionAdded
    <2>. QED
      BY <2>4, <2>7
  <1>7. CASE ~(full \/ length = 0 \/ room <= 0) /\ ~(allowance <= 0)
    <2>1. AddSection(done, length) =
            [room |-> room - (HeaderLength + clipped + 2), full |-> full, kept |-> Append(kept, clipped)]
      BY <1>1, <1>2, <1>7 DEF AddSection, RoomAfter
    <2>2. /\ clipped \in Nat /\ clipped > 0 /\ clipped <= length /\ clipped <= room - HeaderLength
          /\ clipped < length => clipped = room - HeaderLength
          /\ room - (HeaderLength + clipped + 2) \in Int
      BY <1>2, <1>3, <1>7 DEF Shorter
    <2>3. PICK new, r : new = AddSection(done, length) /\ r = room - (HeaderLength + clipped + 2)
      OBVIOUS
    <2>4. new \in Block /\ new.room = r /\ new.full = full /\ new.kept = Append(done.kept, clipped)
      BY <1>4, <2>1, <2>2, <2>3
    <2>5. ~done.full /\ done.room = room /\ room > 0
      BY <1>1, <1>7
    <2>6. SectionAdded(done, new, length, clipped)
      BY <2>2, <2>3, <2>4, <2>5 DEF SectionAdded
    <2>. QED
      BY <2>2, <2>3, <2>6
  <1>. QED
    BY <1>5, <1>6, <1>7

\* One more section in kept costs its text, and its header and blank line if it has any.
LEMMA OverheadOfOneMore ==
    ASSUME NEW kept \in Seq(Nat), NEW k \in Nat, Len(kept) = k, NEW x \in Nat
    PROVE  /\ Overhead(kept, k) \in Nat
           /\ x = 0 => Overhead(Append(kept, x), k + 1) = Overhead(kept, k)
           /\ x > 0 => Overhead(Append(kept, x), k + 1) = Overhead(kept, k) + (HeaderLength + 2)
  <1>1. PICK b, r, h : b = BlocksIn(kept, k) /\ r = Append(kept, x) /\ h = HeaderLength + 2
    OBVIOUS
  <1>2. r[k + 1] = x /\ \A i \in 1 .. k : r[i] = kept[i]
    BY <1>1
  <1>3. \A i : i \in 1 .. k + 1 <=> i \in 1 .. k \/ i = k + 1
    OBVIOUS
  <1>4. b \subseteq 1 .. k /\ k + 1 \notin b
    BY <1>1 DEF BlocksIn
  <1>5. IsFiniteSet(b) /\ Cardinality(b) \in Nat
    <2>1. IsFiniteSet(1 .. k)
      BY FS_Interval
    <2>. QED
      BY <1>4, <2>1, FS_Subset, FS_CardinalityType
  <1>6. x = 0 => BlocksIn(r, k + 1) = b
    BY <1>1, <1>2, <1>3 DEF BlocksIn
  <1>7. x > 0 => BlocksIn(r, k + 1) = b \cup {k + 1}
    BY <1>1, <1>2, <1>3 DEF BlocksIn
  <1>8. Cardinality(b \cup {k + 1}) = Cardinality(b) + 1
    BY <1>4, <1>5, FS_AddElement
  <1>9. PICK c : c = Cardinality(b)
    OBVIOUS
  <1>10. h \in Nat /\ c \in Nat /\ c * h \in Nat /\ (c + 1) * h = c * h + h
    BY <1>1, <1>5, <1>9, ContextBounds
  <1>11. Overhead(kept, k) = c * h
    BY <1>1, <1>9 DEF Overhead
  <1>12. x = 0 => Overhead(r, k + 1) = c * h
    BY <1>1, <1>6, <1>9 DEF Overhead
  <1>13. x > 0 => Overhead(r, k + 1) = (c + 1) * h
    BY <1>1, <1>7, <1>8, <1>9 DEF Overhead
  <1>. QED
    BY <1>1, <1>10, <1>11, <1>12, <1>13

LEMMA AssembledStep ==
    ASSUME sections \in Seq(Nat), NEW k \in Nat, k + 1 <= Len(sections),
           NEW done, Assembled(done, k)
    PROVE  Assembled(AddSection(done, sections[k + 1]), k + 1)
  <1>1. PICK length, new : length = sections[k + 1] /\ new = AddSection(done, length)
    OBVIOUS
  <1>2. /\ done \in Block /\ Len(done.kept) = k /\ done.room >= -2
        /\ SumKept(done.kept) + Overhead(done.kept, k) = MaxCharacters - done.room
        /\ done.room > 0 /\ ~done.full => \A i \in 1 .. k : done.kept[i] = sections[i]
        /\ \A j \in 1 .. k : done.kept[j] > 0 => \A i \in 1 .. j - 1 : done.kept[i] = sections[i]
    BY DEF Assembled
  <1>3. length \in Nat
    BY <1>1
  <1>4. PICK x \in Nat : SectionAdded(done, new, length, x)
    BY <1>1, <1>2, <1>3, AddSectionAdds
  <1>5. PICK kept, r : kept = done.kept /\ r = Append(kept, x)
    OBVIOUS
  <1>6. kept \in Seq(Nat) /\ done.room \in Int /\ Len(kept) = k
    BY <1>2, <1>5 DEF Block
  <1>7. r \in Seq(Nat) /\ Len(r) = k + 1 /\ r[k + 1] = x /\ \A i \in 1 .. k : r[i] = kept[i]
    BY <1>5, <1>6
  <1>8. PICK sum, over, h, m : /\ sum = SumKept(kept) /\ over = Overhead(kept, k)
                              /\ h = HeaderLength /\ m = MaxCharacters
    OBVIOUS
  <1>9. /\ sum \in Nat /\ over \in Nat /\ h \in Nat /\ m \in Nat
        /\ SumKept(r) = sum + x
        /\ x = 0 => Overhead(r, k + 1) = over
        /\ x > 0 => Overhead(r, k + 1) = over + (h + 2)
    <2>1. sum \in Nat /\ SumKept(r) = sum + x
      BY <1>5, <1>6, <1>8, SumKeptOfOneMore
    <2>2. /\ over \in Nat
          /\ x = 0 => Overhead(r, k + 1) = over
          /\ x > 0 => Overhead(r, k + 1) = over + (h + 2)
      BY <1>5, <1>6, <1>8, OverheadOfOneMore
    <2>. QED
      BY <1>8, <2>1, <2>2, ContextBounds
  <1>10. new \in Block /\ new.kept = r /\ new.room \in Int
    BY <1>4, <1>5 DEF SectionAdded, Block
  <1>11. /\ new.room >= -2
         /\ SumKept(r) + Overhead(r, k + 1) = m - new.room
         /\ new.room > 0 /\ ~new.full => x = length
         /\ x > 0 \/ (new.room > 0 /\ ~new.full) => done.room > 0 /\ ~done.full
    <2>1. PICK o, s : o = Overhead(r, k + 1) /\ s = SumKept(r)
      OBVIOUS
    <2>2. sum + over = m - done.room /\ done.room >= -2 /\ done.room \in Int
      BY <1>2, <1>5, <1>6, <1>8
    <2>3. CASE /\ x = 0 /\ new.room = done.room
               /\ new.room > 0 /\ ~new.full => done.room > 0 /\ ~done.full /\ length = 0
      BY <1>9, <1>10, <2>1, <2>2, <2>3
    <2>4. CASE /\ x > 0 /\ ~done.full /\ done.room > 0
               /\ x <= length /\ x <= done.room - HeaderLength
               /\ x < length => x = done.room - HeaderLength
               /\ new.room = done.room - (HeaderLength + x + 2)
      <3>1. new.room = done.room - (h + x + 2) /\ o = over + (h + 2) /\ s = sum + x
        BY <1>8, <1>9, <2>1, <2>4
      <3>2. new.room >= -2 /\ s + o = m - new.room /\ (new.room > 0 => x = length)
        <4>1. PICK d \in Int, w \in Int : d = done.room /\ w = new.room
          BY <1>10, <2>2
        <4>2. w = d - (h + x + 2) /\ x <= d - h /\ (x < length => x = d - h)
          BY <1>8, <2>4, <3>1, <4>1
        <4>3. w >= -2 /\ (w > 0 => x = length)
          <5>1. x <= length /\ x \in Nat /\ length \in Nat /\ h \in Nat
            BY <1>3, <1>9, <2>4
          <5>2. x < length => w = -2
            BY ONLY <4>1, <4>2, <5>1
          <5>3. w >= -2
            BY ONLY <4>1, <4>2, <5>1
          <5>. QED
            BY <4>1, <5>1, <5>2, <5>3
        <4>4. s + o = m - w
          <5>1. sum + over = m - d /\ s = sum + x /\ o = over + (h + 2)
            BY <2>2, <3>1, <4>1
          <5>2. sum \in Int /\ over \in Int /\ h \in Int /\ m \in Int /\ x \in Int
            BY <1>9
          <5>3. s + o = (sum + over) + (h + x + 2)
            BY <5>1, <5>2
          <5>4. m - w = (m - d) + (h + x + 2)
            BY <4>1, <4>2, <5>2
          <5>. QED
            BY <5>1, <5>3, <5>4
        <4>. QED
          BY <4>1, <4>3, <4>4
      <3>. QED
        BY <2>1, <2>4, <3>2
    <2>. QED
      BY <1>4, <2>3, <2>4 DEF SectionAdded
  <1>12. \A i : i \in 1 .. k + 1 <=> i \in 1 .. k \/ i = k + 1
    OBVIOUS
  <1>13. new.room > 0 /\ ~new.full => \A i \in 1 .. k + 1 : r[i] = sections[i]
    BY <1>1, <1>2, <1>5, <1>7, <1>11, <1>12
  <1>14. ASSUME NEW j \in 1 .. k + 1, r[j] > 0
         PROVE  \A i \in 1 .. j - 1 : r[i] = sections[i]
    <2>1. CASE j \in 1 .. k
      <3>1. \A i \in 1 .. j - 1 : i \in 1 .. k
        BY <2>1
      <3>. QED
        BY <1>2, <1>5, <1>7, <1>14, <2>1, <3>1
    <2>2. CASE j = k + 1
      <3>1. j - 1 = k
        BY <2>2
      <3>. QED
        BY <1>2, <1>5, <1>7, <1>11, <1>14, <2>2, <3>1
    <2>. QED
      BY <1>12, <2>1, <2>2
  <1>. QED
    BY <1>1, <1>7, <1>8, <1>10, <1>11, <1>13, <1>14 DEF Assembled

\* One step of the fold over the sections.
AddTo(dones, q, s) == IF s = {} THEN Blank ELSE AddSection(dones[s \ {Max(s)}], q[Max(s)])

LEMMA AssembledAll ==
    ASSUME sections \in Seq(Nat)
    PROVE  Assembled(FoldLeft(AddSection, Blank, sections), Len(sections))
  <1>1. PICK q, n : q = sections /\ n = Len(q)
    OBVIOUS
  <1>. DEFINE M == 1 .. n
              step == [a \in M \X Block |-> AddSection(a[2], q[a[1]])]
              F == CHOOSE dones : dones = [s \in SUBSET M |-> AddTo(dones, q, s)]
  <1>2. n \in Nat /\ q \in Seq(Nat) /\ DOMAIN q = M /\ \A i \in M : q[i] \in Nat
    BY <1>1
  <1>3. Blank \in Block
    BY ContextBounds DEF Blank, Block
  <1>4. step \in [M \X Block -> Block]
    <2>1. ASSUME NEW a \in M \X Block
          PROVE  AddSection(a[2], q[a[1]]) \in Block
      <3>1. a[2] \in Block /\ q[a[1]] \in Nat
        BY <1>2
      <3>. QED
        BY <3>1, AddSectionAdds DEF SectionAdded
    <2>. QED
      BY <2>1
  <1>5. PICK f \in [SUBSET M -> Block] : IsLeftFold(f, n, Blank, step)
    <2>. HIDE DEF step
    <2>. QED
      BY <1>2, <1>3, <1>4, LeftFoldExists
  <1>6. ASSUME NEW s \in SUBSET M, s # {}
        PROVE  f[s] = AddSection(f[s \ {Max(s)}], q[Max(s)])
    <2>1. Max(s) \in M /\ f[s \ {Max(s)}] \in Block
      BY <1>2, <1>6, LastIsIn
    <2>2. f[s] = step[<<Max(s), f[s \ {Max(s)}]>>]
      BY <1>5, <1>6 DEF IsLeftFold
    <2>. QED
      BY <2>1, <2>2
  <1>7. f = [s \in SUBSET M |-> AddTo(f, q, s)]
    BY <1>5, <1>6 DEF IsLeftFold, AddTo
  <1>8. F = [s \in SUBSET M |-> AddTo(F, q, s)]
    BY <1>7
  <1>9. FoldLeft(AddSection, Blank, q) = F[M]
    BY <1>2 DEF FoldLeft, MapThenFoldSet, AddTo
  <1>. HIDE DEF F
  <1>. DEFINE X == {k \in Nat : k <= n => Assembled(F[1 .. k], k)}
  <1>10. 0 \in X
    <2>1. 1 .. 0 = {} /\ F[{}] = Blank
      BY <1>8 DEF AddTo
    <2>2. Overhead(<<>>, 0) = 0
      <3>1. BlocksIn(<<>>, 0) = {} /\ Cardinality({}) = 0
        BY FS_EmptySet DEF BlocksIn
      <3>2. 0 * (HeaderLength + 2) = 0
        BY ContextBounds
      <3>. QED
        BY <3>1, <3>2 DEF Overhead
    <2>3. Assembled(Blank, 0)
      <3>1. Blank.room = MaxCharacters /\ Blank.kept = <<>> /\ Len(<<>>) = 0
        BY DEF Blank
      <3>. QED
        BY <1>3, <2>2, <3>1, SumKeptOfNone, ContextBounds DEF Assembled
    <2>. QED
      BY <2>1, <2>3
  <1>11. ASSUME NEW k \in Nat, k \in X
         PROVE  k + 1 \in X
    <2>1. CASE k + 1 <= n
      <3>1. Assembled(F[1 .. k], k)
        BY <1>2, <1>11, <2>1
      <3>2. PICK s : s = 1 .. (k + 1)
        OBVIOUS
      <3>3. s \in SUBSET M
        BY <1>2, <2>1, <3>2
      <3>4. Max(s) = k + 1 /\ s \ {k + 1} = 1 .. k /\ s # {}
        BY <3>2, LastOfInitial
      <3>5. F[s] = AddSection(F[1 .. k], q[k + 1])
        BY <1>8, <3>3, <3>4 DEF AddTo
      <3>6. Assembled(AddSection(F[1 .. k], q[k + 1]), k + 1)
        BY <1>1, <2>1, <3>1, AssembledStep
      <3>. QED
        BY <3>2, <3>5, <3>6
    <2>. QED
      BY <2>1
  <1>12. Nat \subseteq X
    <2>. HIDE DEF X
    <2>. QED
      BY <1>10, <1>11, NumberByNumber
  <1>13. Assembled(F[1 .. n], n)
    BY <1>2, <1>12
  <1>. QED
    BY <1>1, <1>9, <1>13

LEMMA AssembleKeeps ==
    ASSUME ContextInv, Assemble
    PROVE  ContextInv'
  <1>1. sections \in Seq(Nat) /\ stage = "assemble"
    BY DEF ContextInv, ContextTyped, Assemble
  <1>2. PICK done, n : done = FoldLeft(AddSection, Blank, sections) /\ n = Len(sections)
    OBVIOUS
  <1>3. /\ prompt' = done.kept /\ stage' = "done"
        /\ UNCHANGED <<found, next, fragments, truncated, sections>>
    BY <1>2 DEF Assemble, Blank
  <1>4. Assembled(done, n) /\ n \in Nat
    BY <1>1, <1>2, AssembledAll
  <1>5. ContextTyped'
    BY <1>3 DEF ContextInv, ContextTyped
  <1>6. TakenOK'
    <2>1. Taken' = Taken
      BY <1>3, TakenIsSumTaken
    <2>2. \A c : Repeated(c)' <=> Repeated(c)
      BY <1>3 DEF Repeated
    <2>. QED
      BY <1>3, <2>1, <2>2 DEF ContextInv, TakenOK, Acceptable
  <1>7. StagesOK'
    BY <1>1, <1>3 DEF ContextInv, StagesOK
  <1>8. PromptFits'
    <2>1. PICK kept : kept = done.kept
      OBVIOUS
    <2>2. kept \in Seq(Nat) /\ Len(kept) = n /\ DOMAIN kept = 1 .. n
      BY <1>4, <2>1 DEF Assembled, Block
    <2>3. Blocks' = BlocksIn(kept, n)
      BY <1>3, <2>1, <2>2 DEF Blocks, BlocksIn
    <2>4. SumKept(kept) + Overhead(kept, n) - 2 <= MaxCharacters
      <3>1. SumKept(kept) \in Nat /\ Overhead(kept, n) \in Nat
        BY <1>4, <2>2, SumKeptOfOneMore, OverheadOfOneMore
      <3>2. PICK a \in Int, b \in Int : a = SumKept(kept) + Overhead(kept, n) /\ b = done.room
        BY <1>4, <3>1 DEF Assembled, Block
      <3>3. a = MaxCharacters - b /\ b >= -2
        BY <1>4, <2>1, <3>2 DEF Assembled
      <3>. QED
        BY <3>1, <3>2, <3>3, ContextBounds
    <2>5. \A j \in BlocksIn(kept, n) : \A i \in 1 .. j - 1 : kept[i] = sections[i]
      BY <1>4, <2>1 DEF Assembled, BlocksIn
    <2>6. (PromptFits <=>
             /\ SumKept(prompt) + Cardinality(Blocks) * (HeaderLength + 2) - 2 <= MaxCharacters
             /\ \A j \in Blocks : \A i \in 1 .. j - 1 : prompt[i] = sections[i])'
      BY FitsBySums, PTL
    <2>7. SumKept(prompt)' = SumKept(kept) /\ prompt' = kept /\ sections' = sections
      BY <1>3, <2>1
    <2>. QED
      BY <2>3, <2>4, <2>5, <2>6, <2>7 DEF Overhead
  <1>. QED
    BY <1>5, <1>6, <1>7, <1>8 DEF ContextInv

-----------------------------------------------------------------------------
(* The specification *)

LEMMA ContextInit_ContextInv == ContextInit => ContextInv
  <1>. SUFFICES ASSUME ContextInit
                PROVE  ContextInv
    OBVIOUS
  <1>1. ContextTyped /\ StagesOK
    <2>1. \A S : <<>> \in Seq(S)
      OBVIOUS
    <2>2. Len(found) = 0 /\ next \in 1 .. Len(found) + 1
      BY DEF ContextInit
    <2>. QED
      BY <2>1, <2>2 DEF ContextInit, ContextTyped, StagesOK
  <1>2. Taken = 0 /\ MaxCharacters \in Nat
    BY TakenIsSumTaken, SumTakenOfNone, ContextBounds DEF ContextInit
  <1>3. TakenOK
    BY <1>2 DEF ContextInit, TakenOK
  <1>4. PromptFits
    BY NoPromptFits DEF ContextInit
  <1>. QED
    BY <1>1, <1>3, <1>4 DEF ContextInv

LEMMA ContextInvKept == ContextInv /\ [ContextNext]_contextVars => ContextInv'
  <1>. SUFFICES ASSUME ContextInv, [ContextNext]_contextVars
                PROVE  ContextInv'
    OBVIOUS
  <1>1. CASE Search
    BY <1>1, SearchKeeps
  <1>2. ASSUME NEW m, Skip(m) \/ Take(m) \/ NoRoom(m)
        PROVE  ContextInv'
    BY <1>2, SkipKeeps, TakeKeeps, NoRoomKeeps
  <1>3. CASE Group
    BY <1>3, GroupKeeps
  <1>4. CASE Assemble
    BY <1>4, AssembleKeeps
  <1>5. CASE UNCHANGED contextVars
    <2>1. /\ Taken' = Taken
          /\ UNCHANGED <<stage, found, next, fragments, truncated, sections, prompt>>
      BY <1>5, TakenIsSumTaken DEF contextVars
    <2>2. \A c : Repeated(c)' <=> Repeated(c)
      BY <2>1 DEF Repeated
    <2>3. (PromptFits <=>
             /\ SumKept(prompt) + Cardinality(Blocks) * (HeaderLength + 2) - 2 <= MaxCharacters
             /\ \A j \in Blocks : \A i \in 1 .. j - 1 : prompt[i] = sections[i])'
      BY FitsBySums, PTL
    <2>4. Blocks' = Blocks /\ SumKept(prompt)' = SumKept(prompt)
      BY <2>1 DEF Blocks
    <2>5. PromptFits'
      BY <2>1, <2>3, <2>4, FitsBySums DEF ContextInv
    <2>. QED
      BY <2>1, <2>2, <2>5 DEF ContextInv, ContextTyped, TakenOK, StagesOK, Acceptable
  <1>. QED
    BY <1>1, <1>2, <1>3, <1>4, <1>5 DEF ContextNext

LEMMA ContextInductive == ContextSpec => []ContextInv
  BY ContextInit_ContextInv, ContextInvKept, PTL DEF ContextSpec

\* Whatever the lengths of the sections and of what was retrieved, the prompt with its headers and
\* blank lines is within the budget, and a section is in it only after whole ones.
THEOREM BudgetIsKept == ContextSpec => []PromptFits
  BY ContextInductive, PTL DEF ContextInv

\* A retrieval that is not flagged as truncated has everything usable that the search found, each
\* text once and entire; one that is flagged has used the budget up.
THEOREM TruncationIsFlagged == ContextSpec => []NothingHidden
  <1>1. ContextInv => NothingHidden
    <2>. SUFFICES ASSUME ContextInv, stage \in {"assemble", "done"}
                  PROVE  NothingHidden
      BY DEF NothingHidden
    <2>1. next = Len(found) + 1 /\ found \in Seq(Match) /\ Len(found) \in Nat
      BY DEF ContextInv, ContextTyped, StagesOK
    <2>2. \A m \in ToSet(found) : \E i \in 1 .. next - 1 : m = found[i]
      BY <2>1 DEF ToSet
    <2>. QED
      BY <2>2 DEF ContextInv, TakenOK, NothingHidden
  <1>. QED
    BY <1>1, ContextInductive, PTL

-----------------------------------------------------------------------------
(***************************************************************************)
(* Research.  Notes confirm each other only across hosts, and the          *)
(* vectors received are those of the texts, in their order.  The           *)
(* evidence of a note is from its own page, whatever redirects led         *)
(* there; the marks are made once, of notes that have none; and a batch    *)
(* of vectors continues a prefix of the texts.                             *)
(***************************************************************************)

ResearchStep == {"search", "synthesis", "fetch", "corroborate", "embed", "done", "failed"}

Jobs ==
    [step : ResearchStep, item : Nat, attempt : Nat, redirects : Nat, at : Url \cup {"none"}]

JobOK ==
    /\ job \in Jobs
    /\ Doing("fetch") => job.item \in DOMAIN collected /\ job.at \in Url

\* The evidence of a note is from its page.
FromItsPage(note) == \A e \in note.evidence : e.source = note.url

Notes == Seq(FoundNote)

NotesOK ==
    /\ collected \in Notes
    /\ \A i \in DOMAIN collected : FromItsPage(collected[i])
    /\ job.step \in {"search", "synthesis", "fetch", "corroborate"} =>
          \A i \in DOMAIN collected : collected[i].status # "corroborated"

\* The vectors are those of the texts before the item in hand.
VectorsOK ==
    /\ job.step \in {"search", "synthesis", "fetch", "corroborate"} => embeddings = <<>>
    /\ Doing("embed") =>
          /\ job.item \in 1 .. Len(Texts(collected))
          /\ embeddings = SubSeq(Texts(collected), 1, job.item - 1)
    /\ Doing("done") => embeddings = Texts(collected)

ResearchInv == JobOK /\ NotesOK /\ VectorsOK /\ CorroborationIndependent

-----------------------------------------------------------------------------
(* The calls *)

LEMMA JobTyped ==
    ASSUME NEW step \in ResearchStep, NEW item \in Nat
    PROVE  Job(step, item) \in Jobs /\ Job(step, item).step = step /\ Job(step, item).item = item
  BY DEF Job, Jobs

LEMMA FetchFromTyped ==
    ASSUME NEW notes \in Notes, NEW i \in Nat, i > 0, NEW call, call = FetchFrom(notes, i)
    PROVE  /\ call \in Jobs /\ call.step \in {"fetch", "corroborate"}
           /\ call.step = "fetch" => call.item \in DOMAIN notes /\ call.at \in Url
  <1>1. CASE i > Len(notes) \/ i > MaxFetches
    <2>1. "corroborate" \in ResearchStep /\ 0 \in Nat
      BY DEF ResearchStep
    <2>2. call = Job("corroborate", 0)
      BY <1>1 DEF FetchFrom
    <2>3. call \in Jobs /\ call.step = "corroborate"
      BY <2>1, <2>2, JobTyped
    <2>. QED
      BY <2>3
  <1>2. CASE ~(i > Len(notes) \/ i > MaxFetches)
    <2>1. call = [step |-> "fetch", item |-> i, attempt |-> 0, redirects |-> 0, at |-> notes[i].url]
      BY <1>2 DEF FetchFrom, Job
    <2>2. Len(notes) \in Nat /\ DOMAIN notes = 1 .. Len(notes)
      BY DEF Notes
    <2>3. i \in DOMAIN notes
      BY <1>2, <2>2
    <2>4. notes[i] \in FoundNote
      BY <2>3 DEF Notes
    <2>5. notes[i].url \in Url
      BY <2>4 DEF FoundNote
    <2>. QED
      BY <2>1, <2>3, <2>5 DEF Jobs, ResearchStep
  <1>. QED
    BY <1>1, <1>2

Early == {"search", "synthesis", "fetch", "corroborate"}

\* Before the marks are made: what is enough for a step.
LEMMA EarlyKeeps ==
    ASSUME NEW j, job' = j, j \in Jobs, j.step \in Early,
           j.step = "fetch" => j.item \in DOMAIN collected' /\ j.at \in Url,
           collected' \in Notes,
           \A i \in DOMAIN collected' : FromItsPage(collected'[i]) /\ collected'[i].status # "corroborated",
           embeddings' = <<>>
    PROVE  ResearchInv'
  <1>1. JobOK'
    BY DEF JobOK, Doing
  <1>2. NotesOK'
    BY DEF NotesOK
  <1>3. VectorsOK'
    BY DEF VectorsOK, Doing, Early
  <1>4. CorroborationIndependent'
    BY DEF CorroborationIndependent, Early
  <1>. QED
    BY <1>1, <1>2, <1>3, <1>4 DEF ResearchInv

LEMMA FailKeeps ==
    ASSUME ResearchInv, FailResearchCall
    PROVE  ResearchInv'
  <1>1. job' = Job("failed", 0) /\ UNCHANGED <<collected, embeddings>>
    BY DEF FailResearchCall
  <1>2. "failed" \in ResearchStep /\ 0 \in Nat
    BY DEF ResearchStep
  <1>3. job' \in Jobs /\ job'.step = "failed"
    BY <1>1, <1>2, JobTyped
  <1>4. JobOK'
    BY <1>3 DEF JobOK, Doing
  <1>5. NotesOK'
    BY <1>1, <1>3 DEF ResearchInv, NotesOK
  <1>6. VectorsOK' /\ CorroborationIndependent'
    BY <1>3 DEF VectorsOK, Doing, CorroborationIndependent
  <1>. QED
    BY <1>4, <1>5, <1>6 DEF ResearchInv

LEMMA NextAttemptKeeps ==
    ASSUME ResearchInv, NextAttempt
    PROVE  ResearchInv'
  <1>1. job' = [job EXCEPT !.attempt = @ + 1] /\ UNCHANGED <<collected, embeddings>> /\ job \in Jobs
    BY DEF NextAttempt, ResearchInv, JobOK
  <1>2. /\ job' \in Jobs /\ job'.step = job.step /\ job'.item = job.item /\ job'.at = job.at
    BY <1>1 DEF Jobs
  <1>3. JobOK'
    BY <1>1, <1>2 DEF ResearchInv, JobOK, Doing
  <1>4. NotesOK'
    BY <1>1, <1>2 DEF ResearchInv, NotesOK
  <1>5. Texts(collected') = Texts(collected)
    BY <1>1
  <1>6. VectorsOK'
    BY <1>1, <1>2, <1>5 DEF ResearchInv, VectorsOK, Doing
  <1>7. CorroborationIndependent'
    BY <1>1, <1>2 DEF ResearchInv, CorroborationIndependent
  <1>. QED
    BY <1>3, <1>4, <1>6, <1>7 DEF ResearchInv

-----------------------------------------------------------------------------
(* Search *)

Fresh == {c \in Notes : \A i \in DOMAIN c : FromItsPage(c[i]) /\ c[i].status # "corroborated"}

LEMMA WithResultFresh ==
    ASSUME NEW notes \in Fresh, NEW url \in Url
    PROVE  WithResult(notes, url) \in Fresh
  <1>1. PICK note : note = [url |-> url, status |-> "snippet_only", evidence |-> {}]
    OBVIOUS
  <1>2. note \in FoundNote /\ FromItsPage(note) /\ note.status = "snippet_only"
    BY <1>1 DEF FoundNote, FromItsPage
  <1>3. PICK r, n : r = Append(notes, note) /\ n = Len(notes)
    OBVIOUS
  <1>4. /\ notes \in Seq(FoundNote) /\ n \in Nat /\ r \in Seq(FoundNote)
        /\ DOMAIN notes = 1 .. n /\ DOMAIN r = 1 .. n + 1 /\ r[n + 1] = note
        /\ \A i \in 1 .. n : r[i] = notes[i]
        /\ \A i \in 1 .. n + 1 : i \in 1 .. n \/ i = n + 1
    BY <1>2, <1>3 DEF Fresh, Notes
  <1>5. r \in Fresh
    BY <1>2, <1>4 DEF Fresh, Notes
  <1>. QED
    BY <1>1, <1>3, <1>5 DEF WithResult

\* One step of the fold over an answer.
AddResult(kept, notes, urls, s) ==
    IF s = {} THEN notes ELSE WithResult(kept[s \ {Max(s)}], urls[Max(s)])

LEMMA ResultsFresh ==
    ASSUME NEW notes \in Fresh, NEW n \in Nat, NEW urls \in [1 .. n -> Url]
    PROVE  FoldLeft(WithResult, notes, urls) \in Fresh
  <1>. DEFINE M == 1 .. n
              step == [a \in M \X Fresh |-> WithResult(a[2], urls[a[1]])]
              F == CHOOSE kept : kept = [s \in SUBSET M |-> AddResult(kept, notes, urls, s)]
  <1>1. step \in [M \X Fresh -> Fresh]
    <2>1. ASSUME NEW a \in M \X Fresh
          PROVE  WithResult(a[2], urls[a[1]]) \in Fresh
      <3>1. a[2] \in Fresh /\ urls[a[1]] \in Url
        OBVIOUS
      <3>. QED
        BY <3>1, WithResultFresh
    <2>. QED
      BY <2>1
  <1>2. PICK f \in [SUBSET M -> Fresh] : IsLeftFold(f, n, notes, step)
    <2>. HIDE DEF step
    <2>. QED
      BY <1>1, LeftFoldExists
  <1>3. ASSUME NEW s \in SUBSET M, s # {}
        PROVE  f[s] = WithResult(f[s \ {Max(s)}], urls[Max(s)])
    <2>1. Max(s) \in M /\ f[s \ {Max(s)}] \in Fresh
      BY <1>3, LastIsIn
    <2>2. f[s] = step[<<Max(s), f[s \ {Max(s)}]>>]
      BY <1>2, <1>3 DEF IsLeftFold
    <2>. QED
      BY <2>1, <2>2
  <1>4. f = [s \in SUBSET M |-> AddResult(f, notes, urls, s)]
    BY <1>2, <1>3 DEF IsLeftFold, AddResult
  <1>5. F = [s \in SUBSET M |-> AddResult(F, notes, urls, s)]
    BY <1>4
  <1>6. FoldLeft(WithResult, notes, urls) = F[M]
    BY DEF FoldLeft, MapThenFoldSet, AddResult
  <1>. HIDE DEF F
  <1>7. FoldsWithin(F, n, Fresh, notes, step)
    <2>1. F[{}] = notes
      BY <1>5 DEF AddResult
    <2>2. ASSUME NEW s \in SUBSET M, s # {}, F[s \ {Max(s)}] \in Fresh
          PROVE  F[s] = step[<<Max(s), F[s \ {Max(s)}]>>]
      <3>1. Max(s) \in M
        BY <2>2, LastIsIn
      <3>2. F[s] = WithResult(F[s \ {Max(s)}], urls[Max(s)])
        BY <1>5, <2>2 DEF AddResult
      <3>. QED
        BY <2>2, <3>1, <3>2
    <2>. HIDE DEF step
    <2>. QED
      BY <2>1, <2>2 DEF FoldsWithin
  <1>8. F[M] \in Fresh
    <2>. HIDE DEF step
    <2>. QED
      BY <1>1, <1>7, LeftFoldTyped
  <1>. QED
    BY <1>6, <1>8

LEMMA SearchAnswersKeeps ==
    ASSUME ResearchInv, SearchAnswers
    PROVE  ResearchInv'
  <1>1. /\ job.step = "search" /\ job' = AfterSearch(collected') /\ embeddings' = embeddings
        /\ embeddings = <<>> /\ collected \in Fresh /\ job.item \in Nat
    BY DEF SearchAnswers, Doing, ResearchInv, JobOK, Jobs, NotesOK, VectorsOK, Fresh
  <1>2. PICK n \in 0 .. MaxResults : \E urls \in [1 .. n -> Url] :
           collected' = FoldLeft(WithResult, collected, urls)
    BY DEF SearchAnswers
  <1>3. n \in Nat
    BY ResearchBounds
  <1>4. collected' \in Fresh
    BY <1>1, <1>2, <1>3, ResultsFresh
  <1>5. PICK j, c : j = AfterSearch(collected') /\ c = collected'
    OBVIOUS
  <1>6. /\ j \in Jobs /\ j.step \in {"search", "synthesis", "fetch", "corroborate"}
        /\ j.step = "fetch" => j.item \in DOMAIN c /\ j.at \in Url
    <2>1. CASE job.item < Queries
      <3>1. j = Job("search", job.item + 1) /\ job.item + 1 \in Nat /\ "search" \in ResearchStep
        BY <1>1, <1>5, <2>1 DEF AfterSearch, ResearchStep
      <3>2. j \in Jobs /\ j.step = "search"
        BY <3>1, JobTyped
      <3>. QED
        BY <3>2
    <2>2. CASE ~(job.item < Queries) /\ c = <<>>
      <3>1. j = FetchFrom(c, 1) /\ c \in Notes /\ 1 \in Nat /\ 1 > 0
        BY <1>4, <1>5, <2>2 DEF AfterSearch, Fresh
      <3>. QED
        BY <3>1, FetchFromTyped
    <2>3. CASE ~(job.item < Queries) /\ c # <<>>
      <3>1. j = Job("synthesis", 0) /\ 0 \in Nat /\ "synthesis" \in ResearchStep
        BY <1>5, <2>3 DEF AfterSearch, ResearchStep
      <3>2. j \in Jobs /\ j.step = "synthesis"
        BY <3>1, JobTyped
      <3>. QED
        BY <3>2
    <2>. QED
      BY <2>1, <2>2, <2>3
  <1>. QED
    BY <1>1, <1>4, <1>5, <1>6, EarlyKeeps DEF Fresh, Early

\* Whatever the model says, the fetches begin.
LEMMA FetchesBegin ==
    ASSUME ResearchInv, Doing("synthesis"), job' = FetchFrom(collected, 1),
           UNCHANGED <<collected, embeddings>>
    PROVE  ResearchInv'
  <1>1. embeddings = <<>> /\ collected \in Fresh /\ collected \in Notes
    BY DEF Doing, ResearchInv, NotesOK, VectorsOK, Fresh
  <1>2. PICK j : j = FetchFrom(collected, 1)
    OBVIOUS
  <1>3. /\ j \in Jobs /\ j.step \in {"fetch", "corroborate"}
        /\ j.step = "fetch" => j.item \in DOMAIN collected /\ j.at \in Url
    BY <1>1, <1>2, FetchFromTyped
  <1>. QED
    BY <1>1, <1>2, <1>3, EarlyKeeps DEF Fresh, Early

-----------------------------------------------------------------------------
(* Pages *)

LEMMA RedirectedKeeps ==
    ASSUME ResearchInv, Redirected
    PROVE  ResearchInv'
  <1>1. PICK target \in Url : job' = [job EXCEPT !.at = target, !.redirects = @ + 1, !.attempt = 0]
    BY DEF Redirected
  <1>2. /\ job \in Jobs /\ job.step = "fetch" /\ UNCHANGED <<collected, embeddings>>
        /\ job.item \in DOMAIN collected /\ embeddings = <<>> /\ collected \in Fresh
    BY DEF Redirected, Requesting, Doing, ResearchInv, JobOK, NotesOK, VectorsOK, Fresh
  <1>3. PICK j : j = [job EXCEPT !.at = target, !.redirects = @ + 1, !.attempt = 0]
    OBVIOUS
  <1>4. j \in Jobs /\ j.step = "fetch" /\ j.item = job.item /\ j.at = target
    <2>1. job.item \in Nat /\ job.redirects + 1 \in Nat
      BY <1>2 DEF Jobs
    <2>2. j = [step |-> "fetch", item |-> job.item, attempt |-> 0,
               redirects |-> job.redirects + 1, at |-> target]
      BY <1>2, <1>3 DEF Jobs
    <2>3. target \in Url \cup {"none"} /\ "fetch" \in ResearchStep
      BY <1>1 DEF ResearchStep
    <2>. QED
      BY <2>1, <2>2, <2>3 DEF Jobs
  <1>. QED
    BY <1>1, <1>2, <1>3, <1>4, EarlyKeeps DEF Fresh, Early

\* A note for the page in hand, in the place of the old one.
LEMMA NoteReplaced ==
    ASSUME ResearchInv, Doing("fetch"), NEW note \in FoundNote, FromItsPage(note),
           note.status # "corroborated",
           collected' = [collected EXCEPT ![job.item] = note],
           job' = FetchFrom(collected', job.item + 1), embeddings' = embeddings
    PROVE  ResearchInv'
  <1>1. /\ job \in Jobs /\ job.item \in DOMAIN collected /\ embeddings = <<>> /\ collected \in Fresh
        /\ collected \in Seq(FoundNote)
    BY DEF Doing, ResearchInv, JobOK, NotesOK, VectorsOK, Fresh, Notes
  <1>2. PICK c, k : c = [collected EXCEPT ![k] = note] /\ k = job.item
    OBVIOUS
  <1>3. /\ c \in Seq(FoundNote) /\ DOMAIN c = DOMAIN collected
        /\ \A i \in DOMAIN c : c[i] = IF i = k THEN note ELSE collected[i]
    BY <1>1, <1>2
  <1>4. c \in Fresh /\ c \in Notes
    BY <1>1, <1>3 DEF Fresh, Notes
  <1>5. k + 1 \in Nat /\ k + 1 > 0
    BY <1>1, <1>2
  <1>6. PICK j : j = FetchFrom(c, k + 1)
    OBVIOUS
  <1>7. /\ j \in Jobs /\ j.step \in {"fetch", "corroborate"}
        /\ j.step = "fetch" => j.item \in DOMAIN c /\ j.at \in Url
    BY <1>4, <1>5, <1>6, FetchFromTyped
  <1>. QED
    BY <1>1, <1>2, <1>4, <1>6, <1>7, EarlyKeeps DEF Fresh, Early

LEMMA PageReadKeeps ==
    ASSUME ResearchInv, PageRead
    PROVE  ResearchInv'
  <1>1. /\ Doing("fetch") /\ embeddings' = embeddings /\ job' = FetchFrom(collected', job.item + 1)
        /\ job.at \in Url
    BY DEF PageRead, Requesting, ResearchInv, JobOK
  <1>2. PICK page \in Page :
           collected' = [collected EXCEPT ![job.item] =
                            [url |-> FinalUrl,
                             status |-> IF Evidence(page) = {} THEN "fetch_failed" ELSE "fetched",
                             evidence |-> Evidence(page)]]
    BY DEF PageRead
  <1>3. PICK at, evidence, note :
           /\ at = job.at /\ evidence = Evidence(page)
           /\ note = [url |-> at, status |-> IF evidence = {} THEN "fetch_failed" ELSE "fetched",
                      evidence |-> evidence]
    OBVIOUS
  <1>4. PICK texts : evidence = [text : texts, source : {at}] /\ texts \in SUBSET Snippet
    <2>1. (IF page.challenge THEN {} ELSE page.texts) \in SUBSET Snippet
      BY DEF Page
    <2>. QED
      BY <1>3, <2>1 DEF Evidence
  <1>5. evidence \in SUBSET EvidenceSnippet /\ \A e \in evidence : e.source = at
    BY <1>1, <1>3, <1>4 DEF EvidenceSnippet
  <1>6. note \in FoundNote /\ FromItsPage(note) /\ note.status # "corroborated"
    BY <1>1, <1>3, <1>5 DEF FoundNote, FromItsPage
  <1>7. collected' = [collected EXCEPT ![job.item] = note]
    BY <1>2, <1>3 DEF FinalUrl
  <1>. QED
    BY <1>1, <1>6, <1>7, NoteReplaced

LEMMA NoPageKeeps ==
    ASSUME ResearchInv, Doing("fetch"), NoPage
    PROVE  ResearchInv'
  <1>1. /\ collected' = [collected EXCEPT ![job.item].status = "fetch_failed"]
        /\ job' = FetchFrom(collected', job.item + 1) /\ embeddings' = embeddings
    BY DEF NoPage
  <1>2. collected[job.item] \in FoundNote /\ FromItsPage(collected[job.item])
    BY DEF Doing, ResearchInv, JobOK, NotesOK, Notes
  <1>3. PICK old, note : old = collected[job.item] /\ note = [old EXCEPT !.status = "fetch_failed"]
    OBVIOUS
  <1>4. note \in FoundNote /\ FromItsPage(note) /\ note.status # "corroborated"
    BY <1>2, <1>3 DEF FoundNote, FromItsPage
  <1>5. collected' = [collected EXCEPT ![job.item] = note]
    BY <1>1, <1>3
  <1>. QED
    BY <1>1, <1>4, <1>5, NoteReplaced

-----------------------------------------------------------------------------
(* Corroboration *)

LEMMA SetToSeqTyped ==
    ASSUME NEW S \in SUBSET Snippet
    PROVE  SetToSeq(S) \in Seq(Snippet)
  <1>1. IsFiniteSet(S)
    BY ResearchBounds, FS_Subset
  <1>2. PICK n : n = Cardinality(S)
    OBVIOUS
  <1>3. n \in Nat /\ ExistsBijection(1 .. n, S)
    BY <1>1, <1>2, FS_CardinalityType
  <1>4. PICK f : f \in [1 .. n -> S] /\ IsInjective(f)
    BY <1>3 DEF ExistsBijection, Bijection, Injection
  <1>5. SetToSeq(S) \in [1 .. n -> S]
    BY <1>2, <1>4 DEF SetToSeq
  <1>6. SetToSeq(S) \in Seq(S)
    BY <1>3, <1>5
  <1>. QED
    BY <1>6

Embedded == {"fetched", "corroborated"}

\* One step of the fold over the notes.
AddTexts(texts, notes, s) ==
    IF s = {} THEN <<>>
    ELSE IF notes[Max(s)].status \in Embedded
         THEN texts[s \ {Max(s)}] \o SetToSeq(TextsOf(notes[Max(s)]))
         ELSE texts[s \ {Max(s)}]

LEMMA TextsTyped ==
    ASSUME NEW notes \in Notes
    PROVE  Texts(notes) \in Seq(Snippet)
  <1>1. PICK n : n = Len(notes)
    OBVIOUS
  <1>. DEFINE M == 1 .. n
              V == Seq(Snippet)
              step == [a \in M \X V |-> IF notes[a[1]].status \in Embedded
                                         THEN a[2] \o SetToSeq(TextsOf(notes[a[1]])) ELSE a[2]]
              F == CHOOSE texts : texts = [s \in SUBSET M |-> AddTexts(texts, notes, s)]
  <1>2. n \in Nat /\ DOMAIN notes = M /\ \A i \in M : notes[i] \in FoundNote
    BY <1>1 DEF Notes
  <1>3. \A i \in M : SetToSeq(TextsOf(notes[i])) \in V
    <2>1. ASSUME NEW i \in M
          PROVE  TextsOf(notes[i]) \in SUBSET Snippet
      <3>1. \A e \in notes[i].evidence : e \in EvidenceSnippet
        BY <1>2 DEF FoundNote
      <3>. QED
        BY <3>1 DEF TextsOf, EvidenceSnippet
    <2>. QED
      BY <2>1, SetToSeqTyped
  <1>4. step \in [M \X V -> V]
    <2>1. ASSUME NEW a \in M \X V
          PROVE  (IF notes[a[1]].status \in Embedded
                  THEN a[2] \o SetToSeq(TextsOf(notes[a[1]])) ELSE a[2]) \in V
      <3>1. a[1] \in M /\ a[2] \in Seq(Snippet)
        OBVIOUS
      <3>2. SetToSeq(TextsOf(notes[a[1]])) \in Seq(Snippet)
        BY <1>3, <3>1
      <3>. QED
        BY <3>1, <3>2
    <2>. QED
      BY <2>1
  <1>5. <<>> \in V
    OBVIOUS
  <1>6. PICK f \in [SUBSET M -> V] : IsLeftFold(f, n, <<>>, step)
    <2>. HIDE DEF step, V
    <2>. QED
      BY <1>2, <1>4, <1>5, LeftFoldExists
  <1>7. ASSUME NEW s \in SUBSET M, s # {}, NEW rest \in V
        PROVE  Max(s) \in M /\ step[<<Max(s), rest>>] =
                  IF notes[Max(s)].status \in Embedded
                  THEN rest \o SetToSeq(TextsOf(notes[Max(s)])) ELSE rest
    <2>1. Max(s) \in M
      BY <1>2, <1>7, LastIsIn
    <2>. HIDE DEF V
    <2>. QED
      BY <2>1
  <1>. HIDE DEF step
  <1>8. f = [s \in SUBSET M |-> AddTexts(f, notes, s)]
    <2>1. ASSUME NEW s \in SUBSET M, s # {}
          PROVE  f[s] = AddTexts(f, notes, s)
      <3>1. f[s \ {Max(s)}] \in V
        OBVIOUS
      <3>2. f[s] = step[<<Max(s), f[s \ {Max(s)}]>>]
        BY <1>6, <2>1 DEF IsLeftFold
      <3>. QED
        BY <1>7, <2>1, <3>1, <3>2 DEF AddTexts
    <2>. QED
      BY <1>6, <2>1 DEF IsLeftFold, AddTexts
  <1>9. F = [s \in SUBSET M |-> AddTexts(F, notes, s)]
    BY <1>8
  <1>10. Texts(notes) = F[M]
    BY <1>2 DEF Texts, FoldLeft, MapThenFoldSet, AddTexts, Embedded
  <1>. HIDE DEF F
  <1>11. FoldsWithin(F, n, V, <<>>, step)
    <2>1. F[{}] = <<>>
      BY <1>9 DEF AddTexts
    <2>2. ASSUME NEW s \in SUBSET M, s # {}, F[s \ {Max(s)}] \in V
          PROVE  F[s] = step[<<Max(s), F[s \ {Max(s)}]>>]
      <3>1. F[s] = AddTexts(F, notes, s)
        BY <1>9, <2>2
      <3>. QED
        BY <1>7, <2>2, <3>1 DEF AddTexts
    <2>. HIDE DEF V
    <2>. QED
      BY <2>1, <2>2 DEF FoldsWithin
  <1>12. F[M] \in V
    <2>. HIDE DEF V
    <2>. QED
      BY <1>2, <1>4, <1>5, <1>11, LeftFoldTyped
  <1>. QED
    BY <1>10, <1>12

\* The marks are made once, on the pages that were read: they compare texts of two pages, and a
\* note has the texts of one page only.
LEMMA MarkCorroborationKeeps ==
    ASSUME ResearchInv, MarkCorroboration
    PROVE  ResearchInv'
  <1>1. PICK c, d : c = collected /\ d = collected'
    OBVIOUS
  <1>2. /\ job.step = "corroborate" /\ embeddings = <<>> /\ embeddings' = <<>>
        /\ job' = EmbedFrom(d, 1)
        /\ d = [i \in DOMAIN c |->
                  IF \E j \in (DOMAIN c) \ {i} : Corroborates(c[j], c[i])
                  THEN [c[i] EXCEPT !.status = "corroborated"] ELSE c[i]]
    BY <1>1 DEF MarkCorroboration, Doing, ResearchInv, VectorsOK
  <1>3. /\ c \in Seq(FoundNote) /\ DOMAIN c = 1 .. Len(c) /\ Len(c) \in Nat
        /\ \A i \in DOMAIN c : /\ c[i] \in FoundNote /\ FromItsPage(c[i])
                              /\ c[i].status # "corroborated"
    BY <1>1, <1>2 DEF ResearchInv, NotesOK, Notes
  <1>4. \A i \in DOMAIN c : LET marked == [c[i] EXCEPT !.status = "corroborated"] IN
           /\ marked \in FoundNote /\ marked.url = c[i].url /\ marked.evidence = c[i].evidence
           /\ marked.status = "corroborated"
    BY <1>3 DEF FoundNote
  <1>5. DOMAIN d = DOMAIN c /\ \A i \in DOMAIN c :
           /\ d[i] \in FoundNote /\ d[i].url = c[i].url /\ d[i].evidence = c[i].evidence
           /\ d[i].status = "corroborated" <=> \E j \in (DOMAIN c) \ {i} : Corroborates(c[j], c[i])
    BY <1>2, <1>3, <1>4
  <1>6. d \in Notes
    <2>1. d \in [DOMAIN c -> FoundNote]
      <3>1. \A i \in DOMAIN c :
               (IF \E j \in (DOMAIN c) \ {i} : Corroborates(c[j], c[i])
                THEN [c[i] EXCEPT !.status = "corroborated"] ELSE c[i]) \in FoundNote
        BY <1>3, <1>4
      <3>. QED
        BY ONLY <1>2, <3>1, Zenon
    <2>. QED
      BY <1>3, <2>1 DEF Notes
  <1>7. \A i \in DOMAIN d : FromItsPage(d[i])
    BY <1>3, <1>5 DEF FromItsPage
  <1>8. ASSUME NEW i \in DOMAIN c, NEW j \in DOMAIN c
        PROVE  j # i /\ Corroborates(c[j], c[i]) <=>
                  \E e \in c[j].evidence : \E own \in c[i].evidence :
                     own.text = e.text /\ HostOf[own.source] # HostOf[e.source]
    <2>1. /\ \A e \in c[j].evidence : e.source = c[j].url
          /\ \A own \in c[i].evidence : own.source = c[i].url
      BY <1>3 DEF FromItsPage
    <2>2. TextsOf(c[j]) \cap TextsOf(c[i]) # {} <=>
             \E e \in c[j].evidence : \E own \in c[i].evidence : own.text = e.text
      BY DEF TextsOf
    <2>. QED
      BY <2>1, <2>2 DEF Corroborates
  <1>9. \A i \in DOMAIN d : d[i].status = "corroborated" <=>
           \E j \in DOMAIN d : \E e \in d[j].evidence : \E own \in d[i].evidence :
              own.text = e.text /\ HostOf[own.source] # HostOf[e.source]
    BY <1>5, <1>8
  <1>10. PICK T, j : T = Texts(d) /\ j = EmbedFrom(d, 1)
    OBVIOUS
  <1>11. T \in Seq(Snippet) /\ Len(T) \in Nat
    BY <1>6, <1>10, TextsTyped
  <1>12. /\ j \in Jobs /\ j.step \in {"embed", "done"}
         /\ j.step = "embed" => j.item = 1 /\ 1 \in 1 .. Len(T)
         /\ j.step = "done" => T = <<>>
    <2>1. CASE 1 > Len(T)
      <3>1. j = Job("done", 0) /\ "done" \in ResearchStep /\ 0 \in Nat
        BY <1>10, <2>1 DEF EmbedFrom, ResearchStep
      <3>2. j \in Jobs /\ j.step = "done"
        BY <3>1, JobTyped
      <3>3. T = <<>>
        BY <1>11, <2>1
      <3>. QED
        BY <3>2, <3>3
    <2>2. CASE ~(1 > Len(T))
      <3>1. j = Job("embed", 1) /\ "embed" \in ResearchStep /\ 1 \in Nat
        BY <1>10, <2>2 DEF EmbedFrom, ResearchStep
      <3>2. j \in Jobs /\ j.step = "embed" /\ j.item = 1
        BY <3>1, JobTyped
      <3>. QED
        BY <1>11, <2>2, <3>2
    <2>. QED
      BY <2>1, <2>2
  <1>13. JobOK'
    BY <1>2, <1>10, <1>12 DEF JobOK, Doing
  <1>14. NotesOK'
    BY <1>1, <1>2, <1>6, <1>7, <1>10, <1>12 DEF NotesOK
  <1>15. VectorsOK'
    <2>1. Texts(collected') = T /\ SubSeq(T, 1, 1 - 1) = <<>>
      BY <1>1, <1>10, <1>11
    <2>. QED
      BY <1>2, <1>10, <1>12, <2>1 DEF VectorsOK, Doing
  <1>16. CorroborationIndependent'
    BY <1>1, <1>9 DEF CorroborationIndependent
  <1>. QED
    BY <1>13, <1>14, <1>15, <1>16 DEF ResearchInv

-----------------------------------------------------------------------------
(* Embedding *)

\* Put at their indexes, the vectors of an answer are those of the batch.
LEMMA PlacedIsBatch ==
    ASSUME Batch \in Seq(Snippet), NEW answer \in Answers, Covers(answer)
    PROVE  Placed(answer) = Batch
  <1>1. DOMAIN answer = DOMAIN Batch /\ ToSet(answer) = DOMAIN Batch
    BY DEF Covers
  <1>2. \A i \in DOMAIN answer : answer[CHOOSE k \in DOMAIN answer : answer[k] = i] = i
    BY <1>1 DEF ToSet
  <1>3. Placed(answer) = [i \in DOMAIN Batch |-> Batch[i]]
    BY <1>1, <1>2 DEF Placed
  <1>. QED
    BY <1>3

LEMMA EmbedBatchKeeps ==
    ASSUME ResearchInv, EmbedBatch
    PROVE  ResearchInv'
  <1>1. PICK answer \in Answers : Covers(answer) /\ embeddings' = embeddings \o Placed(answer)
    BY DEF EmbedBatch
  <1>2. PICK T, a, n, m, last :
           /\ T = Texts(collected) /\ a = job.item /\ n = Len(T) /\ m = MaxBatchSize
           /\ last = IF a + m - 1 < n THEN a + m - 1 ELSE n
    OBVIOUS
  <1>3. /\ job.step = "embed" /\ collected' = collected /\ collected \in Notes
        /\ job' = EmbedFrom(collected, a + m) /\ embeddings = SubSeq(T, 1, a - 1)
        /\ a \in 1 .. n
    BY <1>2 DEF EmbedBatch, Doing, ResearchInv, NotesOK, VectorsOK
  <1>4. T \in Seq(Snippet) /\ n \in Nat /\ m \in Nat /\ m > 0
    BY <1>2, <1>3, TextsTyped, ResearchBounds
  <1>5. a \in Nat /\ a > 0 /\ a <= n /\ last \in Nat /\ a <= last /\ last <= n
    BY <1>2, <1>3, <1>4
  <1>6. Batch = SubSeq(T, a, last)
    BY <1>2 DEF Batch
  <1>7. Batch \in Seq(Snippet)
    <2>1. last <= Len(T) /\ a \in 1 .. Len(T)
      BY <1>2, <1>3, <1>5
    <2>2. SubSeq(T, a, last) \in Seq(Snippet)
      BY ONLY <1>4, <1>5, <2>1
    <2>. QED
      BY <1>6, <2>2
  <1>8. embeddings' = SubSeq(T, 1, a - 1) \o SubSeq(T, a, last)
    BY <1>1, <1>3, <1>6, <1>7, PlacedIsBatch
  <1>9. SubSeq(T, 1, a - 1) \o SubSeq(T, a, last) = SubSeq(T, 1, last)
    BY <1>4, <1>5
  <1>10. Texts(collected') = T /\ embeddings' = SubSeq(T, 1, last)
    BY <1>2, <1>3, <1>8, <1>9
  <1>11. PICK j : j = EmbedFrom(collected, a + m)
    OBVIOUS
  <1>12. /\ j \in Jobs /\ j.step \in {"embed", "done"}
         /\ j.step = "embed" => j.item \in 1 .. n /\ last = j.item - 1
         /\ j.step = "done" => last = n
    <2>1. CASE a + m > n
      <3>1. j = Job("done", 0) /\ "done" \in ResearchStep /\ 0 \in Nat
        BY <1>2, <1>11, <2>1 DEF EmbedFrom, ResearchStep
      <3>2. j \in Jobs /\ j.step = "done"
        BY <3>1, JobTyped
      <3>3. last = n
        BY <1>2, <1>4, <1>5, <2>1
      <3>. QED
        BY <3>2, <3>3
    <2>2. CASE ~(a + m > n)
      <3>1. j = Job("embed", a + m) /\ "embed" \in ResearchStep /\ a + m \in Nat
        BY <1>2, <1>4, <1>5, <1>11, <2>2 DEF EmbedFrom, ResearchStep
      <3>2. j \in Jobs /\ j.step = "embed" /\ j.item = a + m
        BY <3>1, JobTyped
      <3>3. a + m \in 1 .. n /\ last = (a + m) - 1
        BY <1>2, <1>4, <1>5, <2>2
      <3>. QED
        BY <3>2, <3>3
    <2>. QED
      BY <2>1, <2>2
  <1>13. JobOK'
    BY <1>3, <1>11, <1>12 DEF JobOK, Doing
  <1>14. NotesOK'
    BY <1>3, <1>11, <1>12 DEF ResearchInv, NotesOK
  <1>15. VectorsOK'
    <2>1. SubSeq(T, 1, n) = T
      BY <1>2, <1>4
    <2>. QED
      BY <1>2, <1>3, <1>10, <1>11, <1>12, <2>1 DEF VectorsOK, Doing
  <1>16. CorroborationIndependent'
    BY <1>3, <1>11, <1>12 DEF ResearchInv, CorroborationIndependent
  <1>. QED
    BY <1>13, <1>14, <1>15, <1>16 DEF ResearchInv

-----------------------------------------------------------------------------
(* The specification *)

LEMMA ResearchInit_ResearchInv == ResearchInit => ResearchInv
  <1>. SUFFICES ASSUME ResearchInit
                PROVE  ResearchInv
    OBVIOUS
  <1>1. "search" \in ResearchStep /\ 1 \in Nat
    BY DEF ResearchStep
  <1>2. job \in Jobs /\ job.step = "search" /\ collected = <<>> /\ embeddings = <<>>
    BY <1>1, JobTyped DEF ResearchInit
  <1>3. <<>> \in Notes /\ DOMAIN <<>> = {}
    BY DEF Notes
  <1>. QED
    BY <1>2, <1>3 DEF ResearchInv, JobOK, NotesOK, VectorsOK, Doing, CorroborationIndependent

LEMMA ResearchInvKept == ResearchInv /\ [ResearchNext]_researchVars => ResearchInv'
  <1>. SUFFICES ASSUME ResearchInv, [ResearchNext]_researchVars
                PROVE  ResearchInv'
    OBVIOUS
  <1>1. CASE RetrySearch \/ RetrySynthesis \/ RetryPage \/ RetryEmbedding
    BY <1>1, NextAttemptKeeps DEF RetrySearch, RetrySynthesis, RetryPage, RetryEmbedding
  <1>2. CASE SearchFails \/ EmbedFails
    BY <1>2, FailKeeps DEF SearchFails, EmbedFails
  <1>3. CASE SearchAnswers
    BY <1>3, SearchAnswersKeeps
  <1>4. CASE SynthesisAnswers \/ SynthesisFails
    BY <1>4, FetchesBegin DEF SynthesisAnswers, SynthesisFails
  <1>5. CASE Redirected
    BY <1>5, RedirectedKeeps
  <1>6. CASE PageRead
    BY <1>6, PageReadKeeps
  <1>7. CASE PageRefused \/ PageFails \/ PageUnreadable
    BY <1>7, NoPageKeeps DEF PageRefused, PageFails, PageUnreadable, Requesting
  <1>8. CASE MarkCorroboration
    BY <1>8, MarkCorroborationKeeps
  <1>9. CASE EmbedBatch
    BY <1>9, EmbedBatchKeeps
  <1>10. CASE UNCHANGED researchVars
    <2>1. UNCHANGED <<job, collected, embeddings>>
      BY <1>10 DEF researchVars
    <2>2. Texts(collected') = Texts(collected)
      BY <2>1
    <2>. QED
      BY <2>1, <2>2 DEF ResearchInv, JobOK, NotesOK, VectorsOK, Doing, CorroborationIndependent
  <1>. QED
    BY <1>1, <1>2, <1>3, <1>4, <1>5, <1>6, <1>7, <1>8, <1>9, <1>10 DEF ResearchNext

LEMMA ResearchInductive == ResearchSpec => []ResearchInv
  BY ResearchInit_ResearchInv, ResearchInvKept, PTL DEF ResearchSpec

\* Whatever pages are found and wherever they redirect, a note counts as corroborated exactly when
\* a page of another host has a piece of its evidence.
THEOREM NotesConfirmEachOther == ResearchSpec => []CorroborationIndependent
  BY ResearchInductive, PTL DEF ResearchInv

\* In batches of any size, answered in any order, the vectors are those of the texts.
THEOREM VectorsInOrder == ResearchSpec => []VectorsOfTexts
  <1>1. ResearchInv => VectorsOfTexts
    <2>. SUFFICES ASSUME ResearchInv, job.step \in {"embed", "done"}
                  PROVE  VectorsOfTexts
      BY DEF VectorsOfTexts
    <2>1. PICK T, n, a : T = Texts(collected) /\ n = Len(T) /\ a = job.item
      OBVIOUS
    <2>2. T \in Seq(Snippet) /\ n \in Nat
      BY <2>1, TextsTyped DEF ResearchInv, NotesOK
    <2>3. CASE job.step = "done"
      <3>1. embeddings = T
        BY <2>1, <2>3 DEF ResearchInv, VectorsOK, Doing
      <3>2. IsPrefix(T, T)
        BY <2>1, <2>2 DEF IsPrefix
      <3>. QED
        BY <2>1, <3>1, <3>2 DEF VectorsOfTexts
    <2>4. CASE job.step = "embed"
      <3>1. embeddings = SubSeq(T, 1, a - 1) /\ a \in 1 .. n
        BY <2>1, <2>4 DEF ResearchInv, VectorsOK, Doing
      <3>2. PICK s, k : s = SubSeq(T, 1, a - 1) /\ k = a - 1
        OBVIOUS
      <3>3. k \in Nat /\ k <= n /\ s \in Seq(Snippet) /\ Len(s) = k /\ SubSeq(s, 1, k) = s
        BY <2>1, <2>2, <3>1, <3>2
      <3>4. IsPrefix(s, T)
        BY <2>1, <3>2, <3>3 DEF IsPrefix
      <3>. QED
        BY <2>1, <2>4, <3>1, <3>2, <3>4 DEF VectorsOfTexts, Doing
    <2>. QED
      BY <2>3, <2>4
  <1>. QED
    BY <1>1, ResearchInductive, PTL

===============================================================================
