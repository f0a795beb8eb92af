--------------------------- MODULE WorkflowProofs ---------------------------
(***************************************************************************)
(* Proofs about Workflow, for every template, every set of runs and workers *)
(* and every bound.  First the transitions of one run's row, then the       *)
(* actions.                                                                 *)
(***************************************************************************)
EXTENDS Workflow, NaturalsInduction, WellFoundedInduction, TLAPS

Settled(x, i) == x.step[i] \in TERMINAL_STEP_STATUSES

\* What holds of the steps of a run whatever its status.
StepsOK(x) ==
    /\ \A i, j \in Step : j < i /\ x.step[i] \in {"running", "waiting_approval", "succeeded"}
                          => Settled(x, j)
    /\ \A i \in Step : x.step[i] = "running" => i \notin Approval
    /\ \A i \in Step \ Approval : x.step[i] = "succeeded" => x.result[i] # "none"
    /\ \A i \in Approval :
          /\ x.step[i] = "succeeded" <=> x.by[i] # "none"
          /\ x.by[i] = "automatic" => /\ \A g \in Gate[i] : x.result[g] = "clean"
                                      /\ x.auto \/ i \in SelfClearing

\* How the status of a run and those of its steps agree.
StatusOK(x) ==
    /\ x.owner # NoWorker <=> x.status = "running"
    /\ \A i \in Step : x.step[i] = "waiting_approval" =>
          x.status = "waiting_approval" /\ i \in Approval
    /\ x.status = "waiting_approval" => \E i \in Step : x.step[i] = "waiting_approval"
    /\ x.status \in {"queued", "running"} => ~AllSettled(x)
    /\ x.status = "succeeded" => AllSettled(x)
    /\ x.status # "cancelled" => \A i \in Step : x.step[i] = "skipped" => i \in Optional
    /\ x.status = "absent" => \A i \in Step : x.step[i] = "pending"

RowOK(x) == x \in RunRow /\ StepsOK(x) /\ StatusOK(x)

USE DEF TERMINAL_STEP_STATUSES, Settled

-----------------------------------------------------------------------------
(* The transitions of a row.                                                *)

\* A run with an open step has a next one, the one prepare_claimed_step picks.
LEMMA NextExists ==
    ASSUME NEW x, ~AllSettled(x)
    PROVE  \E i \in Step : IsNext(x, i)
<1> DEFINE T == {i \in Step : ~Settled(x, i)}
<1>1. T \subseteq Nat /\ T # {}
  BY StepsAssumption DEF AllSettled, Step
<1>2. PICK i \in T : \A j \in T : ~ (<<j, i>> \in OpToRel(<, Nat))
  BY <1>1, WFMin, NatLessThanWellFounded
<1>3. \A j \in T : ~ (j < i)
  BY <1>1, <1>2, Zenon DEF OpToRel
<1>4. \A j \in 1 .. (i - 1) : j \in Step /\ j < i
  BY StepsAssumption DEF Step
<1> QED BY <1>3, <1>4 DEF IsNext

\* A new run is well formed (create_chapter_workflow).
LEMMA NewRow ==
    ASSUME NEW topic \in BOOLEAN, NEW auto \in BOOLEAN
    PROVE  RowOK(NewRun(topic, auto))
<1> DEFINE x == NewRun(topic, auto)
<1>1. x \in RunRow
  BY BoundAssumption DEF NewRun, RunRow, RunStatus, StepStatus, Result
<1>2. StepsOK(x)
  BY TemplateAssumption DEF NewRun, StepsOK
<1>3. PICK i \in Step : i \notin Optional
  BY TemplateAssumption
<1>4. ~AllSettled(x)
  BY <1>3 DEF NewRun, AllSettled
<1>5. StatusOK(x)
  BY <1>4 DEF NewRun, StatusOK
<1> QED BY <1>1, <1>2, <1>5 DEF RowOK

\* Giving up the claim keeps a row well formed when its steps suit the status it is left in.
LEMMA ReleasedRow ==
    ASSUME NEW x \in RunRow, StepsOK(x),
           NEW status \in RunStatus \ {"running", "absent"},
           \A i \in Step : x.step[i] = "waiting_approval" =>
               status = "waiting_approval" /\ i \in Approval,
           status = "waiting_approval" => \E i \in Step : x.step[i] = "waiting_approval",
           status = "queued" => ~AllSettled(x),
           status = "succeeded" => AllSettled(x),
           status # "cancelled" => \A i \in Step : x.step[i] = "skipped" => i \in Optional
    PROVE  RowOK(Release(x, status))
<1> DEFINE y == Release(x, status)
<1>1. y \in RunRow
  BY DEF Release, RunRow
<1>2. /\ y.step = x.step /\ y.result = x.result /\ y.by = x.by /\ y.auto = x.auto
      /\ y.status = status /\ y.owner = NoWorker
  BY DEF Release, RunRow
<1>3. StepsOK(y)
  BY <1>2 DEF StepsOK
<1>4. AllSettled(y) <=> AllSettled(x)
  BY <1>2 DEF AllSettled
<1>5. StatusOK(y)
  BY <1>2, <1>4 DEF StatusOK
<1> QED BY <1>1, <1>3, <1>5 DEF RowOK

\* A settled step leaves a well-formed row, for the next worker or finished
\* (_queue_or_finish after complete_step, an automatic approval or the author's).
LEMMA QueuedOrFinishedRow ==
    ASSUME NEW x \in RunRow, StepsOK(x),
           \A i \in Step : x.step[i] # "waiting_approval",
           \A i \in Step : x.step[i] = "skipped" => i \in Optional
    PROVE  RowOK(QueueOrFinish(x))
BY ReleasedRow DEF QueueOrFinish, RunStatus

\* Failing a run that waits for nobody (_fail_run).
LEMMA FailedRow ==
    ASSUME NEW x \in RunRow, StepsOK(x),
           \A i \in Step : x.step[i] # "waiting_approval",
           \A i \in Step : x.step[i] = "skipped" => i \in Optional
    PROVE  RowOK(FailRun(x))
BY ReleasedRow DEF FailRun, RunStatus

\* Cancelling skips what has not been started (_cancel).
LEMMA CancelledRow ==
    ASSUME NEW x \in RunRow, StepsOK(x)
    PROVE  RowOK(CancelRun(x))
<1> DEFINE s == [i \in Step |-> IF x.step[i] \in {"pending", "waiting_approval"}
                                THEN "skipped" ELSE x.step[i]]
           y == [x EXCEPT !.step = s]
<1>1. s \in [Step -> StepStatus]
  BY DEF RunRow, StepStatus
<1>2. y \in RunRow
  BY <1>1 DEF RunRow
<1>3. y.step = s /\ y.result = x.result /\ y.by = x.by /\ y.auto = x.auto
  BY DEF RunRow
<1>4. StepsOK(y)
  <2>1. Approval \subseteq Step
    BY TemplateAssumption
  <2>2. \A i \in Step : /\ y.step[i] \in {"running", "succeeded"} => x.step[i] = y.step[i]
                        /\ x.step[i] = "succeeded" => y.step[i] = "succeeded"
                        /\ y.step[i] # "waiting_approval"
                        /\ Settled(x, i) => Settled(y, i)
    BY <1>3
  <2>3. \A i, j \in Step : j < i /\ y.step[i] \in {"running", "waiting_approval", "succeeded"}
                           => Settled(y, j)
    BY <2>2 DEF StepsOK
  <2> QED BY <1>3, <2>1, <2>2, <2>3 DEF StepsOK
<1>5. \A i \in Step : y.step[i] # "waiting_approval"
  BY <1>3
<1> QED BY <1>2, <1>4, <1>5, ReleasedRow DEF CancelRun, RunStatus

\* The step that is next succeeds: an executed one with a result, an approval with the one
\* who gave it.
LEMMA SettledNextRow ==
    ASSUME NEW x \in RunRow, StepsOK(x), NEW i \in Step, IsNext(x, i),
           NEW y \in RunRow,
           y.step = [x.step EXCEPT ![i] = "succeeded"], y.auto = x.auto,
           \A j \in Step \ {i} : y.result[j] = x.result[j] /\ y.by[j] = x.by[j],
           i \notin Approval => y.result[i] # "none",
           i \in Approval => y.result[i] = x.result[i] /\ y.by[i] # "none",
           i \in Approval /\ y.by[i] = "automatic" => AutoApproves(x, i)
    PROVE  StepsOK(y)
<1>1. x.step \in [Step -> StepStatus]
  BY DEF RunRow
<1>2. \A j \in Step : y.step[j] = IF j = i THEN "succeeded" ELSE x.step[j]
  BY <1>1
<1>3. \A j \in Step : j < i => Settled(x, j)
  BY StepsAssumption DEF IsNext, Step
<1>4. \A j \in Step : i < j => x.step[j] \notin {"running", "waiting_approval", "succeeded"}
  BY DEF StepsOK, IsNext
<1>5. \A j, k \in Step : k < j /\ y.step[j] \in {"running", "waiting_approval", "succeeded"}
                         => Settled(y, k)
  <2> SUFFICES ASSUME NEW j \in Step, NEW k \in Step, k < j,
                      y.step[j] \in {"running", "waiting_approval", "succeeded"}
               PROVE  Settled(y, k)
    OBVIOUS
  <2>1. CASE j = i
    BY <2>1, <1>2, <1>3
  <2>2. CASE j # i
    BY <2>2, <1>2 DEF StepsOK
  <2> QED BY <2>1, <2>2
<1>6. \A j \in Step : y.step[j] = "running" => j \notin Approval
  BY <1>2 DEF StepsOK
<1>7. \A j \in Step \ Approval : y.step[j] = "succeeded" => y.result[j] # "none"
  BY <1>2 DEF StepsOK
<1>8. \A j \in Approval :
          /\ y.step[j] = "succeeded" <=> y.by[j] # "none"
          /\ y.by[j] = "automatic" => /\ \A g \in Gate[j] : y.result[g] = "clean"
                                      /\ y.auto \/ j \in SelfClearing
  <2> SUFFICES ASSUME NEW j \in Approval
               PROVE  /\ y.step[j] = "succeeded" <=> y.by[j] # "none"
                      /\ y.by[j] = "automatic" => /\ \A g \in Gate[j] : y.result[g] = "clean"
                                                  /\ y.auto \/ j \in SelfClearing
    OBVIOUS
  <2>1. j \in Step /\ \A g \in Gate[j] : g \in Step /\ g < j
    BY TemplateAssumption
  <2>2. CASE j = i
    BY <2>1, <2>2, <1>2, StepsAssumption DEF AutoApproves, CanAutoApprove, Step
  <2>3. CASE j # i
    <3>1. y.step[j] = "succeeded" <=> y.by[j] # "none"
      BY <2>1, <2>3, <1>2 DEF StepsOK
    <3>2. ASSUME y.by[j] = "automatic"
          PROVE  (\A g \in Gate[j] : y.result[g] = "clean") /\ (y.auto \/ j \in SelfClearing)
      <4>1. x.by[j] = "automatic" /\ x.step[j] = "succeeded"
        BY <3>2, <2>1, <2>3 DEF StepsOK
      <4>2. ~(i < j)
        BY <4>1, <2>1, <1>4
      <4>3. \A g \in Gate[j] : g # i
        BY <4>2, <2>1
      <4> QED BY <4>1, <4>3, <2>1 DEF StepsOK
    <3> QED BY <3>1, <3>2
  <2> QED BY <2>2, <2>3
<1> QED BY <1>5, <1>6, <1>7, <1>8 DEF StepsOK

\* A step that is next is entered, to run or to wait for the author.
LEMMA EnteredNextRow ==
    ASSUME NEW x \in RunRow, StepsOK(x), NEW i \in Step, IsNext(x, i),
           NEW y \in RunRow, NEW st \in {"running", "waiting_approval", "pending", "failed"},
           st = "running" => i \notin Approval,
           y.step = [x.step EXCEPT ![i] = st], y.auto = x.auto,
           y.result = x.result, y.by = x.by
    PROVE  StepsOK(y)
<1>1. x.step \in [Step -> StepStatus]
  BY DEF RunRow
<1>2. \A j \in Step : y.step[j] = IF j = i THEN st ELSE x.step[j]
  BY <1>1
<1>3. \A j \in Step : j < i => Settled(x, j)
  BY StepsAssumption DEF IsNext, Step
<1>4. \A j, k \in Step : k < j /\ y.step[j] \in {"running", "waiting_approval", "succeeded"}
                         => Settled(y, k)
  <2> SUFFICES ASSUME NEW j \in Step, NEW k \in Step, k < j,
                      y.step[j] \in {"running", "waiting_approval", "succeeded"}
               PROVE  Settled(y, k)
    OBVIOUS
  <2>1. CASE j = i
    BY <2>1, <1>2, <1>3, StepsAssumption DEF Step
  <2>2. CASE j # i
    BY <2>2, <1>2 DEF StepsOK, IsNext
  <2> QED BY <2>1, <2>2
<1>5. Approval \subseteq Step
  BY TemplateAssumption
<1>6. \A j \in Approval : y.step[j] = "succeeded" <=> x.step[j] = "succeeded"
  BY <1>2, <1>5 DEF IsNext
<1> QED BY <1>2, <1>4, <1>5, <1>6 DEF StepsOK

\* Starting over from a step drops exactly what the kept steps do not rest on (retry).
LEMMA RestartedRow ==
    ASSUME NEW x \in RunRow, StepsOK(x), StatusOK(x), x.status = "failed", NEW t \in Step
    PROVE  RowOK(Restart(x, t))
<1> DEFINE y == Restart(x, t)
<1>1. y \in RunRow
  <2> DEFINE keep(f, none) == [i \in Step |-> IF i < t THEN f[i] ELSE none]
             z == Release(x, "queued")
  <2>1. z \in RunRow
    BY DEF Release, RunRow, RunStatus
  <2>2. /\ keep(x.step, "pending") \in [Step -> StepStatus]
        /\ keep(x.attempt, 0) \in [Step -> 0 .. MaxAttempts]
        /\ keep(x.result, "none") \in [Step -> Result]
        /\ keep(x.by, "none") \in [Step -> {"none", "automatic", "author"}]
    BY BoundAssumption DEF RunRow, StepStatus, Result
  <2>3. y = [z EXCEPT !.cancel = FALSE, !.step = keep(x.step, "pending"),
                      !.attempt = keep(x.attempt, 0), !.result = keep(x.result, "none"),
                      !.by = keep(x.by, "none")]
    BY DEF Restart
  <2> HIDE DEF keep, z
  <2> QED BY <2>1, <2>2, <2>3, ZenonT(60) DEF RunRow
<1>2. /\ y.step = [i \in Step |-> IF i < t THEN x.step[i] ELSE "pending"]
      /\ y.result = [i \in Step |-> IF i < t THEN x.result[i] ELSE "none"]
      /\ y.by = [i \in Step |-> IF i < t THEN x.by[i] ELSE "none"]
      /\ y.auto = x.auto /\ y.status = "queued" /\ y.owner = NoWorker
  BY DEF Restart, Release, RunRow
<1>3. Approval \subseteq Step /\ \A i \in Approval : \A g \in Gate[i] : g \in Step /\ g < i
  BY TemplateAssumption
<1>4. StepsOK(y)
  <2>1. \A i, j \in Step : j < i /\ y.step[i] \in {"running", "waiting_approval", "succeeded"}
                           => Settled(y, j)
    BY <1>2, StepsAssumption DEF StepsOK, Step
  <2>2. /\ \A i \in Step : y.step[i] = "running" => i \notin Approval
        /\ \A i \in Step \ Approval : y.step[i] = "succeeded" => y.result[i] # "none"
    BY <1>2 DEF StepsOK
  <2>3. \A i \in Approval : y.step[i] = "succeeded" <=> y.by[i] # "none"
    BY <1>2, <1>3 DEF StepsOK
  <2>4. \A i \in Approval : y.by[i] = "automatic" =>
            /\ \A g \in Gate[i] : y.result[g] = "clean"
            /\ y.auto \/ i \in SelfClearing
    BY <1>2, <1>3, StepsAssumption DEF StepsOK, Step
  <2> QED BY <2>1, <2>2, <2>3, <2>4 DEF StepsOK
<1>5. ~AllSettled(y)
  <2>1. y.step[t] = "pending"
    BY <1>2, StepsAssumption DEF Step
  <2> QED BY <2>1 DEF AllSettled
<1>6. StatusOK(y)
  BY <1>2, <1>5 DEF StatusOK
<1> QED BY <1>1, <1>4, <1>6 DEF RowOK

\* A step that runs or waits is the next one, and no other step waits.
LEMMA OpenStepIsNext ==
    ASSUME NEW x \in RunRow, StepsOK(x), NEW i \in Step,
           x.step[i] \in {"running", "waiting_approval"}
    PROVE  /\ IsNext(x, i)
           /\ \A j \in Step : j # i => x.step[j] # "waiting_approval"
<1>1. \A j \in 1 .. (i - 1) : j \in Step /\ j < i
  BY StepsAssumption DEF Step
<1>2. \A j \in Step : j # i => j < i \/ i < j
  BY StepsAssumption DEF Step
<1> QED BY <1>1, <1>2 DEF IsNext, StepsOK

\* Rows that differ only in the lease, the backoff, the attempts or the cancel flag.
LEMMA SameStepsRow ==
    ASSUME NEW x, RowOK(x), NEW y \in RunRow,
           y.step = x.step, y.result = x.result, y.by = x.by, y.auto = x.auto,
           y.status = x.status, y.owner = x.owner
    PROVE  RowOK(y)
<1>1. AllSettled(y) <=> AllSettled(x)
  BY DEF AllSettled
<1> QED BY <1>1 DEF RowOK, StepsOK, StatusOK

-----------------------------------------------------------------------------
(* The inductive invariant.                                                 *)

AllRows == \A r \in Run : RowOK(run[r])

WorkersOK ==
    /\ pc \in [Worker -> WorkerState]
    /\ job \in [Worker -> Run \cup {NoRun}]
    /\ cur \in [Worker -> 0 .. Steps]
    /\ missed \in [Worker -> BOOLEAN]
    /\ interventions \in 0 .. MaxInterventions
    /\ \A w \in Worker : pc[w] \in {"idle", "down"} <=> job[w] = NoRun
    /\ \A w \in Worker : pc[w] \in {"prepared", "executing", "failing"} => cur[w] # 0

\* The claim still names the worker: nobody else has touched the run or the step.
ClaimsOK ==
    \A w \in Worker :
        pc[w] \in {"prepared", "executing", "failing"} /\ run[job[w]].owner = w =>
            run[job[w]].status = "running" /\ run[job[w]].step[cur[w]] = "running"

IInv == run \in [Run -> RunRow] /\ AllRows /\ WorkersOK /\ ClaimsOK

\* Writing a well-formed row keeps the table well formed.
LEMMA PostedRow ==
    ASSUME run \in [Run -> RunRow], AllRows, NEW r \in Run, NEW y, RowOK(y), Post(r, y)
    PROVE  run' \in [Run -> RunRow] /\ AllRows'
BY DEF Post, AllRows, RowOK

\* The author's requests and the clock leave a well-formed table.
LEMMA RequestRows ==
    ASSUME IInv, NEW r \in Run, Request(r) \/ Clock(r)
    PROVE  run' \in [Run -> RunRow] /\ AllRows'
<1> DEFINE x == run[r]
<1> USE PostedRow DEF IInv
<1>0. RowOK(x) /\ x \in RunRow /\ StepsOK(x) /\ StatusOK(x)
  BY DEF AllRows, RowOK
<1>1. CASE CreateRun(r)
  BY <1>1, NewRow DEF CreateRun
<1>2. ASSUME NEW i \in Step, Approve(r, i)
      PROVE  run' \in [Run -> RunRow] /\ AllRows'
  <2> DEFINE y == [x EXCEPT !.step[i] = "succeeded", !.by[i] = "author"]
  <2>1. IsNext(x, i) /\ \A j \in Step : j # i => x.step[j] # "waiting_approval"
    BY <1>0, <1>2, OpenStepIsNext DEF Approve
  <2>2. i \in Approval
    BY <1>0, <1>2 DEF Approve, StatusOK
  <2>3. y \in RunRow /\ y.step = [x.step EXCEPT ![i] = "succeeded"] /\ y.auto = x.auto
        /\ y.result = x.result /\ y.by = [x.by EXCEPT ![i] = "author"]
    BY <1>0 DEF RunRow, StepStatus
  <2>4. x.step \in [Step -> StepStatus] /\ x.by \in [Step -> {"none", "automatic", "author"}]
    BY <1>0 DEF RunRow
  <2>5. StepsOK(y)
    <3>1. /\ y.result[i] = x.result[i] /\ y.by[i] # "none" /\ y.by[i] # "automatic"
          /\ \A j \in Step \ {i} : y.result[j] = x.result[j] /\ y.by[j] = x.by[j]
      BY <2>3, <2>4
    <3> HIDE DEF x, y
    <3> QED BY <1>0, <2>1, <2>2, <2>3, <3>1, SettledNextRow
  <2>6. /\ \A j \in Step : y.step[j] # "waiting_approval"
        /\ \A j \in Step : y.step[j] = "skipped" => j \in Optional
    BY <1>0, <1>2, <2>1, <2>3, <2>4 DEF Approve, StatusOK
  <2>7. RowOK(QueueOrFinish(y))
    BY <2>3, <2>5, <2>6, QueuedOrFinishedRow
  <2> QED BY <1>2, <2>7 DEF Approve
<1>3. ASSUME NEW i \in Step, Reject(r, i)
      PROVE  run' \in [Run -> RunRow] /\ AllRows'
  <2> DEFINE y == [x EXCEPT !.step[i] = "failed"]
  <2>1. IsNext(x, i) /\ \A j \in Step : j # i => x.step[j] # "waiting_approval"
    BY <1>0, <1>3, OpenStepIsNext DEF Reject
  <2>2. y \in RunRow /\ y.step = [x.step EXCEPT ![i] = "failed"] /\ y.auto = x.auto
        /\ y.result = x.result /\ y.by = x.by
    BY <1>0 DEF RunRow, StepStatus
  <2>3. x.step \in [Step -> StepStatus]
    BY <1>0 DEF RunRow
  <2>4. StepsOK(y)
    BY <1>0, <2>1, <2>2, EnteredNextRow
  <2>5. /\ \A j \in Step : y.step[j] # "waiting_approval"
        /\ \A j \in Step : y.step[j] = "skipped" => j \in Optional
    BY <1>0, <1>3, <2>1, <2>2, <2>3 DEF Reject, StatusOK
  <2>6. RowOK(FailRun(y))
    BY <2>2, <2>4, <2>5, FailedRow
  <2> QED BY <1>3, <2>6 DEF Reject
<1>4. CASE RequestCancel(r)
  <2> DEFINE y == [x EXCEPT !.cancel = TRUE]
  <2>1. y \in RunRow /\ y.step = x.step /\ y.result = x.result /\ y.by = x.by
        /\ y.auto = x.auto /\ y.status = x.status /\ y.owner = x.owner
    BY <1>0 DEF RunRow
  <2>2. RowOK(y)
    BY <1>0, <2>1, SameStepsRow
  <2>3. RowOK(CancelRun(y))
    BY <2>1, <2>2, CancelledRow DEF RowOK
  <2> QED BY <1>4, <2>2, <2>3 DEF RequestCancel
<1>5. ASSUME NEW t \in Step, Retry(r, t)
      PROVE  run' \in [Run -> RunRow] /\ AllRows'
  BY <1>0, <1>5, RestartedRow DEF Retry
<1>6. CASE LeaseExpires(r)
  <2> DEFINE y == [x EXCEPT !.expired = TRUE]
  <2>1. y \in RunRow /\ y.step = x.step /\ y.result = x.result /\ y.by = x.by
        /\ y.auto = x.auto /\ y.status = x.status /\ y.owner = x.owner
    BY <1>0 DEF RunRow
  <2> QED BY <1>0, <1>6, <2>1, SameStepsRow DEF LeaseExpires
<1>7. CASE BackoffElapses(r)
  <2> DEFINE y == [x EXCEPT !.available = TRUE]
  <2>1. y \in RunRow /\ y.step = x.step /\ y.result = x.result /\ y.by = x.by
        /\ y.auto = x.auto /\ y.status = x.status /\ y.owner = x.owner
    BY <1>0 DEF RunRow
  <2> QED BY <1>0, <1>7, <2>1, SameStepsRow DEF BackoffElapses
<1> QED BY <1>1, <1>2, <1>3, <1>4, <1>5, <1>6, <1>7 DEF Request, Clock

\* The worker's transactions leave a well-formed table.
LEMMA WorkerRows ==
    ASSUME IInv, NEW w \in Worker, WorkerStep(w)
    PROVE  run' \in [Run -> RunRow] /\ AllRows'
<1> DEFINE x == run[job[w]]
<1> USE PostedRow DEF IInv
<1>1. ASSUME NEW r \in Run, ClaimNext(w, r)
      PROVE  run' \in [Run -> RunRow] /\ AllRows'
  <2> DEFINE z == run[r]
             y == [z EXCEPT !.status = "running", !.owner = w, !.expired = FALSE,
                            !.available = FALSE]
  <2>1. z \in RunRow /\ StepsOK(z) /\ StatusOK(z)
    BY DEF AllRows, RowOK
  <2>2. y \in RunRow /\ y.step = z.step /\ y.result = z.result /\ y.by = z.by
        /\ y.auto = z.auto /\ y.status = "running" /\ y.owner = w
    BY <2>1 DEF RunRow, RunStatus
  <2>3. z.status \in {"queued", "running"}
    BY <1>1 DEF ClaimNext, Claimable
  <2>4. w # NoWorker
    BY NameAssumption
  <2>5. ~AllSettled(y)
    BY <2>1, <2>2, <2>3 DEF StatusOK, AllSettled
  <2>6. StepsOK(y) /\ StatusOK(y)
    BY <2>1, <2>2, <2>3, <2>4, <2>5 DEF StepsOK, StatusOK
  <2> QED BY <1>1, <2>2, <2>6 DEF ClaimNext, RowOK
\* What the second transaction and the two that follow may rely on.
<1>2. ASSUME pc[w] \notin {"idle", "down"}
      PROVE  job[w] \in Run /\ RowOK(x) /\ x \in RunRow /\ StepsOK(x) /\ StatusOK(x)
  BY <1>2 DEF WorkersOK, AllRows, RowOK
<1>3. ASSUME pc[w] \notin {"idle", "down"}, x.status = "running"
      PROVE  /\ \A j \in Step : x.step[j] # "waiting_approval"
             /\ \A j \in Step : x.step[j] = "skipped" => j \in Optional
  BY <1>2, <1>3 DEF StatusOK
<1>4. CASE PrepareCancelled(w)
  BY <1>2, <1>4, CancelledRow DEF PrepareCancelled
<1>5. ASSUME NEW i \in Step, PrepareHopeless(w, i)
      PROVE  run' \in [Run -> RunRow] /\ AllRows'
  BY <1>2, <1>3, <1>5, FailedRow DEF PrepareHopeless, Owns
<1>6. ASSUME NEW i \in Step, PrepareApproval(w, i)
      PROVE  run' \in [Run -> RunRow] /\ AllRows'
  <2> DEFINE y == [x EXCEPT !.step[i] = "succeeded", !.by[i] = "automatic"]
             z == [x EXCEPT !.step[i] = "waiting_approval"]
  <2>1. /\ pc[w] = "claimed" /\ x.status = "running" /\ IsNext(x, i) /\ i \in Approval
        /\ Post(job[w], IF AutoApproves(x, i) THEN QueueOrFinish(y)
                        ELSE Release(z, "waiting_approval"))
    BY <1>6 DEF PrepareApproval, Owns
  <2>2. /\ job[w] \in Run /\ x \in RunRow /\ StepsOK(x) /\ StatusOK(x)
        /\ \A j \in Step : x.step[j] # "waiting_approval"
        /\ \A j \in Step : x.step[j] = "skipped" => j \in Optional
    BY <2>1, <1>2, <1>3
  <2>3. x.step \in [Step -> StepStatus] /\ x.by \in [Step -> {"none", "automatic", "author"}]
    BY <2>2 DEF RunRow
  <2>4. ASSUME AutoApproves(x, i) PROVE RowOK(QueueOrFinish(y))
    <3>1. y \in RunRow /\ y.step = [x.step EXCEPT ![i] = "succeeded"] /\ y.auto = x.auto
          /\ y.result = x.result /\ y.by = [x.by EXCEPT ![i] = "automatic"]
      BY <2>2 DEF RunRow, StepStatus
    <3>2. y.by[i] = "automatic" /\ \A j \in Step \ {i} : y.by[j] = x.by[j]
      BY <3>1, <2>3
    <3>3. StepsOK(y)
      <4>1. /\ i \in Step /\ i \in Approval /\ y.result[i] = x.result[i] /\ y.by[i] # "none"
            /\ \A j \in Step \ {i} : y.result[j] = x.result[j] /\ y.by[j] = x.by[j]
        BY <2>1, <3>1, <3>2
      <4> HIDE DEF x, y
      <4> QED BY <2>1, <2>2, <2>4, <3>1, <4>1, SettledNextRow
    <3>4. /\ \A j \in Step : y.step[j] # "waiting_approval"
          /\ \A j \in Step : y.step[j] = "skipped" => j \in Optional
      BY <2>2, <2>3, <3>1
    <3> QED BY <3>1, <3>3, <3>4, QueuedOrFinishedRow
  <2>5. RowOK(Release(z, "waiting_approval"))
    <3>1. z \in RunRow /\ z.step = [x.step EXCEPT ![i] = "waiting_approval"] /\ z.auto = x.auto
          /\ z.result = x.result /\ z.by = x.by
      BY <2>2 DEF RunRow, StepStatus
    <3>2. StepsOK(z)
      <4> HIDE DEF x, z
      <4> QED BY <2>1, <2>2, <3>1, EnteredNextRow
    <3>3. /\ z.step[i] = "waiting_approval"
          /\ \A j \in Step : z.step[j] = "waiting_approval" => j \in Approval
          /\ \A j \in Step : z.step[j] = "skipped" => j \in Optional
      BY <2>1, <2>2, <2>3, <3>1
    <3> HIDE DEF z
    <3> QED BY <3>1, <3>2, <3>3, ReleasedRow DEF RunStatus
  <2> QED BY <2>1, <2>2, <2>4, <2>5
<1>7. ASSUME NEW i \in Step, PrepareStart(w, i)
      PROVE  run' \in [Run -> RunRow] /\ AllRows'
  <2> DEFINE y == [x EXCEPT !.step[i] = "running", !.attempt[i] = @ + 1]
  <2>1. /\ pc[w] = "claimed" /\ x.status = "running" /\ IsNext(x, i) /\ i \notin Approval
        /\ x.attempt[i] < MaxAttempts /\ Post(job[w], y)
    BY <1>7 DEF PrepareStart, Owns
  <2>2. /\ job[w] \in Run /\ x \in RunRow /\ StepsOK(x) /\ StatusOK(x)
        /\ \A j \in Step : x.step[j] # "waiting_approval"
        /\ \A j \in Step : x.step[j] = "skipped" => j \in Optional
    BY <2>1, <1>2, <1>3
  <2>3. /\ x.step \in [Step -> StepStatus]
        /\ [x.attempt EXCEPT ![i] = @ + 1] \in [Step -> 0 .. MaxAttempts]
    BY <2>1, <2>2, BoundAssumption DEF RunRow
  <2>4. y \in RunRow /\ y.step = [x.step EXCEPT ![i] = "running"] /\ y.auto = x.auto
        /\ y.result = x.result /\ y.by = x.by /\ y.status = x.status /\ y.owner = x.owner
    BY <2>2, <2>3 DEF RunRow, StepStatus
  <2>5. StepsOK(y)
    <3> HIDE DEF x, y
    <3> QED BY <2>1, <2>2, <2>4, EnteredNextRow
  <2>6. /\ \A j \in Step : y.step[j] # "waiting_approval"
        /\ \A j \in Step : y.step[j] = "skipped" => j \in Optional
        /\ ~AllSettled(y)
    BY <2>2, <2>3, <2>4 DEF AllSettled
  <2>7. StatusOK(y)
    BY <2>1, <2>2, <2>4, <2>6 DEF StatusOK
  <2> QED BY <2>1, <2>2, <2>4, <2>5, <2>7 DEF RowOK
\* complete_step and fail_step accept the worker of a running step, which is the next one.
<1>8. ASSUME pc[w] \notin {"idle", "down"}, cur[w] # 0, Holds(w)
      PROVE  /\ job[w] \in Run /\ x \in RunRow /\ StepsOK(x) /\ StatusOK(x)
             /\ x.status = "running" /\ cur[w] \in Step \ Approval /\ IsNext(x, cur[w])
             /\ \A j \in Step : x.step[j] # "waiting_approval"
             /\ \A j \in Step : x.step[j] = "skipped" => j \in Optional
             /\ x.step \in [Step -> StepStatus]
  <2>1. cur[w] \in Step
    BY <1>8, StepsAssumption DEF WorkersOK, Step
  <2>2. x.status = "running"
    BY <1>2, <1>8, NameAssumption DEF Holds, StatusOK
  <2>3. IsNext(x, cur[w])
    BY <1>2, <1>8, <2>1, OpenStepIsNext DEF Holds
  <2>4. x.step \in [Step -> StepStatus]
    BY <1>2, <1>8 DEF RunRow
  <2> QED BY <1>2, <1>3, <1>8, <2>1, <2>2, <2>3, <2>4 DEF Holds, StepsOK
<1>9. ASSUME NEW res \in {"clean", "flagged"}, CompleteStep(w, res)
      PROVE  run' \in [Run -> RunRow] /\ AllRows'
  <2> DEFINE i == cur[w]
             y == [x EXCEPT !.step[i] = "succeeded", !.result[i] = res]
  <2>1. /\ pc[w] = "executing" /\ Holds(w)
        /\ Post(job[w], IF x.cancel THEN CancelRun(y) ELSE QueueOrFinish(y))
    BY <1>9 DEF CompleteStep
  <2>2. cur[w] # 0
    BY <2>1 DEF WorkersOK
  <2>3. /\ job[w] \in Run /\ x \in RunRow /\ StepsOK(x) /\ i \in Step \ Approval /\ IsNext(x, i)
        /\ \A j \in Step : x.step[j] # "waiting_approval"
        /\ \A j \in Step : x.step[j] = "skipped" => j \in Optional
        /\ x.step \in [Step -> StepStatus]
    BY <2>1, <2>2, <1>8
  <2>4. y \in RunRow /\ y.step = [x.step EXCEPT ![i] = "succeeded"] /\ y.auto = x.auto
        /\ y.result = [x.result EXCEPT ![i] = res] /\ y.by = x.by
    BY <2>3 DEF RunRow, StepStatus, Result
  <2>5. /\ y.result[i] # "none"
        /\ \A j \in Step \ {i} : y.result[j] = x.result[j] /\ y.by[j] = x.by[j]
    BY <2>3, <2>4, ZenonT(60) DEF RunRow
  <2>6. StepsOK(y)
    <3> HIDE DEF x, y, i
    <3> QED BY <2>3, <2>4, <2>5, SettledNextRow, ZenonT(60)
  <2>7. /\ \A j \in Step : y.step[j] # "waiting_approval"
        /\ \A j \in Step : y.step[j] = "skipped" => j \in Optional
    BY <2>3, <2>4
  <2>8. RowOK(CancelRun(y)) /\ RowOK(QueueOrFinish(y))
    BY <2>4, <2>6, <2>7, CancelledRow, QueuedOrFinishedRow
  <2> QED BY <2>1, <2>3, <2>8
<1>10. CASE FailStep(w)
  <2> DEFINE i == cur[w]
             y == [x EXCEPT !.step[i] = "pending"]
             z == [x EXCEPT !.step[i] = "failed"]
  <2>1. /\ pc[w] = "failing" /\ Holds(w)
        /\ Post(job[w], IF x.attempt[i] < MaxAttempts THEN Backoff(x, i) ELSE FailRun(z))
    BY <1>10 DEF FailStep
  <2>2. cur[w] # 0
    BY <2>1 DEF WorkersOK
  <2>3. /\ job[w] \in Run /\ x \in RunRow /\ StepsOK(x) /\ i \in Step \ Approval /\ IsNext(x, i)
        /\ \A j \in Step : x.step[j] # "waiting_approval"
        /\ \A j \in Step : x.step[j] = "skipped" => j \in Optional
        /\ x.step \in [Step -> StepStatus]
    BY <2>1, <2>2, <1>8
  <2>4. RowOK(Backoff(x, i))
    <3>1. y \in RunRow /\ y.step = [x.step EXCEPT ![i] = "pending"] /\ y.auto = x.auto
          /\ y.result = x.result /\ y.by = x.by
      BY <2>3 DEF RunRow, StepStatus
    <3>2. StepsOK(y)
      <4> HIDE DEF x, y, i
      <4> QED BY <2>3, <3>1, EnteredNextRow
    <3>3. /\ \A j \in Step : y.step[j] # "waiting_approval"
          /\ \A j \in Step : y.step[j] = "skipped" => j \in Optional
          /\ ~AllSettled(y)
      BY <2>3, <3>1 DEF AllSettled
    <3> DEFINE q == Release(y, "queued")
               b == [q EXCEPT !.available = FALSE]
    <3>4. RowOK(q)
      BY <3>1, <3>2, <3>3, ReleasedRow DEF RunStatus
    <3>5. b \in RunRow /\ b.step = q.step /\ b.result = q.result /\ b.by = q.by
          /\ b.auto = q.auto /\ b.status = q.status /\ b.owner = q.owner
      <4> HIDE DEF q
      <4> QED BY <3>4 DEF RowOK, RunRow
    <3>6. RowOK(b)
      BY <3>4, <3>5, SameStepsRow
    <3> QED BY <3>6 DEF Backoff
  <2>5. RowOK(FailRun(z))
    <3>1. z \in RunRow /\ z.step = [x.step EXCEPT ![i] = "failed"] /\ z.auto = x.auto
          /\ z.result = x.result /\ z.by = x.by
      BY <2>3 DEF RunRow, StepStatus
    <3>2. StepsOK(z)
      <4> HIDE DEF x, z, i
      <4> QED BY <2>3, <3>1, EnteredNextRow
    <3>3. /\ \A j \in Step : z.step[j] # "waiting_approval"
          /\ \A j \in Step : z.step[j] = "skipped" => j \in Optional
      BY <2>3, <3>1
    <3> QED BY <3>1, <3>2, <3>3, FailedRow
  <2> QED BY <2>1, <2>3, <2>4, <2>5
<1>11. CASE run' = run
  BY <1>11 DEF AllRows
<1> QED
  BY <1>1, <1>4, <1>5, <1>6, <1>7, <1>9, <1>10, <1>11
  DEF WorkerStep, PrepareRejected, BeginExecution, ExecutionFails, FailRejected

\* The workers' own variables stay in their types.
LEMMA WorkerTypes ==
    ASSUME IInv, [Next]_vars
    PROVE  WorkersOK'
<1> USE DEF WorkersOK
<1>0. WorkersOK
  BY DEF IInv
<1>1. ASSUME NEW r \in Run, Request(r) \/ Clock(r)
      PROVE  WorkersOK'
  BY <1>0, <1>1 DEF Request, Clock, CreateRun, Approve, Reject, RequestCancel, Retry,
                    LeaseExpires, BackoffElapses, Announce
<1>2. ASSUME NEW w \in Worker, NEW p \in {"idle", "down"}, Leave(w, p),
             missed' \in [Worker -> BOOLEAN], interventions' \in 0 .. MaxInterventions
      PROVE  WorkersOK'
  <2>1. /\ pc' = [pc EXCEPT ![w] = p] /\ job' = [job EXCEPT ![w] = NoRun]
        /\ cur' = [cur EXCEPT ![w] = 0]
    BY <1>2 DEF Leave
  <2>2. pc' \in [Worker -> WorkerState] /\ job' \in [Worker -> Run \cup {NoRun}]
    BY <1>0, <2>1 DEF WorkerState
  <2>3. cur' \in [Worker -> 0 .. Steps]
    BY <1>0, <2>1, StepsAssumption
  <2>4. \A v \in Worker : pc'[v] \in {"idle", "down"} <=> job'[v] = NoRun
    BY <1>0, <2>1
  <2>5. \A v \in Worker : pc'[v] \in {"prepared", "executing", "failing"} => cur'[v] # 0
    BY <1>0, <2>1
  <2> QED BY <1>2, <2>2, <2>3, <2>4, <2>5
<1>3. ASSUME NEW w \in Worker, WorkerStep(w)
      PROVE  WorkersOK'
  <2>1. missed' \in [Worker -> BOOLEAN] /\ interventions' = interventions
    BY <1>0, <1>3 DEF WorkerStep, ClaimNext, PrepareRejected, PrepareCancelled, PrepareHopeless,
        PrepareApproval, PrepareStart, BeginExecution, CompleteStep, ExecutionFails, FailStep,
        FailRejected, Announce
  <2>2. CASE \E r \in Run : ClaimNext(w, r)
    BY <1>0, <2>1, <2>2, NameAssumption DEF ClaimNext, WorkerState
  <2>3. CASE \E i \in Step : PrepareStart(w, i)
    BY <1>0, <2>1, <2>3, StepsAssumption DEF PrepareStart, WorkerState, Step
  <2>4. CASE BeginExecution(w) \/ ExecutionFails(w)
    BY <1>0, <2>1, <2>4 DEF BeginExecution, ExecutionFails, Goto, WorkerState
  <2>5. CASE Leave(w, "idle") \/ Leave(w, "down")
    BY <1>0, <1>2, <2>1, <2>5
  <2> QED
    BY <1>3, <2>2, <2>3, <2>4, <2>5
    DEF WorkerStep, PrepareRejected, PrepareCancelled, PrepareHopeless, PrepareApproval,
        CompleteStep, FailStep, FailRejected
<1>4. ASSUME NEW w \in Worker, Exit(w)
      PROVE  WorkersOK'
  BY <1>0, <1>2, <1>4, BoundAssumption DEF Exit, Intervene
<1>5. ASSUME NEW w \in Worker, Start(w)
      PROVE  WorkersOK'
  BY <1>0, <1>5, BoundAssumption DEF Start, Intervene, Goto, WorkerState
<1>6. CASE UNCHANGED vars
  BY <1>0, <1>6 DEF vars
<1> QED BY <1>1, <1>3, <1>4, <1>5, <1>6 DEF Next

\* A transition that gives up the claim leaves claimed_by NULL.
LEMMA ReleasedOwner ==
    ASSUME NEW x \in RunRow, NEW i \in Step
    PROVE  /\ \A f : QueueOrFinish([x EXCEPT !.step[i] = "succeeded", !.by[i] = f]).owner = NoWorker
           /\ \A f : QueueOrFinish([x EXCEPT !.step[i] = "succeeded", !.result[i] = f]).owner = NoWorker
           /\ \A f : CancelRun([x EXCEPT !.step[i] = "succeeded", !.result[i] = f]).owner = NoWorker
           /\ \A f, st : Release([x EXCEPT !.step[i] = f], st).owner = NoWorker
           /\ FailRun(x).owner = NoWorker
           /\ FailRun([x EXCEPT !.step[i] = "failed"]).owner = NoWorker
           /\ CancelRun(x).owner = NoWorker
           /\ Backoff(x, i).owner = NoWorker
BY DEF QueueOrFinish, CancelRun, FailRun, Backoff, Release, RunRow

\* A request never takes a running run from its worker: it may flag it, no more.
LEMMA RequestFrame ==
    ASSUME IInv, NEW r \in Run, Request(r) \/ Clock(r)
    PROVE  /\ UNCHANGED <<pc, job, cur, interventions>>
           /\ \A q \in Run \ {r} : run'[q] = run[q]
           /\ run[r].status = "running" =>
                 /\ run'[r].status = run[r].status /\ run'[r].owner = run[r].owner
                 /\ run'[r].step = run[r].step
<1>1. run \in [Run -> RunRow] /\ run[r] \in RunRow
  BY DEF IInv
<1>2. UNCHANGED <<pc, job, cur, interventions>> /\ \E y : Post(r, y)
  BY DEF Request, Clock, CreateRun, Approve, Reject, RequestCancel, Retry, LeaseExpires,
         BackoffElapses
<1>3. \A q \in Run \ {r} : run'[q] = run[q]
  BY <1>1, <1>2 DEF Post
<1>4. ASSUME run[r].status = "running"
      PROVE  /\ run'[r].status = run[r].status /\ run'[r].owner = run[r].owner
             /\ run'[r].step = run[r].step
  <2>1. CASE RequestCancel(r)
    BY <1>1, <1>4, <2>1 DEF RequestCancel, Post, RunRow
  <2>2. CASE LeaseExpires(r)
    BY <1>1, <2>2 DEF LeaseExpires, Post, RunRow
  <2> QED
    BY <1>4, <2>1, <2>2 DEF Request, Clock, CreateRun, Approve, Reject, Retry, BackoffElapses
<1> QED BY <1>2, <1>3, <1>4

\* A request or the clock never makes anybody the owner of a run that is not running.
LEMMA RequestReleases ==
    ASSUME IInv, NEW r \in Run, Request(r) \/ Clock(r), run[r].status # "running"
    PROVE  run'[r].owner = NoWorker
<1> DEFINE x == run[r]
<1>1. run \in [Run -> RunRow] /\ x \in RunRow /\ x.owner = NoWorker
  BY DEF IInv, AllRows, RowOK, StatusOK
<1>2. CASE CreateRun(r)
  BY <1>1, <1>2 DEF CreateRun, Post, NewRun
<1>3. CASE \E i \in Step : Approve(r, i)
  <2>1. \E y : y.owner = NoWorker /\ Post(r, y)
    BY <1>1, <1>3, ReleasedOwner, ZenonT(60) DEF Approve
  <2> QED BY <1>1, <2>1 DEF Post
<1>4. CASE \E i \in Step : Reject(r, i)
  <2>1. \E y : y.owner = NoWorker /\ Post(r, y)
    BY <1>1, <1>4, ReleasedOwner DEF Reject
  <2> QED BY <1>1, <2>1 DEF Post
<1>5. CASE RequestCancel(r)
  <2> DEFINE y == [x EXCEPT !.cancel = TRUE]
  <2>1. y \in RunRow
    BY <1>1 DEF RunRow
  <2>2. 1 \in Step
    BY StepsAssumption DEF Step
  <2>3. CancelRun(y).owner = NoWorker
    BY <2>1, <2>2, ReleasedOwner
  <2> QED BY <1>1, <1>5, <2>3 DEF RequestCancel, Post
<1>6. CASE \E t \in Step : Retry(r, t)
  <2>1. PICK t \in Step : Retry(r, t)
    BY <1>6
  <2>2. RowOK(Restart(x, t)) /\ Post(r, Restart(x, t))
    BY <2>1, RestartedRow DEF IInv, AllRows, RowOK, Retry
  <2>3. Restart(x, t).status = "queued"
    BY <1>1 DEF Restart, Release, RunRow
  <2>4. Restart(x, t).owner = NoWorker
    BY <2>2, <2>3 DEF RowOK, StatusOK
  <2> QED BY <1>1, <2>2, <2>4 DEF Post
<1>7. CASE LeaseExpires(r) \/ BackoffElapses(r)
  <2>1. /\ [x EXCEPT !.available = TRUE].owner = x.owner
        /\ [x EXCEPT !.expired = TRUE].owner = x.owner
    BY <1>1 DEF RunRow
  <2>2. Post(r, [x EXCEPT !.available = TRUE]) \/ Post(r, [x EXCEPT !.expired = TRUE])
    BY <1>7 DEF LeaseExpires, BackoffElapses
  <2> QED BY <1>1, <2>1, <2>2 DEF Post
<1> QED BY <1>2, <1>3, <1>4, <1>5, <1>6, <1>7 DEF Request, Clock

\* A worker writes the row of a run only when the row names it or when it claims the run,
\* and the row then names it or nobody.
LEMMA WorkerFrame ==
    ASSUME IInv, NEW w \in Worker, WorkerStep(w)
    PROVE  /\ \A v \in Worker \ {w} : pc'[v] = pc[v] /\ job'[v] = job[v] /\ cur'[v] = cur[v]
           /\ interventions' = interventions
           /\ \A q \in Run : \/ run'[q] = run[q]
                             \/ /\ run[q].owner = w /\ run'[q].owner \in {w, NoWorker}
                                /\ pc[w] \notin {"idle", "down"} /\ q = job[w]
                             \/ run'[q].owner = w /\ ClaimNext(w, q)
<1>1. run \in [Run -> RunRow] /\ WorkersOK
  BY DEF IInv
<1>2. \A v \in Worker \ {w} : pc'[v] = pc[v] /\ job'[v] = job[v] /\ cur'[v] = cur[v]
  BY <1>1 DEF WorkersOK, WorkerStep, ClaimNext, PrepareRejected, PrepareCancelled,
      PrepareHopeless, PrepareApproval, PrepareStart, BeginExecution, CompleteStep,
      ExecutionFails, FailStep, FailRejected, Leave, Goto
<1>3. interventions' = interventions
  BY DEF WorkerStep, ClaimNext, PrepareRejected, PrepareCancelled, PrepareHopeless,
      PrepareApproval, PrepareStart, BeginExecution, CompleteStep, ExecutionFails, FailStep,
      FailRejected
<1> DEFINE Frame(q) == \/ run'[q] = run[q]
                       \/ /\ run[q].owner = w /\ run'[q].owner \in {w, NoWorker}
                          /\ pc[w] \notin {"idle", "down"} /\ q = job[w]
                       \/ run'[q].owner = w /\ ClaimNext(w, q)
<1>4. ASSUME NEW r \in Run, ClaimNext(w, r), NEW q \in Run
      PROVE  Frame(q)
  BY <1>1, <1>4, ZenonT(60) DEF ClaimNext, Post, RunRow
<1>5. ASSUME pc[w] \notin {"idle", "down"}
      PROVE  job[w] \in Run /\ run[job[w]] \in RunRow
  BY <1>1, <1>5 DEF WorkersOK
<1>6. ASSUME pc[w] \notin {"idle", "down"}, run[job[w]].owner = w,
             \E y : y.owner \in {w, NoWorker} /\ Post(job[w], y), NEW q \in Run
      PROVE  Frame(q)
  BY <1>1, <1>5, <1>6 DEF Post
<1>7. ASSUME PrepareCancelled(w), NEW q \in Run
      PROVE  Frame(q)
  <2>1. 1 \in Step
    BY StepsAssumption DEF Step
  <2>2. /\ pc[w] = "claimed" /\ run[job[w]].owner = w
        /\ \E y : y.owner = NoWorker /\ Post(job[w], y)
    BY <1>5, <1>7, <2>1, ReleasedOwner DEF PrepareCancelled, Owns
  <2> QED BY <2>2, <1>6
<1>8. ASSUME NEW i \in Step, PrepareHopeless(w, i), NEW q \in Run
      PROVE  Frame(q)
  <2>1. /\ pc[w] = "claimed" /\ run[job[w]].owner = w
        /\ \E y : y.owner = NoWorker /\ Post(job[w], y)
    BY <1>5, <1>8, ReleasedOwner DEF PrepareHopeless, Owns
  <2> QED BY <2>1, <1>6
<1>9. ASSUME NEW i \in Step, PrepareApproval(w, i), NEW q \in Run
      PROVE  Frame(q)
  <2> DEFINE x == run[job[w]]
             passed == QueueOrFinish([x EXCEPT !.step[i] = "succeeded", !.by[i] = "automatic"])
             asking == Release([x EXCEPT !.step[i] = "waiting_approval"], "waiting_approval")
  <2>1. pc[w] = "claimed" /\ x.owner = w
    BY <1>9 DEF PrepareApproval, Owns
  <2>2. Post(job[w], passed) \/ Post(job[w], asking)
    BY <1>9 DEF PrepareApproval
  <2>3. passed.owner = NoWorker /\ asking.owner = NoWorker
    BY <1>5, <2>1 DEF QueueOrFinish, Release, RunRow
  <2>4. \E y : y.owner = NoWorker /\ Post(job[w], y)
    <3> HIDE DEF passed, asking
    <3> QED BY <2>2, <2>3
  <2> QED BY <2>1, <2>4, <1>6
<1>10. ASSUME NEW i \in Step, PrepareStart(w, i), NEW q \in Run
       PROVE  Frame(q)
  <2> DEFINE y == [run[job[w]] EXCEPT !.step[i] = "running", !.attempt[i] = @ + 1]
  <2>1. pc[w] = "claimed" /\ run[job[w]].owner = w /\ Post(job[w], y)
    BY <1>10 DEF PrepareStart, Owns
  <2>2. y.owner = w
    BY <2>1, <1>5 DEF RunRow
  <2>3. \E z : z.owner = w /\ Post(job[w], z)
    <3> HIDE DEF y
    <3> QED BY <2>1, <2>2
  <2> QED BY <2>1, <2>3, <1>6
\* complete_step and fail_step change the row of a run that names the worker.
<1>11. ASSUME pc[w] \in {"executing", "failing"}
       PROVE  cur[w] \in Step
  BY <1>1, <1>11, StepsAssumption DEF WorkersOK, Step
<1>12. ASSUME NEW res, CompleteStep(w, res), NEW q \in Run
       PROVE  Frame(q)
  <2>1. /\ pc[w] = "executing" /\ run[job[w]].owner = w
        /\ \E y : y.owner = NoWorker /\ Post(job[w], y)
    BY <1>5, <1>11, <1>12, ReleasedOwner DEF CompleteStep, Holds
  <2> QED BY <2>1, <1>6
<1>13. ASSUME FailStep(w), NEW q \in Run
       PROVE  Frame(q)
  <2>1. /\ pc[w] = "failing" /\ run[job[w]].owner = w
        /\ \E y : y.owner = NoWorker /\ Post(job[w], y)
    BY <1>5, <1>11, <1>13, ReleasedOwner DEF FailStep, Holds
  <2> QED BY <2>1, <1>6
<1>14. CASE run' = run
  BY <1>14, <1>2, <1>3
<1> QED
  BY <1>2, <1>3, <1>4, <1>7, <1>8, <1>9, <1>10, <1>12, <1>13, <1>14
  DEF WorkerStep, PrepareRejected, BeginExecution, ExecutionFails, FailRejected

Busy(w) == pc[w] \in {"prepared", "executing", "failing"}

\* What a worker trusts between its transactions stays true while the claim names it.
LEMMA ClaimsKept ==
    ASSUME IInv, [Next]_vars
    PROVE  ClaimsOK'
<1> SUFFICES ASSUME NEW w \in Worker, Busy(w)', (run[job[w]].owner = w)'
             PROVE  (run[job[w]].status = "running" /\ run[job[w]].step[cur[w]] = "running")'
  BY DEF ClaimsOK, Busy
<1>0. run \in [Run -> RunRow] /\ WorkersOK /\ ClaimsOK /\ AllRows /\ WorkersOK'
  BY WorkerTypes DEF IInv
<1>1. \A v \in Worker : Busy(v) => job[v] \in Run /\ cur[v] \in Step
  BY <1>0, StepsAssumption DEF Busy, WorkersOK, Step
<1>2. ASSUME NEW r \in Run, Request(r) \/ Clock(r)
      PROVE  (run[job[w]].status = "running" /\ run[job[w]].step[cur[w]] = "running")'
  <2>1. /\ pc' = pc /\ job' = job /\ cur' = cur
        /\ \A q \in Run \ {r} : run'[q] = run[q]
        /\ run[r].status = "running" =>
              /\ run'[r].status = run[r].status /\ run'[r].owner = run[r].owner
              /\ run'[r].step = run[r].step
    BY <1>2, RequestFrame
  <2>2. Busy(w) /\ job[w] \in Run
    BY <1>1, <2>1 DEF Busy
  <2>3. CASE job[w] # r
    BY <1>0, <2>1, <2>2, <2>3 DEF ClaimsOK, Busy
  <2>4. CASE job[w] = r
    <3>1. run'[r].owner = w /\ w # NoWorker
      BY <2>1, <2>4, NameAssumption
    <3>2. RowOK(run[r]) /\ RowOK(run'[r])
      BY <1>0, <1>2, RequestRows DEF AllRows
    <3>3. run'[r].status = "running"
      BY <3>1, <3>2 DEF RowOK, StatusOK
    <3>4. run[r].status = "running"
      BY <1>2, <3>1, RequestReleases
    <3> QED BY <1>0, <2>1, <2>2, <2>4, <3>1, <3>4 DEF ClaimsOK, Busy
  <2> QED BY <2>3, <2>4
<1>3. ASSUME NEW v \in Worker, v # w, WorkerStep(v)
      PROVE  (run[job[w]].status = "running" /\ run[job[w]].step[cur[w]] = "running")'
  <2>1. /\ pc'[w] = pc[w] /\ job'[w] = job[w] /\ cur'[w] = cur[w]
        /\ \A q \in Run : run'[q] = run[q] \/ run'[q].owner \in {v, NoWorker}
    BY <1>3, WorkerFrame
  <2>2. Busy(w) /\ job[w] \in Run
    BY <1>1, <2>1 DEF Busy
  <2>3. run'[job[w]] = run[job[w]]
    BY <1>3, <2>1, <2>2, NameAssumption
  <2> QED BY <1>0, <2>1, <2>2, <2>3 DEF ClaimsOK, Busy
<1>4. CASE \E i \in Step : PrepareStart(w, i)
  <2>1. PICK i \in Step : PrepareStart(w, i)
    BY <1>4
  <2>2. pc[w] = "claimed" /\ run[job[w]].status = "running"
    BY <2>1 DEF PrepareStart, Owns
  <2>3. job[w] \in Run /\ run[job[w]] \in RunRow
    BY <1>0, <2>2 DEF WorkersOK
  <2> DEFINE y == [run[job[w]] EXCEPT !.step[i] = "running", !.attempt[i] = @ + 1]
  <2>4. y.status = "running" /\ y.step[i] = "running"
    BY <2>2, <2>3 DEF RunRow
  <2>5. run'[job[w]] = y /\ job' = job /\ cur'[w] = i
    BY <1>0, <2>1, <2>3 DEF PrepareStart, Post, WorkersOK
  <2> QED BY <2>4, <2>5
<1>5. CASE BeginExecution(w) \/ ExecutionFails(w)
  <2>1. run' = run /\ job' = job /\ cur' = cur /\ Busy(w)
    BY <1>5 DEF BeginExecution, ExecutionFails, Goto, Busy
  <2> QED BY <1>0, <2>1 DEF ClaimsOK, Busy
<1>6. ASSUME NEW v \in Worker, pc' = [pc EXCEPT ![v] = "idle"] \/ pc' = [pc EXCEPT ![v] = "down"]
      PROVE  v # w
  BY <1>0, <1>6 DEF WorkersOK, Busy
<1>7. ASSUME WorkerStep(w)
      PROVE  (run[job[w]].status = "running" /\ run[job[w]].step[cur[w]] = "running")'
  <2>1. ~(\E r \in Run : ClaimNext(w, r))
    BY <1>0 DEF ClaimNext, WorkersOK, Busy
  <2> QED
    BY <1>4, <1>5, <1>6, <1>7, <2>1
    DEF WorkerStep, PrepareRejected, PrepareCancelled, PrepareHopeless, PrepareApproval,
        CompleteStep, FailStep, FailRejected, Leave
<1>8. ASSUME NEW v \in Worker, Exit(v) \/ Start(v)
      PROVE  (run[job[w]].status = "running" /\ run[job[w]].step[cur[w]] = "running")'
  <2>1. v # w
    BY <1>6, <1>8 DEF Exit, Start, Leave, Goto
  <2>2. run' = run /\ pc'[w] = pc[w] /\ job'[w] = job[w] /\ cur'[w] = cur[w]
    BY <1>0, <1>8, <2>1 DEF Exit, Start, Leave, Goto, WorkersOK
  <2> QED BY <1>0, <2>2 DEF ClaimsOK, Busy
<1>9. CASE UNCHANGED vars
  BY <1>0, <1>9 DEF vars, ClaimsOK, Busy
<1> QED BY <1>2, <1>3, <1>7, <1>8, <1>9 DEF Next

\* The invariant is inductive: rows stay well formed and claims keep their promise.
THEOREM Invariance == Spec => []IInv
<1>1. Init => IInv
  <2> SUFFICES ASSUME Init PROVE IInv
    OBVIOUS
  <2>1. RowOK(Absent)
    <3> DEFINE z == NewRun(TRUE, FALSE)
    <3>1. RowOK(z)
      BY NewRow
    <3>2. /\ Absent \in RunRow /\ Absent.step = z.step /\ Absent.result = z.result
          /\ Absent.by = z.by /\ Absent.auto = z.auto /\ Absent.owner = z.owner
          /\ Absent.status = "absent"
      <4>1. z \in RunRow
        BY <3>1 DEF RowOK
      <4>2. Absent = [z EXCEPT !.status = "absent", !.available = FALSE]
        BY DEF Absent
      <4>3. z.owner = NoWorker /\ z.auto = FALSE
        BY DEF NewRun
      <4> HIDE DEF z
      <4> QED BY <4>1, <4>2, <4>3 DEF RunRow, RunStatus
    <3>3. \A i \in Step : Absent.step[i] = "pending"
      BY <3>2 DEF NewRun
    <3>4. Absent.owner = NoWorker
      BY <3>2 DEF NewRun
    <3>5. StepsOK(Absent)
      <4> HIDE DEF z
      <4> QED BY <3>1, <3>2 DEF RowOK, StepsOK
    <3> QED BY <3>2, <3>3, <3>4, <3>5 DEF RowOK, StatusOK
  <2>2. run \in [Run -> RunRow] /\ AllRows
    BY <2>1 DEF Init, AllRows, RowOK
  <2>3. WorkersOK
    BY StepsAssumption, BoundAssumption DEF Init, WorkersOK, WorkerState
  <2>4. ClaimsOK
    BY DEF Init, ClaimsOK
  <2> QED BY <2>2, <2>3, <2>4 DEF IInv
<1>2. IInv /\ [Next]_vars => IInv'
  <2> SUFFICES ASSUME IInv, [Next]_vars PROVE IInv'
    OBVIOUS
  <2>1. run' \in [Run -> RunRow] /\ AllRows'
    <3>1. CASE run' = run
      BY <3>1 DEF IInv, AllRows
    <3>2. ASSUME NEW r \in Run, Request(r) \/ Clock(r)
          PROVE  run' \in [Run -> RunRow] /\ AllRows'
      BY <3>2, RequestRows
    <3>3. ASSUME NEW w \in Worker, WorkerStep(w)
          PROVE  run' \in [Run -> RunRow] /\ AllRows'
      BY <3>3, WorkerRows
    <3> QED BY <3>1, <3>2, <3>3 DEF Next, vars, Exit, Start
  <2> QED BY <2>1, WorkerTypes, ClaimsKept DEF IInv
<1> QED BY <1>1, <1>2, PTL DEF Spec

\* Every variable stays in its type, for every template and any number of runs and workers.
THEOREM TypeCorrect == Spec => []TypeOK
<1>1. IInv => TypeOK
  BY DEF IInv, WorkersOK, TypeOK
<1> QED BY <1>1, Invariance, PTL

\* Steps are entered in order, whatever crashes, leases and retries do.
THEOREM OrderKept == Spec => []StepsInOrder
<1>1. IInv => StepsInOrder
  BY DEF IInv, AllRows, RowOK, StepsOK, StepsInOrder
<1> QED BY <1>1, Invariance, PTL

\* Automatic approval follows its rules, and every other passed approval is the author's.
THEOREM ApprovalsKept == Spec => []ApprovalsRespected
<1>1. IInv => ApprovalsRespected
  BY TemplateAssumption DEF IInv, AllRows, RowOK, StepsOK, ApprovalsRespected
<1> QED BY <1>1, Invariance, PTL

\* The status of a run and those of its steps agree.
THEOREM StatusAgrees == Spec => []RunMatchesSteps
<1>1. IInv => RunMatchesSteps
  <2> SUFFICES ASSUME IInv, NEW r \in Run
               PROVE  LET x == run[r]
                      IN  /\ x.owner # NoWorker <=> x.status = "running"
                          /\ x.status \in {"queued", "running"} =>
                                \E i \in Step : IsNext(x, i) /\ x.step[i] # "waiting_approval"
                          /\ x.status = "waiting_approval" =>
                                \E i \in Approval : IsNext(x, i) /\ x.step[i] = "waiting_approval"
                          /\ x.status = "succeeded" => AllSettled(x)
                          /\ x.status # "cancelled" =>
                                {i \in Step : x.step[i] = "skipped"} \subseteq Optional
    BY DEF RunMatchesSteps
  <2> DEFINE x == run[r]
  <2>1. x \in RunRow /\ StepsOK(x) /\ StatusOK(x)
    BY DEF IInv, AllRows, RowOK
  <2> HIDE DEF x
  <2>2. ASSUME x.status \in {"queued", "running"}
        PROVE  \E i \in Step : IsNext(x, i) /\ x.step[i] # "waiting_approval"
    BY <2>1, <2>2, NextExists DEF StatusOK
  <2>3. ASSUME x.status = "waiting_approval"
        PROVE  \E i \in Approval : IsNext(x, i) /\ x.step[i] = "waiting_approval"
    BY <2>1, <2>3, OpenStepIsNext DEF StatusOK
  <2> QED BY <2>1, <2>2, <2>3 DEF StatusOK, x
<1> QED BY <1>1, Invariance, PTL

\* The claim is all a worker needs between its transactions: what it prepared is still next,
\* and the results its executor reads are there.
THEOREM ClaimProtects == Spec => []ClaimIsFence
<1>1. IInv => ClaimIsFence
  <2> SUFFICES ASSUME IInv, NEW w \in Worker, Busy(w), run[job[w]].owner = w
               PROVE  /\ run[job[w]].status = "running"
                      /\ run[job[w]].step[cur[w]] = "running"
                      /\ IsNext(run[job[w]], cur[w])
                      /\ \A g \in Input[cur[w]] : run[job[w]].result[g] # "none"
    BY DEF ClaimIsFence, Busy
  <2> DEFINE x == run[job[w]]
             i == cur[w]
  <2>1. job[w] \in Run /\ i \in Step
    BY StepsAssumption DEF IInv, WorkersOK, Busy, Step
  <2>2. x.status = "running" /\ x.step[i] = "running"
    BY DEF IInv, ClaimsOK, Busy
  <2>3. x \in RunRow /\ StepsOK(x) /\ StatusOK(x)
    BY <2>1 DEF IInv, AllRows, RowOK
  <2>4. IsNext(x, i)
    BY <2>1, <2>2, <2>3, OpenStepIsNext
  <2>5. ASSUME NEW g \in Input[i] PROVE x.result[g] # "none"
    <3>1. g \in Step \ Approval /\ g \notin Optional /\ g < i
      BY <2>1, TemplateAssumption
    <3>2. x.step[g] \in {"succeeded", "skipped"}
      BY <2>1, <2>2, <2>3, <3>1 DEF StepsOK
    <3>3. x.step[g] = "succeeded"
      BY <2>2, <2>3, <3>1, <3>2 DEF StatusOK
    <3> QED BY <2>3, <3>1, <3>3 DEF StepsOK
  <2> QED BY <2>2, <2>4, <2>5
<1> QED BY <1>1, Invariance, PTL

\* Ends are final and a retry keeps what came before it, whoever is late.
THEOREM EndsAreFinal == Spec => TerminalIsFinal
<1> DEFINE Fresh(r, t) ==
               /\ run'[r].status = "queued"
               /\ \A i \in Step :
                     IF i < t
                     THEN run'[r].step[i] = run[r].step[i] /\ run'[r].result[i] = run[r].result[i]
                     ELSE run'[r].step[i] = "pending" /\ run'[r].result[i] = "none"
           Final(r) == /\ run[r].status \in {"succeeded", "cancelled"} => run'[r] = run[r]
                       /\ run[r].status = "failed" /\ run'[r] # run[r] => \E t \in Step : Fresh(r, t)
<1>1. IInv /\ [Next]_vars => \A r \in Run : Final(r)
  <2> SUFFICES ASSUME IInv, [Next]_vars, NEW r \in Run, run[r].status \in TERMINAL_RUN_STATUSES
               PROVE  Final(r)
    BY DEF TERMINAL_RUN_STATUSES
  <2>0. run \in [Run -> RunRow] /\ run[r] \in RunRow /\ run[r].owner = NoWorker
    BY DEF IInv, AllRows, RowOK, StatusOK, TERMINAL_RUN_STATUSES
  <2>1. ASSUME run' = run PROVE Final(r)
    BY <2>1
  <2>2. ASSUME NEW w \in Worker, WorkerStep(w) PROVE Final(r)
    <3>1. ~ClaimNext(w, r)
      BY DEF ClaimNext, Claimable, TERMINAL_RUN_STATUSES
    <3>2. run'[r] = run[r]
      BY <2>0, <2>2, <3>1, WorkerFrame, NameAssumption
    <3> QED BY <3>2
  <2>3. ASSUME NEW q \in Run, q # r, Request(q) \/ Clock(q) PROVE Final(r)
    <3>1. run'[r] = run[r]
      BY <2>3, RequestFrame
    <3> QED BY <3>1
  <2>4. ASSUME Request(r) \/ Clock(r) PROVE Final(r)
    <3>1. \E t \in Step : Retry(r, t)
      BY <2>4 DEF Request, Clock, CreateRun, Approve, Reject, RequestCancel, LeaseExpires,
                  BackoffElapses, TERMINAL_RUN_STATUSES
    <3>2. PICK t \in Step : Retry(r, t)
      BY <3>1
    <3>3. run[r].status = "failed" /\ run'[r] = Restart(run[r], t)
      BY <2>0, <3>2 DEF Retry, Post
    <3>4. /\ Restart(run[r], t).status = "queued"
          /\ Restart(run[r], t).step =
                [i \in Step |-> IF i < t THEN run[r].step[i] ELSE "pending"]
          /\ Restart(run[r], t).result =
                [i \in Step |-> IF i < t THEN run[r].result[i] ELSE "none"]
      BY <2>0 DEF Restart, Release, RunRow
    <3>5. Fresh(r, t)
      BY <3>3, <3>4
    <3> QED BY <3>3, <3>5
  <2> QED BY <2>1, <2>2, <2>3, <2>4 DEF Next, vars, Exit, Start
<1> QED BY <1>1, Invariance, PTL DEF Spec, TerminalIsFinal

Alive(w) == pc[w] # "down" /\ ~Stale(w)

\* A worker that claims a run is the one the row names.
LEMMA ClaimerAlive ==
    ASSUME IInv, NEW w \in Worker, NEW r \in Run, ClaimNext(w, r)
    PROVE  Alive(w)'
<1> DEFINE y == [run[r] EXCEPT !.status = "running", !.owner = w, !.expired = FALSE,
                               !.available = FALSE]
<1>1. run \in [Run -> RunRow] /\ WorkersOK
  BY DEF IInv
<1>2. y.owner = w
  BY <1>1 DEF RunRow
<1>3. run'[r] = y /\ job'[w] = r /\ pc'[w] = "claimed"
  BY <1>1 DEF ClaimNext, Post, WorkersOK
<1> QED BY <1>2, <1>3 DEF Alive, Stale

\* Lost leases never take down every worker: whoever took a run over is up.
THEOREM OneWorkerLeft == Spec => []LastWorkerSurvives
<1>1. Init => LastWorkerSurvives
  BY WorkerAssumption DEF Init, LastWorkerSurvives, Stale
<1>2. IInv /\ LastWorkerSurvives /\ [Next]_vars => LastWorkerSurvives'
  <2> SUFFICES ASSUME IInv, LastWorkerSurvives, [Next]_vars, interventions' = 0
               PROVE  \E w \in Worker : Alive(w)'
    BY DEF LastWorkerSurvives, Alive, Stale
  <2>0. /\ run \in [Run -> RunRow] /\ WorkersOK /\ ClaimsOK /\ AllRows
        /\ interventions \in Nat
    BY BoundAssumption DEF IInv, WorkersOK
  <2>1. ~(\E w \in Worker : Exit(w) \/ Start(w))
    BY <2>0 DEF Exit, Start, Intervene
  <2>2. interventions = 0
    <3>1. CASE \E r \in Run : Request(r) \/ Clock(r)
      BY <3>1, RequestFrame
    <3>2. CASE \E w \in Worker : WorkerStep(w)
      BY <3>2, WorkerFrame
    <3>3. CASE UNCHANGED vars
      BY <3>3 DEF vars
    <3> QED BY <2>1, <3>1, <3>2, <3>3 DEF Next
  <2>3. PICK v \in Worker : Alive(v)
    BY <2>2 DEF LastWorkerSurvives, Alive
  <2>4. pc[v] \notin {"idle", "down"} =>
            job[v] \in Run /\ run[job[v]].owner = v /\ run[job[v]].status = "running"
    <3>1. ASSUME pc[v] \notin {"idle", "down"}
          PROVE  job[v] \in Run /\ run[job[v]].owner = v
      BY <2>0, <2>3, <3>1 DEF Alive, Stale, WorkersOK, WorkerState
    <3> QED BY <2>0, <3>1, NameAssumption DEF AllRows, RowOK, StatusOK
  <2>5. pc[v] \in {"idle", "claimed", "prepared", "executing", "failing"}
    BY <2>0, <2>3 DEF Alive, WorkersOK, WorkerState
  <2>6. ASSUME NEW r \in Run, Request(r) \/ Clock(r)
        PROVE  Alive(v)'
    BY <2>4, <2>5, <2>6, RequestFrame DEF Alive, Stale
  <2>7. ASSUME NEW w \in Worker, w # v, WorkerStep(w)
        PROVE  Alive(v)' \/ Alive(w)'
    <3>1. /\ pc'[v] = pc[v] /\ job'[v] = job[v]
          /\ \A q \in Run : \/ run'[q] = run[q]
                            \/ run[q].owner = w
                            \/ run'[q].owner = w /\ ClaimNext(w, q)
      BY <2>7, WorkerFrame
    <3>2. CASE pc[v] = "idle"
      BY <3>1, <3>2 DEF Alive, Stale
    <3>3. CASE pc[v] # "idle"
      <4>1. run'[job[v]] = run[job[v]] \/ ClaimNext(w, job[v])
        BY <2>4, <2>5, <2>7, <3>1, <3>3
      <4>2. CASE run'[job[v]] = run[job[v]]
        BY <2>4, <2>5, <3>1, <3>3, <4>2 DEF Alive, Stale
      <4>3. CASE ClaimNext(w, job[v])
        BY <2>4, <2>5, <3>3, <4>3, ClaimerAlive
      <4> QED BY <4>1, <4>2, <4>3
    <3> QED BY <3>2, <3>3
  <2>8. ASSUME WorkerStep(v)
        PROVE  Alive(v)'
    <3>1. CASE \E r \in Run : ClaimNext(v, r)
      BY <3>1, ClaimerAlive
    <3>2. CASE Leave(v, "idle")
      BY <2>0, <3>2 DEF Leave, Alive, Stale, WorkersOK
    <3>3. ~PrepareRejected(v)
      BY <2>4, <2>5 DEF PrepareRejected, Owns
    <3>4. ~FailRejected(v)
      BY <2>0, <2>4, <2>5 DEF FailRejected, Holds, ClaimsOK
    <3>5. CASE BeginExecution(v) \/ ExecutionFails(v)
      <4>1. run' = run /\ job' = job /\ pc[v] \in {"prepared", "executing"} /\ pc'[v] # "down"
        BY <2>0, <3>5 DEF BeginExecution, ExecutionFails, Goto, WorkersOK
      <4> QED BY <2>4, <4>1 DEF Alive, Stale
    <3>6. CASE \E i \in Step : PrepareStart(v, i)
      <4>1. PICK i \in Step : PrepareStart(v, i)
        BY <3>6
      <4>2. pc[v] = "claimed" /\ pc'[v] = "prepared" /\ job' = job
        BY <2>0, <4>1 DEF PrepareStart, WorkersOK
      <4> DEFINE y == [run[job[v]] EXCEPT !.step[i] = "running", !.attempt[i] = @ + 1]
      <4>3. y.owner = v
        BY <2>0, <2>4, <4>2 DEF RunRow
      <4>4. run'[job[v]] = y
        BY <2>0, <2>4, <4>1, <4>2 DEF PrepareStart, Post
      <4> QED BY <4>2, <4>3, <4>4 DEF Alive, Stale
    <3> QED
      BY <2>8, <3>1, <3>2, <3>3, <3>4, <3>5, <3>6
      DEF WorkerStep, PrepareCancelled, PrepareHopeless, PrepareApproval, CompleteStep, FailStep
  <2>9. CASE UNCHANGED vars
    BY <2>3, <2>9 DEF vars, Alive, Stale
  <2> QED BY <2>1, <2>6, <2>7, <2>8, <2>9 DEF Next
<1> QED BY <1>1, <1>2, Invariance, PTL DEF Spec

-----------------------------------------------------------------------------
(* What one step of the system does to the row of one run.                  *)

\* The author's requests and the clock.
AskedOf(x, y) ==
    \/ x.status = "absent" /\ \E topic, auto \in BOOLEAN : y = NewRun(topic, auto)
    \/ \E i \in Step :
          /\ x.status = "waiting_approval" /\ x.step[i] = "waiting_approval"
          /\ \/ y = QueueOrFinish([x EXCEPT !.step[i] = "succeeded", !.by[i] = "author"])
             \/ y = FailRun([x EXCEPT !.step[i] = "failed"])
    \/ x.status = "running" /\ y = [x EXCEPT !.cancel = TRUE]
    \/ x.status \in {"queued", "waiting_approval"} /\ y = CancelRun([x EXCEPT !.cancel = TRUE])
    \/ x.status = "failed" /\ \E t \in Step : y = Restart(x, t)
    \/ x.status = "running" /\ y = [x EXCEPT !.expired = TRUE]
    \/ x.status = "queued" /\ y = [x EXCEPT !.available = TRUE]

\* What prepare_claimed_step makes of a run that its worker still owns.
PreparedAs(x, y) ==
    \/ x.cancel /\ y = CancelRun(x)
    \/ /\ ~x.cancel
       /\ \E i \in Step :
             /\ IsNext(x, i)
             /\ \/ /\ x.step[i] = "failed" \/ x.attempt[i] >= MaxAttempts
                   /\ y = FailRun(x)
                \/ y = QueueOrFinish([x EXCEPT !.step[i] = "succeeded", !.by[i] = "automatic"])
                \/ y = Release([x EXCEPT !.step[i] = "waiting_approval"], "waiting_approval")
                \/ y = [x EXCEPT !.step[i] = "running", !.attempt[i] = @ + 1]

\* What complete_step and fail_step make of a run whose step the worker holds.
EndedAs(x, y, i) ==
    \/ \E res \in {"clean", "flagged"} :
          LET done == [x EXCEPT !.step[i] = "succeeded", !.result[i] = res]
          IN  y = IF x.cancel THEN CancelRun(done) ELSE QueueOrFinish(done)
    \/ x.attempt[i] < MaxAttempts /\ y = Backoff(x, i)
    \/ y = FailRun([x EXCEPT !.step[i] = "failed"])

Turn(x, y) ==
    \/ y = x
    \/ AskedOf(x, y)
    \/ Claimable(x) /\ \E w \in Worker :
          y = [x EXCEPT !.status = "running", !.owner = w, !.expired = FALSE, !.available = FALSE]
    \/ x.status = "running" /\ PreparedAs(x, y)
    \/ \E i \in Step : x.status = "running" /\ x.step[i] = "running" /\ EndedAs(x, y, i)

LEMMA RowsTurn ==
    ASSUME IInv, [Next]_vars, NEW r \in Run
    PROVE  Turn(run[r], run'[r])
<1>0. run \in [Run -> RunRow] /\ WorkersOK
  BY DEF IInv
<1>1. \A q \in Run : \A y : Post(q, y) => run'[q] = y /\ (q # r => run'[r] = run[r])
  BY <1>0 DEF Post
<1>2. CASE run' = run
  BY <1>2 DEF Turn
<1>3. ASSUME NEW q \in Run, Request(q) \/ Clock(q)
      PROVE  Turn(run[r], run'[r])
  <2>1. (\E y : Post(q, y)) /\ (q = r => AskedOf(run[r], run'[r]))
    <3>1. CASE CreateRun(q)
      BY <1>1, <3>1 DEF CreateRun, AskedOf
    <3>2. ASSUME NEW i \in Step, Approve(q, i) \/ Reject(q, i)
          PROVE  (\E y : Post(q, y)) /\ (q = r => AskedOf(run[r], run'[r]))
      <4>1. CASE Approve(q, i)
        <5>1. PICK x : x = run[q]
          OBVIOUS
        <5>2. PICK y : y = QueueOrFinish([x EXCEPT !.step[i] = "succeeded", !.by[i] = "author"])
          OBVIOUS
        <5>3. /\ x.status = "waiting_approval" /\ x.step[i] = "waiting_approval"
              /\ Post(q, y)
          BY <4>1, <5>1, <5>2 DEF Approve
        <5>4. AskedOf(x, y)
          BY <5>2, <5>3 DEF AskedOf
        <5> QED BY <1>1, <5>1, <5>3, <5>4
      <4>2. CASE Reject(q, i)
        <5>1. PICK x : x = run[q]
          OBVIOUS
        <5>2. PICK y : y = FailRun([x EXCEPT !.step[i] = "failed"])
          OBVIOUS
        <5>3. /\ x.status = "waiting_approval" /\ x.step[i] = "waiting_approval"
              /\ Post(q, y)
          BY <4>2, <5>1, <5>2 DEF Reject
        <5>4. AskedOf(x, y)
          BY <5>2, <5>3 DEF AskedOf
        <5> QED BY <1>1, <5>1, <5>3, <5>4
      <4> QED BY <3>2, <4>1, <4>2
    <3>3. CASE RequestCancel(q)
      <4> DEFINE flagged == [run[q] EXCEPT !.cancel = TRUE]
      <4>1. /\ run[q].status \in {"queued", "running", "waiting_approval"}
            /\ Post(q, IF run[q].status = "running" THEN flagged ELSE CancelRun(flagged))
        BY <1>0, <3>3 DEF RequestCancel, RunRow, RunStatus, TERMINAL_RUN_STATUSES
      <4>2. run'[q] = IF run[q].status = "running" THEN flagged ELSE CancelRun(flagged)
        <5> HIDE DEF flagged
        <5> QED BY <1>1, <4>1
      <4> QED BY <4>1, <4>2 DEF AskedOf
    <3>4. ASSUME NEW t \in Step, Retry(q, t)
          PROVE  (\E y : Post(q, y)) /\ (q = r => AskedOf(run[r], run'[r]))
      BY <1>1, <3>4 DEF Retry, AskedOf
    <3>5. CASE LeaseExpires(q) \/ BackoffElapses(q)
      BY <1>1, <3>5 DEF LeaseExpires, BackoffElapses, AskedOf
    <3> QED BY <1>3, <3>1, <3>2, <3>3, <3>4, <3>5 DEF Request, Clock
  <2>2. CASE q = r
    BY <2>1, <2>2 DEF Turn
  <2>3. CASE q # r
    <3>1. run'[r] = run[r]
      BY <1>1, <2>1, <2>3
    <3> QED BY <3>1 DEF Turn
  <2> QED BY <2>2, <2>3
<1>4. ASSUME NEW w \in Worker, WorkerStep(w)
      PROVE  Turn(run[r], run'[r])
  <2> DEFINE q == job[w]
             x == run[q]
  <2>1. ASSUME NEW p \in Run, ClaimNext(w, p)
        PROVE  Turn(run[r], run'[r])
    <3> DEFINE y == [run[p] EXCEPT !.status = "running", !.owner = w, !.expired = FALSE,
                                   !.available = FALSE]
    <3>1. Claimable(run[p]) /\ Post(p, y)
      BY <2>1 DEF ClaimNext
    <3>2. run'[p] = y /\ (p # r => run'[r] = run[r])
      <4> HIDE DEF y
      <4> QED BY <1>1, <3>1
    <3> QED BY <3>1, <3>2 DEF Turn
  <2>2. ASSUME pc[w] \notin {"idle", "down"}
        PROVE  q \in Run /\ (cur[w] # 0 => cur[w] \in Step)
    BY <1>0, <2>2, StepsAssumption DEF WorkersOK, Step
  <2>3. ASSUME NEW y, Post(q, y), q \in Run, q = r => Turn(x, y)
        PROVE  Turn(run[r], run'[r])
    <3>1. CASE q = r
      BY <1>1, <2>3, <3>1
    <3>2. CASE q # r
      <4>1. run'[r] = run[r]
        BY <1>1, <2>3, <3>2
      <4> QED BY <4>1 DEF Turn
    <3> QED BY <3>1, <3>2
  <2>4. CASE PrepareCancelled(w)
    <3>1. /\ q \in Run /\ Post(q, CancelRun(x)) /\ x.status = "running" /\ x.cancel
      BY <2>2, <2>4 DEF PrepareCancelled, Owns
    <3>2. Turn(x, CancelRun(x))
      BY <3>1 DEF Turn, PreparedAs
    <3> QED BY <2>3, <3>1, <3>2
  <2>5. ASSUME NEW i \in Step, PrepareHopeless(w, i)
        PROVE  Turn(run[r], run'[r])
    <3>1. /\ q \in Run /\ Post(q, FailRun(x)) /\ x.status = "running" /\ ~x.cancel
          /\ IsNext(x, i) /\ (x.step[i] = "failed" \/ x.attempt[i] >= MaxAttempts)
      BY <2>2, <2>5 DEF PrepareHopeless, Owns
    <3>2. Turn(x, FailRun(x))
      BY <3>1 DEF Turn, PreparedAs
    <3> QED BY <2>3, <3>1, <3>2
  <2>6. ASSUME NEW i \in Step, PrepareApproval(w, i)
        PROVE  Turn(run[r], run'[r])
    <3> DEFINE passed == QueueOrFinish([x EXCEPT !.step[i] = "succeeded", !.by[i] = "automatic"])
               asking == Release([x EXCEPT !.step[i] = "waiting_approval"], "waiting_approval")
    <3>1. q \in Run /\ x.status = "running" /\ ~x.cancel /\ IsNext(x, i)
          /\ (Post(q, passed) \/ Post(q, asking))
      BY <2>2, <2>6 DEF PrepareApproval, Owns
    <3>2. Turn(x, passed) /\ Turn(x, asking)
      BY <3>1 DEF Turn, PreparedAs
    <3> HIDE DEF passed, asking
    <3> QED BY <2>3, <3>1, <3>2
  <2>7. ASSUME NEW i \in Step, PrepareStart(w, i)
        PROVE  Turn(run[r], run'[r])
    <3> DEFINE y == [x EXCEPT !.step[i] = "running", !.attempt[i] = @ + 1]
    <3>1. q \in Run /\ Post(q, y) /\ x.status = "running" /\ ~x.cancel /\ IsNext(x, i)
      BY <2>2, <2>7 DEF PrepareStart, Owns
    <3>2. Turn(x, y)
      BY <3>1 DEF Turn, PreparedAs
    <3> HIDE DEF y
    <3> QED BY <2>3, <3>1, <3>2
  <2>8. ASSUME pc[w] \in {"executing", "failing"}, Holds(w)
        PROVE  /\ q \in Run /\ cur[w] \in Step
               /\ x.status = "running" /\ x.step[cur[w]] = "running"
    <3>1. q \in Run /\ cur[w] \in Step /\ x.owner = w /\ x.step[cur[w]] = "running"
      BY <1>0, <2>2, <2>8 DEF Holds, WorkersOK
    <3> QED BY <3>1, NameAssumption DEF IInv, AllRows, RowOK, StatusOK
  <2>9. ASSUME NEW res \in {"clean", "flagged"}, CompleteStep(w, res)
        PROVE  Turn(run[r], run'[r])
    <3> DEFINE done == [x EXCEPT !.step[cur[w]] = "succeeded", !.result[cur[w]] = res]
               y == IF x.cancel THEN CancelRun(done) ELSE QueueOrFinish(done)
    <3>1. pc[w] = "executing" /\ Holds(w) /\ Post(q, y)
      BY <2>9 DEF CompleteStep
    <3>2. Turn(x, y)
      BY <2>8, <3>1 DEF Turn, EndedAs
    <3> HIDE DEF y
    <3> QED BY <2>3, <2>8, <3>1, <3>2
  <2>10. CASE FailStep(w)
    <3> DEFINE y == IF x.attempt[cur[w]] < MaxAttempts
                    THEN Backoff(x, cur[w])
                    ELSE FailRun([x EXCEPT !.step[cur[w]] = "failed"])
    <3>1. pc[w] = "failing" /\ Holds(w) /\ Post(q, y)
      BY <2>10 DEF FailStep
    <3>2. Turn(x, y)
      BY <2>8, <3>1 DEF Turn, EndedAs
    <3> HIDE DEF y
    <3> QED BY <2>3, <2>8, <3>1, <3>2
  <2> QED
    BY <1>2, <1>4, <2>1, <2>4, <2>5, <2>6, <2>7, <2>9, <2>10
    DEF WorkerStep, PrepareRejected, BeginExecution, ExecutionFails, FailRejected
<1> QED BY <1>2, <1>3, <1>4 DEF Next, vars, Exit, Start

\* A flagged run neither waits nor succeeds, a step keeps an attempt as long as it is pending, and
\* a failed run is stopped by its next step.
FlagOK(x) == x.cancel => x.status \in {"running", "queued", "failed", "cancelled"}

Stopped(x) ==
    \E i \in Step :
        /\ IsNext(x, i)
        /\ \/ x.step[i] = "failed"
           \/ x.step[i] = "running" /\ x.attempt[i] = MaxAttempts

StopOK(x) ==
    /\ FlagOK(x)
    /\ \A i \in Step : x.step[i] = "pending" => x.attempt[i] < MaxAttempts
    /\ x.status = "failed" => Stopped(x)

\* A transition that gives up the claim changes the status of the row, and whether it is available.
LEMMA ReleasedFields ==
    ASSUME NEW x \in RunRow, NEW status \in RunStatus
    PROVE  LET y == Release(x, status)
           IN  /\ y.status = status /\ y.cancel = x.cancel /\ y.step = x.step
               /\ y.attempt = x.attempt /\ y.result = x.result
BY DEF Release, RunRow

LEMMA CancelledFields ==
    ASSUME NEW x \in RunRow
    PROVE  LET y == CancelRun(x)
           IN  /\ y.status = "cancelled" /\ y.cancel = x.cancel /\ y.attempt = x.attempt
               /\ \A i \in Step : y.step[i] = IF x.step[i] \in {"pending", "waiting_approval"}
                                              THEN "skipped" ELSE x.step[i]
BY DEF CancelRun, Release, RunRow

LEMMA QueuedFields ==
    ASSUME NEW x \in RunRow
    PROVE  LET y == QueueOrFinish(x)
           IN  /\ y.status \in {"queued", "succeeded"} /\ y.cancel = x.cancel
               /\ y.step = x.step /\ y.attempt = x.attempt
<1> DEFINE status == IF AllSettled(x) THEN "succeeded" ELSE "queued"
<1>1. status \in RunStatus /\ status \in {"queued", "succeeded"}
  BY DEF RunStatus
<1>2. QueueOrFinish(x) = Release(x, status)
  BY DEF QueueOrFinish
<1> HIDE DEF status
<1> QED BY <1>1, <1>2, ReleasedFields

LEMMA FailedFields ==
    ASSUME NEW x \in RunRow
    PROVE  LET y == FailRun(x)
           IN  y.status = "failed" /\ y.cancel = x.cancel /\ y.step = x.step /\ y.attempt = x.attempt
BY ReleasedFields DEF FailRun, RunStatus

\* A row whose only changes are the state of step i, and what came of it.
LEMMA MarkedFields ==
    ASSUME NEW x \in RunRow, NEW i \in Step, NEW st \in StepStatus
    PROVE  LET y == [x EXCEPT !.step[i] = st]
           IN  /\ y \in RunRow /\ y.status = x.status /\ y.cancel = x.cancel
               /\ y.step = [x.step EXCEPT ![i] = st] /\ y.attempt = x.attempt
BY DEF RunRow

LEMMA ApprovedFields ==
    ASSUME NEW x \in RunRow, NEW i \in Step, NEW by \in {"automatic", "author"}
    PROVE  LET y == [x EXCEPT !.step[i] = "succeeded", !.by[i] = by]
           IN  /\ y \in RunRow /\ y.cancel = x.cancel
               /\ y.step = [x.step EXCEPT ![i] = "succeeded"] /\ y.attempt = x.attempt
BY DEF RunRow, StepStatus

LEMMA CompletedFields ==
    ASSUME NEW x \in RunRow, NEW i \in Step, NEW res \in {"clean", "flagged"}
    PROVE  LET y == [x EXCEPT !.step[i] = "succeeded", !.result[i] = res]
           IN  /\ y \in RunRow /\ y.cancel = x.cancel
               /\ y.step = [x.step EXCEPT ![i] = "succeeded"] /\ y.attempt = x.attempt
BY DEF RunRow, StepStatus, Result

LEMMA BackoffFields ==
    ASSUME NEW x \in RunRow, NEW i \in Step
    PROVE  LET y == Backoff(x, i)
           IN  /\ y.status = "queued" /\ y.cancel = x.cancel
               /\ y.step = [x.step EXCEPT ![i] = "pending"] /\ y.attempt = x.attempt
<1> DEFINE z == [x EXCEPT !.step[i] = "pending"]
<1>1. z \in RunRow /\ z.cancel = x.cancel /\ z.step = [x.step EXCEPT ![i] = "pending"]
      /\ z.attempt = x.attempt
  BY MarkedFields DEF StepStatus
<1>2. Backoff(x, i) = [Release(z, "queued") EXCEPT !.available = FALSE]
  BY DEF Backoff
<1> HIDE DEF z
<1>3. Backoff(x, i) = [[z EXCEPT !.status = "queued", !.owner = NoWorker, !.expired = FALSE,
                                 !.available = TRUE] EXCEPT !.available = FALSE]
  BY <1>2 DEF Release
<1> QED BY <1>1, <1>3 DEF RunRow

\* A step that is marked failed stops its run.
LEMMA StoppedAt ==
    ASSUME NEW x \in RunRow, NEW i \in Step, IsNext(x, i), NEW y,
           y.step = [x.step EXCEPT ![i] = "failed"]
    PROVE  Stopped(y)
<1>1. x.step \in [Step -> StepStatus]
  BY DEF RunRow
<1>2. \A j \in 1 .. (i - 1) : j \in Step /\ j # i
  BY StepsAssumption DEF Step
<1>3. y.step[i] = "failed" /\ \A j \in 1 .. (i - 1) : y.step[j] = x.step[j]
  BY <1>1, <1>2
<1>4. IsNext(y, i)
  BY <1>3 DEF IsNext
<1> QED BY <1>3, <1>4 DEF Stopped

LEMMA AskedStops ==
    ASSUME NEW x, RowOK(x), StopOK(x), NEW y, AskedOf(x, y)
    PROVE  StopOK(y)
<1>0. /\ x \in RunRow /\ x.step \in [Step -> StepStatus]
      /\ FlagOK(x) /\ \A i \in Step : x.step[i] = "pending" => x.attempt[i] < MaxAttempts
  BY DEF RowOK, RunRow, StopOK
<1>1. ASSUME NEW topic \in BOOLEAN, NEW auto \in BOOLEAN, y = NewRun(topic, auto)
      PROVE  StopOK(y)
  <2>1. y.status = "queued" /\ y.cancel = FALSE /\ \A i \in Step : y.attempt[i] = 0
    BY <1>1 DEF NewRun
  <2> QED BY <2>1, BoundAssumption DEF StopOK, FlagOK
\* What the author decides is about a run without the flag.
<1>2. ASSUME NEW i \in Step, x.status = "waiting_approval", x.step[i] = "waiting_approval",
             y = QueueOrFinish([x EXCEPT !.step[i] = "succeeded", !.by[i] = "author"])
      PROVE  StopOK(y)
  <2> DEFINE z == [x EXCEPT !.step[i] = "succeeded", !.by[i] = "author"]
  <2>1. /\ z \in RunRow /\ z.cancel = x.cancel
        /\ z.step = [x.step EXCEPT ![i] = "succeeded"] /\ z.attempt = x.attempt
    BY <1>0, ApprovedFields
  <2> HIDE DEF z
  <2>2. /\ y.status \in {"queued", "succeeded"} /\ y.cancel = x.cancel
        /\ y.step = [x.step EXCEPT ![i] = "succeeded"] /\ y.attempt = x.attempt
    BY <1>2, <2>1, QueuedFields DEF z
  <2> QED BY <1>0, <1>2, <2>2 DEF StopOK, FlagOK
<1>3. ASSUME NEW i \in Step, x.status = "waiting_approval", x.step[i] = "waiting_approval",
             y = FailRun([x EXCEPT !.step[i] = "failed"])
      PROVE  StopOK(y)
  <2> DEFINE z == [x EXCEPT !.step[i] = "failed"]
  <2>1. /\ z \in RunRow /\ z.cancel = x.cancel
        /\ z.step = [x.step EXCEPT ![i] = "failed"] /\ z.attempt = x.attempt
    BY <1>0, MarkedFields DEF StepStatus
  <2> HIDE DEF z
  <2>2. /\ y.status = "failed" /\ y.cancel = x.cancel
        /\ y.step = [x.step EXCEPT ![i] = "failed"] /\ y.attempt = x.attempt
    BY <1>3, <2>1, FailedFields DEF z
  <2>3. Stopped(y)
    BY <1>0, <1>3, <2>2, OpenStepIsNext, StoppedAt DEF RowOK
  <2> QED BY <1>0, <1>3, <2>2, <2>3 DEF StopOK, FlagOK
<1>4. ASSUME x.status = "running", y = [x EXCEPT !.cancel = TRUE] \/ y = [x EXCEPT !.expired = TRUE]
      PROVE  StopOK(y)
  <2>1. y.status = "running" /\ y.step = x.step /\ y.attempt = x.attempt
    BY <1>0, <1>4 DEF RunRow
  <2> QED BY <1>0, <2>1 DEF StopOK, FlagOK
<1>5. ASSUME x.status = "queued", y = [x EXCEPT !.available = TRUE]
      PROVE  StopOK(y)
  <2>1. y.status = "queued" /\ y.step = x.step /\ y.attempt = x.attempt
    BY <1>0, <1>5 DEF RunRow
  <2> QED BY <1>0, <2>1 DEF StopOK, FlagOK
<1>6. ASSUME y = CancelRun([x EXCEPT !.cancel = TRUE])
      PROVE  StopOK(y)
  <2> DEFINE z == [x EXCEPT !.cancel = TRUE]
  <2>1. z \in RunRow /\ z.attempt = x.attempt /\ z.step = x.step
    BY <1>0 DEF RunRow
  <2> HIDE DEF z
  <2>2. /\ y.status = "cancelled" /\ y.attempt = x.attempt
        /\ \A i \in Step : y.step[i] = IF x.step[i] \in {"pending", "waiting_approval"}
                                       THEN "skipped" ELSE x.step[i]
    BY <1>6, <2>1, CancelledFields DEF z
  <2> QED BY <1>0, <2>2 DEF StopOK, FlagOK
<1>7. ASSUME NEW t \in Step, y = Restart(x, t)
      PROVE  StopOK(y)
  <2>1. /\ y.status = "queued" /\ y.cancel = FALSE
        /\ y.step = [i \in Step |-> IF i < t THEN x.step[i] ELSE "pending"]
        /\ y.attempt = [i \in Step |-> IF i < t THEN x.attempt[i] ELSE 0]
    BY <1>0, <1>7 DEF Restart, Release, RunRow
  <2> QED BY <1>0, <2>1, BoundAssumption DEF StopOK, FlagOK
<1> QED BY <1>1, <1>2, <1>3, <1>4, <1>5, <1>6, <1>7 DEF AskedOf

LEMMA PreparedStops ==
    ASSUME NEW x, RowOK(x), StopOK(x), x.status = "running", NEW y, PreparedAs(x, y)
    PROVE  StopOK(y)
<1>0. /\ x \in RunRow /\ x.step \in [Step -> StepStatus] /\ x.attempt \in [Step -> 0 .. MaxAttempts]
      /\ \A i \in Step : x.step[i] = "pending" => x.attempt[i] < MaxAttempts
      /\ \A i \in Step : x.step[i] # "waiting_approval"
  BY DEF RowOK, RunRow, StopOK, StatusOK
<1>1. CASE x.cancel /\ y = CancelRun(x)
  <2>1. /\ y.status = "cancelled" /\ y.attempt = x.attempt
        /\ \A i \in Step : y.step[i] = IF x.step[i] \in {"pending", "waiting_approval"}
                                       THEN "skipped" ELSE x.step[i]
    BY <1>0, <1>1, CancelledFields
  <2> QED BY <1>0, <2>1 DEF StopOK, FlagOK
<1>2. ASSUME ~x.cancel, NEW i \in Step, IsNext(x, i),
             x.step[i] = "failed" \/ x.attempt[i] >= MaxAttempts, y = FailRun(x)
      PROVE  StopOK(y)
  <2>1. y.status = "failed" /\ y.cancel = x.cancel /\ y.step = x.step /\ y.attempt = x.attempt
    BY <1>0, <1>2, FailedFields
  <2>2. x.step[i] = "failed" \/ (x.step[i] = "running" /\ x.attempt[i] = MaxAttempts)
    <3>1. x.step[i] \in {"pending", "running", "failed"} /\ x.attempt[i] \in 0 .. MaxAttempts
      BY <1>0, <1>2 DEF IsNext, StepStatus
    <3>2. PICK n \in 0 .. MaxAttempts : n = x.attempt[i]
      BY <3>1
    <3>3. n >= MaxAttempts => n = MaxAttempts /\ ~(n < MaxAttempts)
      BY BoundAssumption
    <3> QED BY <1>0, <1>2, <3>1, <3>2, <3>3
  <2>3. Stopped(y)
    BY <1>2, <2>1, <2>2 DEF Stopped, IsNext
  <2> QED BY <1>0, <2>1, <2>3 DEF StopOK, FlagOK
<1>3. ASSUME ~x.cancel, NEW i \in Step,
             y = QueueOrFinish([x EXCEPT !.step[i] = "succeeded", !.by[i] = "automatic"])
      PROVE  StopOK(y)
  <2> DEFINE z == [x EXCEPT !.step[i] = "succeeded", !.by[i] = "automatic"]
  <2>1. /\ z \in RunRow /\ z.cancel = x.cancel
        /\ z.step = [x.step EXCEPT ![i] = "succeeded"] /\ z.attempt = x.attempt
    BY <1>0, ApprovedFields
  <2> HIDE DEF z
  <2>2. /\ y.status \in {"queued", "succeeded"} /\ y.cancel = x.cancel
        /\ y.step = [x.step EXCEPT ![i] = "succeeded"] /\ y.attempt = x.attempt
    BY <1>3, <2>1, QueuedFields DEF z
  <2> QED BY <1>0, <1>3, <2>2 DEF StopOK, FlagOK
<1>4. ASSUME ~x.cancel, NEW i \in Step,
             y = Release([x EXCEPT !.step[i] = "waiting_approval"], "waiting_approval")
      PROVE  StopOK(y)
  <2> DEFINE z == [x EXCEPT !.step[i] = "waiting_approval"]
  <2>1. /\ z \in RunRow /\ z.cancel = x.cancel
        /\ z.step = [x.step EXCEPT ![i] = "waiting_approval"] /\ z.attempt = x.attempt
    BY <1>0, MarkedFields DEF StepStatus
  <2> HIDE DEF z
  <2>2. /\ y.status = "waiting_approval" /\ y.cancel = x.cancel
        /\ y.step = [x.step EXCEPT ![i] = "waiting_approval"] /\ y.attempt = x.attempt
    BY <1>4, <2>1, ReleasedFields DEF z, RunStatus
  <2> QED BY <1>0, <1>4, <2>2 DEF StopOK, FlagOK
<1>5. ASSUME ~x.cancel, NEW i \in Step,
             y = [x EXCEPT !.step[i] = "running", !.attempt[i] = @ + 1]
      PROVE  StopOK(y)
  <2>1. /\ y.status = "running" /\ y.step = [x.step EXCEPT ![i] = "running"]
        /\ y.attempt = [x.attempt EXCEPT ![i] = @ + 1]
    BY <1>0, <1>5 DEF RunRow
  <2>2. \A j \in Step : y.step[j] = "pending" => x.step[j] = "pending" /\ y.attempt[j] = x.attempt[j]
    BY <1>0, <2>1
  <2> QED BY <1>0, <2>1, <2>2 DEF StopOK, FlagOK
<1> QED BY <1>1, <1>2, <1>3, <1>4, <1>5 DEF PreparedAs

LEMMA EndedStops ==
    ASSUME NEW x, RowOK(x), StopOK(x), x.status = "running", NEW i \in Step, x.step[i] = "running",
           NEW y, EndedAs(x, y, i)
    PROVE  /\ StopOK(y)
           /\ x.cancel => /\ y.cancel /\ y.attempt = x.attempt
                          /\ y.status \in {"cancelled", "queued", "failed"}
                          /\ \A j \in Step : /\ y.step[j] # "waiting_approval"
                                             /\ y.step[j] = "running" => x.step[j] = "running"
<1>0. /\ x \in RunRow /\ x.step \in [Step -> StepStatus] /\ FlagOK(x)
      /\ \A j \in Step : x.step[j] = "pending" => x.attempt[j] < MaxAttempts
      /\ \A j \in Step : x.step[j] # "waiting_approval"
  BY DEF RowOK, RunRow, StopOK, StatusOK
<1>1. ASSUME NEW res \in {"clean", "flagged"},
             y = LET done == [x EXCEPT !.step[i] = "succeeded", !.result[i] = res]
                 IN  IF x.cancel THEN CancelRun(done) ELSE QueueOrFinish(done)
      PROVE  /\ y.cancel = x.cancel /\ y.attempt = x.attempt
             /\ IF x.cancel THEN y.status = "cancelled" ELSE y.status \in {"queued", "succeeded"}
             /\ \A j \in Step : y.step[j] = "running" => x.step[j] = "running"
             /\ \A j \in Step : y.step[j] # "waiting_approval"
             /\ \A j \in Step : y.step[j] = "pending" => x.step[j] = "pending"
  <2> DEFINE z == [x EXCEPT !.step[i] = "succeeded", !.result[i] = res]
  <2>1. /\ z \in RunRow /\ z.cancel = x.cancel
        /\ z.step = [x.step EXCEPT ![i] = "succeeded"] /\ z.attempt = x.attempt
    <3>1. x \in RunRow
      BY <1>0
    <3> QED
      BY <3>1, CompletedFields
  <2>2. y = IF x.cancel THEN CancelRun(z) ELSE QueueOrFinish(z)
    BY <1>1
  <2> HIDE DEF z
  <2>3. \A j \in Step : /\ z.step[j] = "running" => x.step[j] = "running"
                        /\ z.step[j] # "waiting_approval"
                        /\ z.step[j] = "pending" => x.step[j] = "pending"
    BY <1>0, <2>1
  <2>4. CASE x.cancel
    <3>1. /\ y.status = "cancelled" /\ y.cancel = z.cancel /\ y.attempt = z.attempt
          /\ \A j \in Step : y.step[j] = IF z.step[j] \in {"pending", "waiting_approval"}
                                         THEN "skipped" ELSE z.step[j]
      BY <2>1, <2>2, <2>4, CancelledFields
    <3>2. \A j \in Step : /\ y.step[j] = "running" => z.step[j] = "running"
                          /\ y.step[j] \notin {"waiting_approval", "pending"}
      BY <3>1
    <3> QED BY <2>1, <2>3, <2>4, <3>1, <3>2
  <2>5. CASE ~x.cancel
    <3>1. /\ y.status \in {"queued", "succeeded"} /\ y.cancel = z.cancel
          /\ y.step = z.step /\ y.attempt = z.attempt
      BY <2>1, <2>2, <2>5, QueuedFields
    <3> QED BY <2>1, <2>3, <2>5, <3>1
  <2> QED BY <2>4, <2>5
<1>2. ASSUME x.attempt[i] < MaxAttempts, y = Backoff(x, i)
      PROVE  /\ y.status = "queued" /\ y.cancel = x.cancel
             /\ y.step = [x.step EXCEPT ![i] = "pending"] /\ y.attempt = x.attempt
  BY <1>0, <1>2, BackoffFields
<1>3. ASSUME y = FailRun([x EXCEPT !.step[i] = "failed"])
      PROVE  /\ y.status = "failed" /\ y.cancel = x.cancel
             /\ y.step = [x.step EXCEPT ![i] = "failed"] /\ y.attempt = x.attempt
  <2> DEFINE z == [x EXCEPT !.step[i] = "failed"]
  <2>1. /\ z \in RunRow /\ z.cancel = x.cancel
        /\ z.step = [x.step EXCEPT ![i] = "failed"] /\ z.attempt = x.attempt
    BY <1>0, MarkedFields DEF StepStatus
  <2> HIDE DEF z
  <2> QED BY <1>3, <2>1, FailedFields DEF z
<1>4. ASSUME y = FailRun([x EXCEPT !.step[i] = "failed"])
      PROVE  Stopped(y)
  BY <1>0, <1>3, <1>4, OpenStepIsNext, StoppedAt DEF RowOK
<1>5. CASE \E res \in {"clean", "flagged"} :
               y = LET done == [x EXCEPT !.step[i] = "succeeded", !.result[i] = res]
                   IN  IF x.cancel THEN CancelRun(done) ELSE QueueOrFinish(done)
  BY <1>0, <1>1, <1>5 DEF StopOK, FlagOK
<1>6. CASE x.attempt[i] < MaxAttempts /\ y = Backoff(x, i)
  BY <1>0, <1>2, <1>6 DEF StopOK, FlagOK
<1>7. CASE y = FailRun([x EXCEPT !.step[i] = "failed"])
  BY <1>0, <1>3, <1>4, <1>7 DEF StopOK, FlagOK
<1> QED BY <1>5, <1>6, <1>7 DEF EndedAs

\* A flagged run gives nothing to a worker that has not begun.
LEMMA FlaggedTurn ==
    ASSUME NEW x, RowOK(x), StopOK(x), x.cancel, x.status # "failed", NEW y, Turn(x, y)
    PROVE  /\ y.cancel /\ y.attempt = x.attempt
           /\ y.status \in {"running", "queued", "failed", "cancelled"}
           /\ \A i \in Step : y.step[i] \in {"running", "waiting_approval"} => y.step[i] = x.step[i]
<1>0. /\ x \in RunRow /\ x.step \in [Step -> StepStatus]
      /\ x.status \in {"running", "queued", "cancelled"}
  BY DEF RowOK, RunRow, StopOK, FlagOK
<1>1. CASE y = x
  BY <1>0, <1>1
<1>2. ASSUME NEW z \in RunRow, z.cancel, z.step = x.step, z.attempt = x.attempt, y = CancelRun(z)
      PROVE  /\ y.cancel /\ y.attempt = x.attempt /\ y.status = "cancelled"
             /\ \A i \in Step : y.step[i] \in {"running", "waiting_approval"} => y.step[i] = x.step[i]
  BY <1>2, CancelledFields
<1>3. CASE AskedOf(x, y)
  <2>1. CASE x.status = "running" /\ y = [x EXCEPT !.cancel = TRUE]
    BY <1>0, <2>1 DEF RunRow
  <2>2. CASE x.status = "running" /\ y = [x EXCEPT !.expired = TRUE]
    BY <1>0, <2>2 DEF RunRow
  <2>3. CASE x.status = "queued" /\ y = [x EXCEPT !.available = TRUE]
    BY <1>0, <2>3 DEF RunRow
  <2>4. CASE y = CancelRun([x EXCEPT !.cancel = TRUE])
    <3> DEFINE z == [x EXCEPT !.cancel = TRUE]
    <3>1. z \in RunRow /\ z.cancel /\ z.step = x.step /\ z.attempt = x.attempt
      BY <1>0 DEF RunRow
    <3> QED BY <1>2, <2>4, <3>1
  <2> QED BY <1>0, <1>3, <2>1, <2>2, <2>3, <2>4 DEF AskedOf
<1>4. CASE x.status = "running" /\ PreparedAs(x, y)
  BY <1>0, <1>2, <1>4 DEF PreparedAs
<1>5. CASE \E i \in Step : x.status = "running" /\ x.step[i] = "running" /\ EndedAs(x, y, i)
  <2>1. PICK i \in Step : x.status = "running" /\ x.step[i] = "running" /\ EndedAs(x, y, i)
    BY <1>5
  <2> QED BY <2>1, EndedStops
<1> QED BY <1>1, <1>3, <1>4, <1>5 DEF Turn, Claimable

LEMMA TurnStops ==
    ASSUME NEW x, RowOK(x), StopOK(x), NEW y, Turn(x, y)
    PROVE  StopOK(y)
<1>1. ASSUME NEW w \in Worker,
             y = [x EXCEPT !.status = "running", !.owner = w, !.expired = FALSE, !.available = FALSE]
      PROVE  StopOK(y)
  <2>1. y.status = "running" /\ y.step = x.step /\ y.attempt = x.attempt
    BY <1>1 DEF RowOK, RunRow
  <2> QED BY <2>1 DEF StopOK, FlagOK
<1> QED BY <1>1, AskedStops, PreparedStops, EndedStops DEF Turn

Stops == \A r \in Run : StopOK(run[r])

LEMMA StopsKept == Spec => []Stops
<1>1. Init => Stops
  <2> SUFFICES ASSUME Init, NEW r \in Run PROVE StopOK(run[r])
    BY DEF Stops
  <2>1. run[r] = Absent
    BY DEF Init
  <2>2. Absent.status = "absent" /\ Absent.cancel = FALSE /\ \A i \in Step : Absent.attempt[i] = 0
    BY DEF Absent, NewRun
  <2> QED BY <2>1, <2>2, BoundAssumption DEF StopOK, FlagOK
<1>2. IInv /\ Stops /\ [Next]_vars => Stops'
  <2> SUFFICES ASSUME IInv, Stops, [Next]_vars, NEW r \in Run PROVE StopOK(run'[r])
    BY DEF Stops
  <2> QED BY RowsTurn, TurnStops DEF IInv, AllRows, Stops
<1> QED BY <1>1, <1>2, Invariance, PTL DEF Spec

\* What stops a failed run is the first of its steps that is not settled: that step failed, or was
\* left running in the last of its attempts.
THEOREM FailureIsNext == Spec => []FailedAtNextStep
<1>1. Stops => FailedAtNextStep
  BY DEF Stops, StopOK, Stopped, FailedAtNextStep
<1> QED BY <1>1, StopsKept, PTL

\* A request to cancel stands, and no further step is started, until the author retries the run.
THEOREM CancelStands == Spec => CancelStopsWork
<1>1. IInv /\ Stops /\ [Next]_vars
      => \A r \in Run : run[r].cancel /\ run[r].status # "failed" =>
            /\ run'[r].cancel
            /\ run'[r].status \in {"running", "queued", "failed", "cancelled"}
            /\ run'[r].attempt = run[r].attempt
            /\ \A i \in Step : run'[r].step[i] \in {"running", "waiting_approval"} =>
                  run'[r].step[i] = run[r].step[i]
  BY RowsTurn, FlaggedTurn DEF IInv, AllRows, Stops
<1> QED BY <1>1, Invariance, StopsKept, PTL DEF Spec, CancelStopsWork

-----------------------------------------------------------------------------
(* Workflow implements RunLifecycle: each transaction of a worker and each  *)
(* request of the author is a step of the life cycle or leaves it as it is. *)

\* Writing one row changes what the author sees of one run.
LEMMA PostedView ==
    ASSUME run \in [Run -> RunRow], NEW r \in Run, NEW y, Post(r, y)
    PROVE  /\ Phase' = [Phase EXCEPT ![r] = PhaseOf(y)]
           /\ Passed' = [Passed EXCEPT ![r] = PassedOf(y)]
           /\ Waived' = [Waived EXCEPT ![r] = WaivedOf(y)]
<1>1. \A q \in Run : run'[q] = IF q = r THEN y ELSE run[q]
  BY DEF Post
<1> QED BY <1>1 DEF Phase, Passed, Waived

\* A row that looks the same to the author.
LEMMA SameView ==
    ASSUME run \in [Run -> RunRow], NEW r \in Run, NEW y, Post(r, y),
           PhaseOf(y) = PhaseOf(run[r]), PassedOf(y) = PassedOf(run[r]),
           WaivedOf(y) = WaivedOf(run[r])
    PROVE  UNCHANGED <<Phase, Passed, Waived>>
<1>1. /\ Phase' = [Phase EXCEPT ![r] = PhaseOf(y)]
      /\ Passed' = [Passed EXCEPT ![r] = PassedOf(y)]
      /\ Waived' = [Waived EXCEPT ![r] = WaivedOf(y)]
  BY PostedView
<1>2. /\ [Phase EXCEPT ![r] = PhaseOf(run[r])] = Phase
      /\ [Passed EXCEPT ![r] = PassedOf(run[r])] = Passed
      /\ [Waived EXCEPT ![r] = WaivedOf(run[r])] = Waived
  BY DEF Phase, Passed, Waived
<1> QED BY <1>1, <1>2

\* The next step of the code is the next step of the life cycle.
LEMMA NextAgrees ==
    ASSUME NEW r \in Run, run[r].status # "cancelled", NEW i \in Step, IsNext(run[r], i)
    PROVE  Lifecycle!NextIs(r, i) /\ Step = Lifecycle!Positions
<1>1. Step = Lifecycle!Positions
  BY DEF Step, Lifecycle!Positions
<1>2. \A j \in Step : j \in Lifecycle!Done(r) <=> Settled(run[r], j)
  BY DEF Lifecycle!Done, Passed, Waived, PassedOf, WaivedOf
<1>3. \A j \in 1 .. (i - 1) : j \in Step
  BY StepsAssumption DEF Step
<1> QED BY <1>1, <1>2, <1>3 DEF Lifecycle!NextIs, IsNext

\* What the author sees of a row whose claim is given up.
LEMMA ReleasedView ==
    ASSUME NEW x \in RunRow, NEW status \in RunStatus
    PROVE  /\ PassedOf(Release(x, status)) = PassedOf(x)
           /\ Release(x, status).status = status
           /\ WaivedOf(Release(x, status)) =
                 {i \in Step : x.step[i] = "skipped" /\ status # "cancelled"}
<1> DEFINE y == Release(x, status)
<1>1. y.step = x.step /\ y.status = status
  BY DEF Release, RunRow
<1> QED BY <1>1 DEF PassedOf, WaivedOf

\* Passing the next step: an executed one, an automatic approval or the author's.
LEMMA PassedStep ==
    ASSUME run \in [Run -> RunRow], NEW r \in Run, run[r].status # "cancelled",
           NEW i \in Step, IsNext(run[r], i),
           NEW y \in RunRow, y.step = [run[r].step EXCEPT ![i] = "succeeded"],
           Post(r, QueueOrFinish(y))
    PROVE  Lifecycle!Pass(r, i)
<1> DEFINE x == run[r]
<1>1. x.step \in [Step -> StepStatus]
  BY DEF RunRow
<1>2. \A j \in Step : y.step[j] = IF j = i THEN "succeeded" ELSE x.step[j]
  BY <1>1
<1>3. /\ PassedOf(QueueOrFinish(y)) = PassedOf(y)
      /\ WaivedOf(QueueOrFinish(y)) = {j \in Step : y.step[j] = "skipped"}
      /\ PhaseOf(QueueOrFinish(y)) = IF AllSettled(y) THEN "succeeded" ELSE "working"
  BY ReleasedView DEF QueueOrFinish, RunStatus, PhaseOf
<1>4. PassedOf(y) = Passed[r] \cup {i}
  BY <1>2 DEF PassedOf, Passed
<1>5. {j \in Step : y.step[j] = "skipped"} = Waived[r]
  BY <1>2 DEF WaivedOf, Waived, IsNext
<1>6. AllSettled(y) <=> Lifecycle!Done(r) \cup {i} = Lifecycle!Positions
  <2>1. Lifecycle!Positions = Step
    BY DEF Step, Lifecycle!Positions
  <2>2. Lifecycle!Done(r) = {j \in Step : Settled(x, j)}
    BY DEF Lifecycle!Done, Passed, Waived, PassedOf, WaivedOf
  <2> QED BY <1>2, <2>1, <2>2 DEF AllSettled
<1>7. /\ Phase' = [Phase EXCEPT ![r] = PhaseOf(QueueOrFinish(y))]
      /\ Passed' = [Passed EXCEPT ![r] = PassedOf(QueueOrFinish(y))]
      /\ Waived' = [Waived EXCEPT ![r] = WaivedOf(QueueOrFinish(y))]
  BY PostedView
<1>8. [Waived EXCEPT ![r] = Waived[r]] = Waived
  BY DEF Waived
<1>9. Lifecycle!NextIs(r, i)
  BY NextAgrees
<1> HIDE DEF x
<1> QED
  BY <1>3, <1>4, <1>5, <1>6, <1>7, <1>8, <1>9 DEF Lifecycle!Pass, Lifecycle!Enter

\* Failing a run, with what has passed kept.
LEMMA FailedStep ==
    ASSUME run \in [Run -> RunRow], NEW r \in Run,
           run[r].status \in {"queued", "running", "waiting_approval"},
           NEW y \in RunRow, PassedOf(y) = PassedOf(run[r]),
           \A i \in Step : y.step[i] = "skipped" <=> run[r].step[i] = "skipped",
           Post(r, FailRun(y))
    PROVE  Lifecycle!Fail(r)
<1>1. /\ PassedOf(FailRun(y)) = Passed[r] /\ PhaseOf(FailRun(y)) = "failed"
      /\ WaivedOf(FailRun(y)) = {i \in Step : y.step[i] = "skipped"}
  BY ReleasedView DEF FailRun, RunStatus, PhaseOf, Passed
<1>2. {i \in Step : y.step[i] = "skipped"} = Waived[r]
  BY DEF Waived, WaivedOf
<1>3. [Waived EXCEPT ![r] = Waived[r]] = Waived /\ [Passed EXCEPT ![r] = Passed[r]] = Passed
  BY DEF Waived, Passed
<1>4. Phase[r] \in {"working", "asking"}
  BY DEF Phase, PhaseOf
<1>5. /\ Phase' = [Phase EXCEPT ![r] = PhaseOf(FailRun(y))]
      /\ Passed' = [Passed EXCEPT ![r] = PassedOf(FailRun(y))]
      /\ Waived' = [Waived EXCEPT ![r] = WaivedOf(FailRun(y))]
  BY PostedView
<1> QED
  BY <1>1, <1>2, <1>3, <1>4, <1>5 DEF Lifecycle!Fail, Lifecycle!Enter

\* What the author sees of a cancelled row: the steps that have succeeded.
LEMMA CancelledView ==
    ASSUME NEW x \in RunRow
    PROVE  /\ PassedOf(CancelRun(x)) = PassedOf(x)
           /\ WaivedOf(CancelRun(x)) = {}
           /\ PhaseOf(CancelRun(x)) = "cancelled"
<1> DEFINE s == [i \in Step |-> IF x.step[i] \in {"pending", "waiting_approval"}
                                THEN "skipped" ELSE x.step[i]]
           y == [x EXCEPT !.step = s]
<1>1. s \in [Step -> StepStatus]
  BY DEF RunRow, StepStatus
<1>2. y \in RunRow /\ y.step = s
  BY <1>1 DEF RunRow
<1>3. PassedOf(y) = PassedOf(x)
  BY <1>2 DEF PassedOf
<1>4. /\ PassedOf(Release(y, "cancelled")) = PassedOf(y)
      /\ WaivedOf(Release(y, "cancelled")) = {}
      /\ Release(y, "cancelled").status = "cancelled"
  <2> HIDE DEF y
  <2> QED BY <1>2, ReleasedView DEF RunStatus
<1> QED BY <1>3, <1>4 DEF CancelRun, PhaseOf

\* The author's requests are steps of the life cycle; the clock is invisible.
LEMMA RequestRefines ==
    ASSUME IInv, NEW r \in Run, Request(r) \/ Clock(r)
    PROVE  Lifecycle!Next \/ UNCHANGED <<Phase, Passed, Waived>>
<1> DEFINE x == run[r]
<1>0. run \in [Run -> RunRow] /\ x \in RunRow /\ StepsOK(x) /\ StatusOK(x)
  BY DEF IInv, AllRows, RowOK
<1>1. CASE CreateRun(r)
  <2>1. PICK topic \in BOOLEAN, auto \in BOOLEAN : Post(r, NewRun(topic, auto))
    BY <1>1 DEF CreateRun
  <2> DEFINE y == NewRun(topic, auto)
  <2>2. /\ y.status = "queued"
        /\ y.step = [i \in Step |-> IF i \in Optional /\ ~topic THEN "skipped" ELSE "pending"]
    BY DEF NewRun
  <2>3. PhaseOf(y) = "working" /\ PassedOf(y) = {} /\ WaivedOf(y) \in {{}, Optional}
    BY <2>2, TemplateAssumption DEF PhaseOf, PassedOf, WaivedOf
  <2>4. Phase[r] = "absent" /\ Passed[r] = {}
    BY <1>0, <1>1 DEF CreateRun, Phase, PhaseOf, Passed, PassedOf, StatusOK
  <2>5. [Passed EXCEPT ![r] = {}] = Passed
    BY <2>4 DEF Passed
  <2>6. Lifecycle!Create(r)
    <3>1. /\ Phase' = [Phase EXCEPT ![r] = PhaseOf(y)]
          /\ Passed' = [Passed EXCEPT ![r] = PassedOf(y)]
          /\ Waived' = [Waived EXCEPT ![r] = WaivedOf(y)]
      <4>1. Post(r, y)
        BY <2>1
      <4> HIDE DEF y
      <4> QED BY <1>0, <4>1, PostedView
    <3> HIDE DEF y
    <3> QED BY <2>3, <2>4, <2>5, <3>1 DEF Lifecycle!Create, Lifecycle!Enter
  <2> QED BY <2>6 DEF Lifecycle!Next
<1>2. ASSUME NEW i \in Step, Approve(r, i)
      PROVE  Lifecycle!Next
  <2> DEFINE y == [x EXCEPT !.step[i] = "succeeded", !.by[i] = "author"]
  <2>1. y \in RunRow /\ y.step = [x.step EXCEPT ![i] = "succeeded"]
    BY <1>0 DEF RunRow, StepStatus
  <2>2. /\ x.status = "waiting_approval" /\ x.step[i] = "waiting_approval"
        /\ Post(r, QueueOrFinish(y))
    BY <1>2 DEF Approve
  <2>3. i \in Approval /\ IsNext(x, i)
    BY <1>0, <2>2, OpenStepIsNext DEF StatusOK
  <2>4. Phase[r] = "asking"
    BY <2>2 DEF Phase, PhaseOf
  <2>5. Lifecycle!Pass(r, i)
    <3> HIDE DEF y
    <3> QED BY <1>0, <2>1, <2>2, <2>3, PassedStep
  <2> QED BY <2>3, <2>4, <2>5 DEF Lifecycle!Next, Lifecycle!Agree, Lifecycle!Positions, Step
<1>3. ASSUME NEW i \in Step, Reject(r, i)
      PROVE  Lifecycle!Next
  <2> DEFINE y == [x EXCEPT !.step[i] = "failed"]
  <2>1. y \in RunRow /\ y.step = [x.step EXCEPT ![i] = "failed"]
    BY <1>0 DEF RunRow, StepStatus
  <2>2. /\ x.status = "waiting_approval" /\ x.step[i] = "waiting_approval"
        /\ Post(r, FailRun(y))
    BY <1>3 DEF Reject
  <2>3. x.step \in [Step -> StepStatus]
    BY <1>0 DEF RunRow
  <2>4. PassedOf(y) = PassedOf(x) /\ \A j \in Step : y.step[j] = "skipped" <=> x.step[j] = "skipped"
    BY <2>1, <2>2, <2>3 DEF PassedOf
  <2>5. Lifecycle!Fail(r)
    <3> HIDE DEF y
    <3> QED BY <1>0, <2>1, <2>2, <2>4, FailedStep
  <2> QED BY <2>5 DEF Lifecycle!Next
<1>4. CASE RequestCancel(r)
  <2> DEFINE y == [x EXCEPT !.cancel = TRUE]
  <2>1. y \in RunRow /\ y.step = x.step /\ y.status = x.status
    BY <1>0 DEF RunRow
  <2>2. PassedOf(y) = PassedOf(x) /\ WaivedOf(y) = WaivedOf(x) /\ PhaseOf(y) = PhaseOf(x)
    BY <2>1 DEF PassedOf, WaivedOf, PhaseOf
  <2>3. CASE x.status = "running"
    <3>1. Post(r, y)
      BY <1>4, <2>3 DEF RequestCancel
    <3> HIDE DEF y
    <3> QED BY <1>0, <2>2, <3>1, SameView
  <2>4. CASE x.status # "running"
    <3>1. Post(r, CancelRun(y)) /\ x.status \in {"queued", "waiting_approval"}
      BY <1>0, <1>4, <2>4 DEF RequestCancel, TERMINAL_RUN_STATUSES, RunRow, RunStatus
    <3>2. Phase[r] \in {"working", "asking"}
      BY <3>1 DEF Phase, PhaseOf
    <3>3. PassedOf(CancelRun(y)) = Passed[r] /\ [Passed EXCEPT ![r] = Passed[r]] = Passed
      BY <2>1, <2>2, CancelledView DEF Passed
    <3>4. WaivedOf(CancelRun(y)) = {} /\ PhaseOf(CancelRun(y)) = "cancelled"
      BY <2>1, CancelledView
    <3>5. Lifecycle!Cancel(r)
      <4> HIDE DEF y
      <4> QED BY <1>0, <3>1, <3>2, <3>3, <3>4, PostedView DEF Lifecycle!Cancel, Lifecycle!Enter
    <3> QED BY <3>5 DEF Lifecycle!Next
  <2> QED BY <2>3, <2>4
<1>5. ASSUME NEW t \in Step, Retry(r, t)
      PROVE  Lifecycle!Next
  <2> DEFINE y == Restart(x, t)
  <2>1. Post(r, y) /\ x.status = "failed"
    BY <1>5 DEF Retry
  <2>2. y.status = "queued" /\ y.step = [i \in Step |-> IF i < t THEN x.step[i] ELSE "pending"]
    BY <1>0 DEF Restart, Release, RunRow
  <2>3. /\ PhaseOf(y) = "working"
        /\ PassedOf(y) = {i \in PassedOf(x) : i < t}
        /\ WaivedOf(y) = {i \in WaivedOf(x) : i < t}
    BY <2>1, <2>2 DEF PhaseOf, PassedOf, WaivedOf
  <2>4. Phase[r] = "failed" /\ Passed[r] = PassedOf(x) /\ Waived[r] = WaivedOf(x)
    BY <2>1 DEF Phase, PhaseOf, Passed, Waived
  <2>5. Lifecycle!Retry(r, t)
    <3> HIDE DEF y
    <3> QED BY <1>0, <2>1, <2>3, <2>4, PostedView DEF Lifecycle!Retry, Lifecycle!Enter
  <2> QED BY <2>5 DEF Lifecycle!Next, Lifecycle!Positions, Step
<1>6. CASE LeaseExpires(r) \/ BackoffElapses(r)
  <2> DEFINE y == IF LeaseExpires(r) THEN [x EXCEPT !.expired = TRUE]
                  ELSE [x EXCEPT !.available = TRUE]
  <2>1. y.step = x.step /\ y.status = x.status
    BY <1>0 DEF RunRow
  <2>2. PassedOf(y) = PassedOf(x) /\ WaivedOf(y) = WaivedOf(x) /\ PhaseOf(y) = PhaseOf(x)
    BY <2>1 DEF PassedOf, WaivedOf, PhaseOf
  <2>3. Post(r, y)
    BY <1>6 DEF LeaseExpires, BackoffElapses
  <2> HIDE DEF y
  <2> QED BY <1>0, <2>2, <2>3, SameView
<1> QED BY <1>1, <1>2, <1>3, <1>4, <1>5, <1>6 DEF Request, Clock

\* Each transaction of a worker is one step of the life cycle, or invisible.
LEMMA WorkerRefines ==
    ASSUME IInv, NEW w \in Worker, WorkerStep(w)
    PROVE  Lifecycle!Next \/ UNCHANGED <<Phase, Passed, Waived>>
<1>0. run \in [Run -> RunRow] /\ WorkersOK /\ AllRows /\ Step = Lifecycle!Positions
  BY DEF IInv, Step, Lifecycle!Positions
<1>1. ASSUME NEW r \in Run, ClaimNext(w, r)
      PROVE  UNCHANGED <<Phase, Passed, Waived>>
  <2> DEFINE x == run[r]
             y == [x EXCEPT !.status = "running", !.owner = w, !.expired = FALSE,
                            !.available = FALSE]
  <2>1. y.step = x.step /\ y.status = "running" /\ x.status \in {"queued", "running"}
    BY <1>0, <1>1 DEF RunRow, ClaimNext, Claimable
  <2>2. PhaseOf(y) = PhaseOf(x) /\ PassedOf(y) = PassedOf(x) /\ WaivedOf(y) = WaivedOf(x)
    BY <2>1 DEF PhaseOf, PassedOf, WaivedOf
  <2>3. Post(r, y)
    BY <1>1 DEF ClaimNext
  <2> HIDE DEF y
  <2> QED BY <1>0, <2>2, <2>3, SameView
<1> DEFINE r == job[w]
           x == run[r]
<1>2. ASSUME pc[w] \notin {"idle", "down"}
      PROVE  r \in Run /\ x \in RunRow /\ StepsOK(x) /\ StatusOK(x) /\ x.step \in [Step -> StepStatus]
  BY <1>0, <1>2 DEF WorkersOK, AllRows, RowOK, RunRow
<1>3. CASE PrepareCancelled(w)
  <2>1. /\ r \in Run /\ x \in RunRow /\ x.status = "running"
        /\ Post(r, CancelRun(x))
    BY <1>2, <1>3 DEF PrepareCancelled, Owns
  <2>2. /\ Phase' = [Phase EXCEPT ![r] = "cancelled"]
        /\ Passed' = [Passed EXCEPT ![r] = PassedOf(x)]
        /\ Waived' = [Waived EXCEPT ![r] = {}]
    BY <1>0, <2>1, PostedView, CancelledView
  <2>3. [Passed EXCEPT ![r] = PassedOf(x)] = Passed /\ Phase[r] = "working"
    BY <2>1 DEF Passed, Phase, PhaseOf
  <2> HIDE DEF r
  <2> QED BY <2>1, <2>2, <2>3 DEF Lifecycle!Next, Lifecycle!Cancel, Lifecycle!Enter
<1>4. ASSUME NEW i \in Step, PrepareHopeless(w, i)
      PROVE  Lifecycle!Next
  <2>1. r \in Run /\ x \in RunRow /\ x.status = "running" /\ Post(r, FailRun(x))
    BY <1>2, <1>4 DEF PrepareHopeless, Owns
  <2>2. Lifecycle!Fail(r)
    BY <1>0, <2>1, FailedStep
  <2> QED BY <2>1, <2>2 DEF Lifecycle!Next
<1>5. ASSUME NEW i \in Step, PrepareApproval(w, i)
      PROVE  Lifecycle!Next
  <2> DEFINE y == [x EXCEPT !.step[i] = "succeeded", !.by[i] = "automatic"]
             z == [x EXCEPT !.step[i] = "waiting_approval"]
  <2>1. /\ r \in Run /\ x \in RunRow /\ x.status = "running" /\ x.step \in [Step -> StepStatus]
        /\ IsNext(x, i) /\ i \in Approval
        /\ Post(r, IF AutoApproves(x, i) THEN QueueOrFinish(y) ELSE Release(z, "waiting_approval"))
    BY <1>2, <1>5 DEF PrepareApproval, Owns
  <2>2. Phase[r] = "working" /\ i \in Lifecycle!Positions
    BY <1>0, <2>1 DEF Phase, PhaseOf
  <2>3. CASE AutoApproves(x, i)
    <3>1. y \in RunRow /\ y.step = [x.step EXCEPT ![i] = "succeeded"]
      BY <2>1 DEF RunRow, StepStatus
    <3>2. Post(r, QueueOrFinish(y))
      BY <2>1, <2>3
    <3>3. Lifecycle!Pass(r, i)
      <4> HIDE DEF y, r
      <4> QED BY <1>0, <2>1, <3>1, <3>2, PassedStep
    <3> QED BY <2>1, <2>2, <3>3 DEF Lifecycle!Next, Lifecycle!Advance
  <2>4. CASE ~AutoApproves(x, i)
    <3> DEFINE q == Release(z, "waiting_approval")
    <3>1. z \in RunRow /\ z.step = [x.step EXCEPT ![i] = "waiting_approval"]
      BY <2>1 DEF RunRow, StepStatus
    <3>2. Post(r, q)
      BY <2>1, <2>4
    <3>3. PassedOf(z) = PassedOf(x) /\ {j \in Step : z.step[j] = "skipped"} = WaivedOf(x)
      BY <2>1, <3>1 DEF PassedOf, WaivedOf, IsNext
    <3>4. /\ PhaseOf(q) = "asking" /\ PassedOf(q) = PassedOf(z)
          /\ WaivedOf(q) = {j \in Step : z.step[j] = "skipped"}
      <4> HIDE DEF z
      <4> QED BY <3>1, ReleasedView DEF RunStatus, PhaseOf
    <3>5. /\ Phase' = [Phase EXCEPT ![r] = "asking"]
          /\ Passed' = [Passed EXCEPT ![r] = PassedOf(x)]
          /\ Waived' = [Waived EXCEPT ![r] = WaivedOf(x)]
      <4>1. /\ Phase' = [Phase EXCEPT ![r] = PhaseOf(q)]
            /\ Passed' = [Passed EXCEPT ![r] = PassedOf(q)]
            /\ Waived' = [Waived EXCEPT ![r] = WaivedOf(q)]
        <5> HIDE DEF q
        <5> QED BY <1>0, <2>1, <3>2, PostedView
      <4> HIDE DEF q, z
      <4> QED BY <3>3, <3>4, <4>1
    <3>6. /\ [Passed EXCEPT ![r] = PassedOf(x)] = Passed
          /\ [Waived EXCEPT ![r] = WaivedOf(x)] = Waived
      BY <2>1 DEF Passed, Waived
    <3>7. Lifecycle!NextIs(r, i)
      BY <2>1, NextAgrees
    <3>8. Lifecycle!Ask(r, i)
      BY <2>1, <2>2, <3>5, <3>6, <3>7 DEF Lifecycle!Ask, Lifecycle!Enter
    <3> QED BY <2>1, <2>2, <3>8 DEF Lifecycle!Next
  <2> QED BY <2>3, <2>4
<1>6. ASSUME NEW i \in Step, PrepareStart(w, i)
      PROVE  UNCHANGED <<Phase, Passed, Waived>>
  <2> DEFINE y == [x EXCEPT !.step[i] = "running", !.attempt[i] = @ + 1]
  <2>1. /\ r \in Run /\ x \in RunRow /\ x.step \in [Step -> StepStatus]
        /\ IsNext(x, i) /\ Post(r, y)
    BY <1>2, <1>6 DEF PrepareStart
  <2>2. y.step = [x.step EXCEPT ![i] = "running"] /\ y.status = x.status
    BY <2>1 DEF RunRow
  <2>3. PhaseOf(y) = PhaseOf(x) /\ PassedOf(y) = PassedOf(x) /\ WaivedOf(y) = WaivedOf(x)
    BY <2>1, <2>2 DEF PhaseOf, PassedOf, WaivedOf, IsNext
  <2> HIDE DEF y, r
  <2> QED BY <1>0, <2>1, <2>3, SameView
\* complete_step and fail_step: the running step is the next one.
<1>7. ASSUME pc[w] \in {"executing", "failing"}, Holds(w)
      PROVE  /\ r \in Run /\ x \in RunRow /\ x.status = "running" /\ x.step \in [Step -> StepStatus]
             /\ cur[w] \in Step \ Approval /\ IsNext(x, cur[w]) /\ x.step[cur[w]] = "running"
  <2>1. cur[w] \in Step
    BY <1>0, <1>7, StepsAssumption DEF WorkersOK, Step
  <2>2. /\ r \in Run /\ x \in RunRow /\ StepsOK(x) /\ StatusOK(x) /\ x.step[cur[w]] = "running"
        /\ x.step \in [Step -> StepStatus]
    BY <1>2, <1>7 DEF Holds
  <2>3. x.status = "running"
    BY <2>2, <1>7, NameAssumption DEF Holds, StatusOK
  <2> QED BY <2>1, <2>2, <2>3, OpenStepIsNext DEF StepsOK
<1>8. ASSUME NEW res \in {"clean", "flagged"}, CompleteStep(w, res)
      PROVE  Lifecycle!Next
  <2> DEFINE i == cur[w]
             y == [x EXCEPT !.step[i] = "succeeded", !.result[i] = res]
  <2>1. /\ pc[w] = "executing" /\ Holds(w)
        /\ Post(r, IF x.cancel THEN CancelRun(y) ELSE QueueOrFinish(y))
    BY <1>8 DEF CompleteStep
  <2>2. /\ r \in Run /\ x \in RunRow /\ x.status = "running" /\ x.step \in [Step -> StepStatus]
        /\ i \in Step \ Approval /\ IsNext(x, i)
    BY <2>1, <1>7
  <2>3. y \in RunRow /\ y.step = [x.step EXCEPT ![i] = "succeeded"]
    BY <2>2 DEF RunRow, StepStatus, Result
  <2>4. Phase[r] = "working"
    BY <2>2 DEF Phase, PhaseOf
  <2> HIDE DEF y, r, i
  <2>5. CASE x.cancel
    <3>1. Passed[r] = PassedOf(x) /\ PassedOf(y) = PassedOf(x) \cup {i}
      BY <2>2, <2>3 DEF Passed, PassedOf
    <3>2. /\ Phase' = [Phase EXCEPT ![r] = "cancelled"]
          /\ Passed' = [Passed EXCEPT ![r] = PassedOf(y)]
          /\ Waived' = [Waived EXCEPT ![r] = {}]
      BY <1>0, <2>1, <2>2, <2>3, <2>5, PostedView, CancelledView
    <3>3. Lifecycle!NextIs(r, i)
      BY <2>2, NextAgrees
    <3>4. Lifecycle!Cancel(r)
      BY <1>0, <2>2, <2>4, <3>1, <3>2, <3>3 DEF Lifecycle!Cancel, Lifecycle!Enter
    <3> QED BY <2>2, <3>4 DEF Lifecycle!Next
  <2>6. CASE ~x.cancel
    <3>1. Lifecycle!Pass(r, i)
      BY <1>0, <2>1, <2>2, <2>3, <2>6, PassedStep
    <3> QED BY <1>0, <2>2, <2>4, <3>1 DEF Lifecycle!Next, Lifecycle!Advance
  <2> QED BY <2>5, <2>6
<1>9. ASSUME FailStep(w)
      PROVE  Lifecycle!Next \/ UNCHANGED <<Phase, Passed, Waived>>
  <2> DEFINE i == cur[w]
             y == [x EXCEPT !.step[i] = "pending"]
             z == [x EXCEPT !.step[i] = "failed"]
  <2>1. /\ pc[w] = "failing" /\ Holds(w)
        /\ Post(r, IF x.attempt[i] < MaxAttempts THEN Backoff(x, i) ELSE FailRun(z))
    BY <1>9 DEF FailStep
  <2>2. /\ r \in Run /\ x \in RunRow /\ x.status = "running" /\ x.step \in [Step -> StepStatus]
        /\ i \in Step /\ x.step[i] = "running"
    BY <2>1, <1>7
  <2>3. /\ y \in RunRow /\ y.step = [x.step EXCEPT ![i] = "pending"]
        /\ z \in RunRow /\ z.step = [x.step EXCEPT ![i] = "failed"]
    BY <2>2 DEF RunRow, StepStatus
  <2>4. /\ PassedOf(y) = PassedOf(x) /\ PassedOf(z) = PassedOf(x)
        /\ {j \in Step : y.step[j] = "skipped"} = WaivedOf(x)
        /\ \A j \in Step : z.step[j] = "skipped" <=> x.step[j] = "skipped"
    BY <2>2, <2>3 DEF PassedOf, WaivedOf
  <2>5. CASE x.attempt[i] < MaxAttempts
    <3> DEFINE q == Release(y, "queued")
               b == [q EXCEPT !.available = FALSE]
    <3>1. Post(r, b)
      BY <2>1, <2>5 DEF Backoff
    <3>2. /\ PassedOf(q) = PassedOf(x) /\ WaivedOf(q) = WaivedOf(x) /\ q.status = "queued"
      <4> HIDE DEF y
      <4> QED BY <2>3, <2>4, ReleasedView DEF RunStatus
    <3>3. b.step = q.step /\ b.status = q.status
      BY <2>3 DEF Release, RunRow
    <3>4. PassedOf(b) = PassedOf(x) /\ WaivedOf(b) = WaivedOf(x) /\ PhaseOf(b) = PhaseOf(x)
      <4> HIDE DEF q, b
      <4> QED BY <2>2, <3>2, <3>3 DEF PassedOf, WaivedOf, PhaseOf
    <3> HIDE DEF b, r
    <3> QED BY <1>0, <2>2, <3>1, <3>4, SameView
  <2>6. CASE ~(x.attempt[i] < MaxAttempts)
    <3>1. Post(r, FailRun(z))
      BY <2>1, <2>6
    <3>2. Lifecycle!Fail(r)
      <4> HIDE DEF z, r
      <4> QED BY <1>0, <2>2, <2>3, <2>4, <3>1, FailedStep
    <3> QED BY <2>2, <3>2 DEF Lifecycle!Next
  <2> QED BY <2>5, <2>6
<1>10. CASE run' = run
  BY <1>10 DEF Phase, Passed, Waived
<1> QED
  BY <1>1, <1>3, <1>4, <1>5, <1>6, <1>8, <1>9, <1>10
  DEF WorkerStep, PrepareRejected, BeginExecution, ExecutionFails, FailRejected

\* The workers, whatever fails and is repeated, amount to the life cycle the author sees.
THEOREM Refinement == Spec => ImplementsLifecycle
<1>1. Init => Lifecycle!Init
  <2> SUFFICES ASSUME Init PROVE Lifecycle!Init
    OBVIOUS
  <2>1. \A r \in Run : /\ run[r].status = "absent"
                       /\ run[r].step = [i \in Step |-> "pending"]
    BY DEF Init, Absent, NewRun
  <2> QED BY <2>1 DEF Lifecycle!Init, Phase, Passed, Waived, PhaseOf, PassedOf, WaivedOf
<1>2. IInv /\ [Next]_vars => [Lifecycle!Next]_(Lifecycle!lvars)
  <2> SUFFICES ASSUME IInv, [Next]_vars
               PROVE  Lifecycle!Next \/ UNCHANGED <<Phase, Passed, Waived>>
    BY DEF Lifecycle!lvars
  <2>1. CASE run' = run
    BY <2>1 DEF Phase, Passed, Waived
  <2>2. ASSUME NEW r \in Run, Request(r) \/ Clock(r)
        PROVE  Lifecycle!Next \/ UNCHANGED <<Phase, Passed, Waived>>
    BY <2>2, RequestRefines
  <2>3. ASSUME NEW w \in Worker, WorkerStep(w)
        PROVE  Lifecycle!Next \/ UNCHANGED <<Phase, Passed, Waived>>
    BY <2>3, WorkerRefines
  <2> QED BY <2>1, <2>2, <2>3 DEF Next, vars, Exit, Start
<1> QED BY <1>1, <1>2, Invariance, PTL DEF Spec, Lifecycle!Spec, ImplementsLifecycle

=============================================================================
