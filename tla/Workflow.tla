------------------------------ MODULE Workflow ------------------------------
(***************************************************************************)
(* The durable chapter workflow: rows of workflow_runs and workflow_steps,  *)
(* the worker processes that claim and execute steps (core/workflow.py),    *)
(* and the author's requests (services/workflow_service.py).                *)
(*                                                                          *)
(* A database transaction is one action.  A worker runs four of them per    *)
(* step: claim, prepare, execute-and-complete and, when the third raises,   *)
(* fail.  The third is long: its snapshot is taken when it starts and its   *)
(* writes appear when it commits, so it is split into BeginExecution and    *)
(* CompleteStep and everything may happen in between.  Timestamps are       *)
(* abstracted to whether they have passed.                                  *)
(***************************************************************************)
EXTENDS Integers, FiniteSets

CONSTANTS
    Run,          \* workflow runs
    Worker,       \* worker processes
    NoRun,        \* the job of an idle worker
    NoWorker,     \* claimed_by when it is NULL
    Steps,        \* number of steps of the template
    Approval,     \* positions whose step has requires_approval
    Gate,         \* Gate[i]: positions whose result _can_auto_approve reads for i
    SelfClearing, \* approvals passed automatically without auto_approve
    Optional,     \* steps skipped when there is no research topic
    Input,        \* Input[i]: positions whose result the executor of i reads
    MaxAttempts,  \* max_attempts of every step
    MaxInterventions      \* bound on Exit and Start actions

Step == 1 .. Steps

ASSUME StepsAssumption == Steps \in Nat /\ Steps # 0

ASSUME TemplateAssumption ==
    /\ Approval \subseteq Step
    /\ SelfClearing \subseteq Approval
    /\ Optional \subseteq Step /\ Optional # Step
    /\ Gate \in [Approval -> SUBSET Step]
    /\ \A i \in Approval : \A g \in Gate[i] : g < i
    /\ Input \in [Step -> SUBSET (Step \ (Approval \cup Optional))]
    /\ \A i \in Step : \A g \in Input[i] : g < i

ASSUME BoundAssumption == MaxAttempts \in Nat /\ MaxAttempts # 0 /\ MaxInterventions \in Nat

ASSUME NameAssumption == NoWorker \notin Worker /\ NoRun \notin Run

ASSUME WorkerAssumption == Worker # {}

RunStatus == {"absent", "queued", "running", "waiting_approval",
              "succeeded", "failed", "cancelled"}
StepStatus == {"pending", "running", "waiting_approval", "succeeded", "failed", "skipped"}
TERMINAL_RUN_STATUSES == {"succeeded", "failed", "cancelled"}
TERMINAL_STEP_STATUSES == {"succeeded", "skipped"}

\* What later steps read of a step's result: there is none, it lets the approval that
\* reads it pass automatically, or it does not.
Result == {"none", "clean", "flagged"}

\* "claimed", "prepared", "executing" and "failing" stand between the transactions of
\* run_once; a worker that is "down" has exited.
WorkerState == {"idle", "claimed", "prepared", "executing", "failing", "down"}

VARIABLES
    run,     \* the row of each run together with its step rows
    pc,      \* where each worker is in run_once
    job,     \* run_id in run_once
    cur,     \* step_name in run_once, as a position
    missed,  \* an event of the run was committed after the worker's snapshot
    interventions \* workers the operator stopped, killed or started so far

vars == <<run, pc, job, cur, missed, interventions>>

RunRow == [status    : RunStatus,
           cancel    : BOOLEAN,              \* cancel_requested
           owner     : Worker \cup {NoWorker}, \* claimed_by
           expired   : BOOLEAN,              \* claim_expires_at <= now
           available : BOOLEAN,              \* available_at <= now
           auto      : BOOLEAN,              \* parameters["auto_approve"]
           step      : [Step -> StepStatus],
           attempt   : [Step -> 0 .. MaxAttempts],
           result    : [Step -> Result],
           by        : [Step -> {"none", "automatic", "author"}]] \* who approved

TypeOK ==
    /\ run \in [Run -> RunRow]
    /\ pc \in [Worker -> WorkerState]
    /\ job \in [Worker -> Run \cup {NoRun}]
    /\ cur \in [Worker -> 0 .. Steps]
    /\ missed \in [Worker -> BOOLEAN]
    /\ interventions \in 0 .. MaxInterventions
    /\ \A w \in Worker : pc[w] \in {"idle", "down"} <=> job[w] = NoRun
    /\ \A w \in Worker : pc[w] \in {"prepared", "executing", "failing"} => cur[w] # 0

-----------------------------------------------------------------------------
(* Transitions of one run, as the private methods of WorkflowService make  *)
(* them on the locked row.                                                  *)

NewRun(topic, auto) ==
    [status    |-> "queued",
     cancel    |-> FALSE,
     owner     |-> NoWorker,
     expired   |-> FALSE,
     available |-> TRUE,
     auto      |-> auto,
     step      |-> [i \in Step |-> IF i \in Optional /\ ~topic THEN "skipped" ELSE "pending"],
     attempt   |-> [i \in Step |-> 0],
     result    |-> [i \in Step |-> "none"],
     by        |-> [i \in Step |-> "none"]]

Absent == [NewRun(TRUE, FALSE) EXCEPT !.status = "absent", !.available = FALSE]

\* claimed_by and claim_expires_at are cleared by every transition out of "running".
Release(x, status) ==
    [x EXCEPT !.status = status, !.owner = NoWorker, !.expired = FALSE,
              !.available = (status = "queued")]

AllSettled(x) == \A i \in Step : x.step[i] \in TERMINAL_STEP_STATUSES

\* Mutant: a step that has failed is passed over.
NextPending(x, i) ==
    /\ x.step[i] \notin TERMINAL_STEP_STATUSES \cup {"failed"}
    /\ \A j \in 1 .. (i - 1) : x.step[j] \in TERMINAL_STEP_STATUSES \cup {"failed"}

\* The first step that is not settled, the one prepare_claimed_step picks.
IsNext(x, i) ==
    /\ x.step[i] \notin TERMINAL_STEP_STATUSES
    /\ \A j \in 1 .. (i - 1) : x.step[j] \in TERMINAL_STEP_STATUSES

QueueOrFinish(x) == Release(x, IF AllSettled(x) THEN "succeeded" ELSE "queued")

FailRun(x) == Release(x, "failed")

CancelRun(x) ==
    Release([x EXCEPT !.step = [i \in Step |->
                 IF x.step[i] \in {"pending", "waiting_approval"} THEN "skipped" ELSE x.step[i]]],
            "cancelled")

\* Mutant: a missing result counts as a clean one.
NothingFlagged(x, i) == \A g \in Gate[i] : x.result[g] # "flagged"

CanAutoApprove(x, i) == \A g \in Gate[i] : x.result[g] = "clean"

\* Mutant: an expired lease is not taken over.
QueuedOnly(x) == ~x.cancel /\ x.status = "queued" /\ x.available

Claimable(x) ==
    /\ ~x.cancel
    /\ \/ x.status = "queued" /\ x.available
       \/ x.status = "running" /\ x.expired

\* queued while the retry backoff has not elapsed
Backoff(x, i) ==
    [Release([x EXCEPT !.step[i] = "pending"], "queued") EXCEPT !.available = FALSE]

\* Mutant: only the step the author names is reset.
RestartOne(x, t) ==
    [Release(x, "queued") EXCEPT !.cancel = FALSE, !.step[t] = "pending", !.attempt[t] = 0,
                                 !.result[t] = "none", !.by[t] = "none"]

\* Mutant: the result of one step too many is dropped.
RestartDropsOneMore(x, t) ==
    [Release(x, "queued") EXCEPT
        !.cancel  = FALSE,
        !.step    = [i \in Step |-> IF i < t THEN x.step[i] ELSE "pending"],
        !.attempt = [i \in Step |-> IF i < t THEN x.attempt[i] ELSE 0],
        !.result  = [i \in Step |-> IF i < t - 1 THEN x.result[i] ELSE "none"],
        !.by      = [i \in Step |-> IF i < t THEN x.by[i] ELSE "none"]]

\* Steps from position t on start over; what they produced is dropped, the parameters stay.
Restart(x, t) ==
    [Release(x, "queued") EXCEPT
        !.cancel  = FALSE,
        !.step    = [i \in Step |-> IF i < t THEN x.step[i] ELSE "pending"],
        !.attempt = [i \in Step |-> IF i < t THEN x.attempt[i] ELSE 0],
        !.result  = [i \in Step |-> IF i < t THEN x.result[i] ELSE "none"],
        !.by      = [i \in Step |-> IF i < t THEN x.by[i] ELSE "none"]]

-----------------------------------------------------------------------------
(* Helpers of the actions.                                                  *)

Post(r, x) == run' = [run EXCEPT ![r] = x]

\* An event of run r, written by w (NoWorker for a request), gets sequence max + 1.  An
\* open execution transaction still sees the maximum of its own snapshot.
Announce(r, w) ==
    missed' = [v \in Worker |-> v # w /\ (missed[v] \/ (pc[v] = "executing" /\ job[v] = r))]

Goto(w, p) == pc' = [pc EXCEPT ![w] = p] /\ UNCHANGED <<job, cur>>

\* The worker leaves run_once for its polling loop ("idle") or dies of an exception ("down").
Leave(w, p) ==
    /\ pc' = [pc EXCEPT ![w] = p]
    /\ job' = [job EXCEPT ![w] = NoRun]
    /\ cur' = [cur EXCEPT ![w] = 0]

\* prepare_claimed_step raises unless this holds.
Owns(w) == run[job[w]].status = "running" /\ run[job[w]].owner = w

\* Mutant: whoever claimed the run, a running step is accepted.
StepRuns(w) == run[job[w]].step[cur[w]] = "running"

\* Mutant: a worker whose lease has run out is refused even if nobody took the run over.
HoldsLease(w) ==
    /\ run[job[w]].owner = w /\ ~run[job[w]].expired
    /\ run[job[w]].step[cur[w]] = "running"

\* complete_step and fail_step raise unless this holds.
Holds(w) == run[job[w]].owner = w /\ run[job[w]].step[cur[w]] = "running"

-----------------------------------------------------------------------------
(* Requests of the author, each one transaction of the API.                 *)

CreateRun(r) ==
    /\ run[r].status = "absent"
    /\ \E topic, auto \in BOOLEAN : Post(r, NewRun(topic, auto))
    /\ UNCHANGED <<pc, job, cur, missed, interventions>>

\* decide_approval with decision "approve"
Approve(r, i) ==
    /\ run[r].status = "waiting_approval"
    /\ run[r].step[i] = "waiting_approval"
    /\ Post(r, QueueOrFinish([run[r] EXCEPT !.step[i] = "succeeded", !.by[i] = "author"]))
    /\ Announce(r, NoWorker)
    /\ UNCHANGED <<pc, job, cur, interventions>>

\* Mutant: the rejected step keeps waiting.
RejectRunOnly(r, i) ==
    /\ run[r].status = "waiting_approval"
    /\ run[r].step[i] = "waiting_approval"
    /\ Post(r, FailRun(run[r]))
    /\ Announce(r, NoWorker)
    /\ UNCHANGED <<pc, job, cur, interventions>>

\* decide_approval with decision "reject"
Reject(r, i) ==
    /\ run[r].status = "waiting_approval"
    /\ run[r].step[i] = "waiting_approval"
    /\ Post(r, FailRun([run[r] EXCEPT !.step[i] = "failed"]))
    /\ Announce(r, NoWorker)
    /\ UNCHANGED <<pc, job, cur, interventions>>

\* A running run only gets the flag; its worker is to act on it.
RequestCancel(r) ==
    /\ run[r].status \notin TERMINAL_RUN_STATUSES \cup {"absent"}
    /\ LET flagged == [run[r] EXCEPT !.cancel = TRUE]
       IN  Post(r, IF run[r].status = "running" THEN flagged ELSE CancelRun(flagged))
    /\ Announce(r, NoWorker)
    /\ UNCHANGED <<pc, job, cur, interventions>>

\* retry, from the first failed step or from the step the author names
Retry(r, t) ==
    /\ run[r].status = "failed"
    /\ Post(r, Restart(run[r], t))
    /\ Announce(r, NoWorker)
    /\ UNCHANGED <<pc, job, cur, interventions>>

-----------------------------------------------------------------------------
(* The clock.                                                               *)

LeaseExpires(r) ==
    /\ run[r].status = "running" /\ ~run[r].expired
    /\ Post(r, [run[r] EXCEPT !.expired = TRUE])
    /\ UNCHANGED <<pc, job, cur, missed, interventions>>

BackoffElapses(r) ==
    /\ run[r].status = "queued" /\ ~run[r].available
    /\ Post(r, [run[r] EXCEPT !.available = TRUE])
    /\ UNCHANGED <<pc, job, cur, missed, interventions>>

-----------------------------------------------------------------------------
(* The worker: run_once, transaction by transaction.                        *)

\* First transaction: SELECT ... FOR UPDATE SKIP LOCKED of a queued run or of a run whose
\* lease has expired, whatever its former worker is doing.
ClaimNext(w, r) ==
    /\ pc[w] = "idle"
    /\ Claimable(run[r])
    /\ Post(r, [run[r] EXCEPT !.status = "running", !.owner = w, !.expired = FALSE,
                              !.available = FALSE])
    /\ pc' = [pc EXCEPT ![w] = "claimed"]
    /\ job' = [job EXCEPT ![w] = r]
    /\ Announce(r, w)
    /\ UNCHANGED <<cur, interventions>>

\* Second transaction.  prepare_claimed_step raises outside the try block of run_once, so
\* the exception ends run_forever.
PrepareRejected(w) ==
    /\ pc[w] = "claimed" /\ ~Owns(w)
    /\ Leave(w, "down")
    /\ UNCHANGED <<run, missed, interventions>>

PrepareCancelled(w) ==
    /\ pc[w] = "claimed" /\ Owns(w) /\ run[job[w]].cancel
    /\ Post(job[w], CancelRun(run[job[w]]))
    /\ Leave(w, "idle")
    /\ Announce(job[w], w)
    /\ UNCHANGED interventions

\* The first unsettled step failed earlier (the author retried from a later one), or it has
\* used its attempts (its worker lost the lease in the last one).
PrepareHopeless(w, i) ==
    /\ pc[w] = "claimed" /\ Owns(w) /\ ~run[job[w]].cancel
    /\ LET x == run[job[w]]
       IN  /\ IsNext(x, i)
           /\ \/ x.step[i] = "failed"
              \/ i \notin Approval /\ x.attempt[i] >= MaxAttempts
           /\ Post(job[w], FailRun(x))
    /\ Leave(w, "idle")
    /\ Announce(job[w], w)
    /\ UNCHANGED interventions

AutoApproves(x, i) == CanAutoApprove(x, i) /\ (i \in SelfClearing \/ x.auto)

PrepareApproval(w, i) ==
    /\ pc[w] = "claimed" /\ Owns(w) /\ ~run[job[w]].cancel
    /\ LET x == run[job[w]]
       IN  /\ IsNext(x, i) /\ x.step[i] # "failed" /\ i \in Approval
           /\ Post(job[w],
                   IF AutoApproves(x, i)
                   THEN QueueOrFinish([x EXCEPT !.step[i] = "succeeded", !.by[i] = "automatic"])
                   ELSE Release([x EXCEPT !.step[i] = "waiting_approval"], "waiting_approval"))
    /\ Leave(w, "idle")
    /\ Announce(job[w], w)
    /\ UNCHANGED interventions

\* Mutant: the attempts are not counted against max_attempts.
PrepareStartUnbounded(w, i) ==
    /\ pc[w] = "claimed" /\ Owns(w) /\ ~run[job[w]].cancel
    /\ IsNext(run[job[w]], i) /\ run[job[w]].step[i] # "failed" /\ i \notin Approval
    /\ Post(job[w], [run[job[w]] EXCEPT !.step[i] = "running", !.attempt[i] = @ + 1])
    /\ pc' = [pc EXCEPT ![w] = "prepared"]
    /\ cur' = [cur EXCEPT ![w] = i]
    /\ Announce(job[w], w)
    /\ UNCHANGED <<job, interventions>>

\* A step left "running" by a lost lease is taken up again, with one more attempt.
PrepareStart(w, i) ==
    /\ pc[w] = "claimed" /\ Owns(w) /\ ~run[job[w]].cancel
    /\ LET x == run[job[w]]
       IN  /\ IsNext(x, i) /\ x.step[i] # "failed" /\ i \notin Approval
           /\ x.attempt[i] < MaxAttempts
           /\ Post(job[w], [x EXCEPT !.step[i] = "running", !.attempt[i] = @ + 1])
    /\ pc' = [pc EXCEPT ![w] = "prepared"]
    /\ cur' = [cur EXCEPT ![w] = i]
    /\ Announce(job[w], w)
    /\ UNCHANGED <<job, interventions>>

\* Third transaction: its first read fixes the snapshot.
BeginExecution(w) ==
    /\ pc[w] = "prepared"
    /\ Goto(w, "executing")
    /\ UNCHANGED <<run, missed, interventions>>

\* Only a result that an approval reads may be one that does not let it pass.
Outcomes(i) ==
    {"clean"} \cup {res \in {"flagged"} : \E a \in Approval : i \in Gate[a]}

\* complete_step.  Its guard reads the locked rows; the sequence of its event comes from the
\* snapshot, and is taken when another event was committed since.
CompleteStep(w, res) ==
    /\ pc[w] = "executing" /\ Holds(w) /\ ~missed[w]
    /\ res \in Outcomes(cur[w])
    /\ \A g \in Input[cur[w]] : run[job[w]].result[g] # "none"
    /\ LET x == run[job[w]]
           done == [x EXCEPT !.step[cur[w]] = "succeeded", !.result[cur[w]] = res]
       IN  Post(job[w], IF x.cancel THEN CancelRun(done) ELSE QueueOrFinish(done))
    /\ Leave(w, "idle")
    /\ Announce(job[w], w)
    /\ UNCHANGED interventions

\* The executor raises, or complete_step does: the transaction is rolled back.
ExecutionFails(w) ==
    /\ pc[w] = "executing"
    /\ Goto(w, "failing")
    /\ missed' = [missed EXCEPT ![w] = FALSE]
    /\ UNCHANGED <<run, interventions>>

\* Fourth transaction: fail_step.
FailStep(w) ==
    /\ pc[w] = "failing" /\ Holds(w)
    /\ LET x == run[job[w]]
       IN  Post(job[w],
                IF x.attempt[cur[w]] < MaxAttempts
                THEN Backoff(x, cur[w])
                ELSE FailRun([x EXCEPT !.step[cur[w]] = "failed"]))
    /\ Leave(w, "idle")
    /\ Announce(job[w], w)
    /\ UNCHANGED interventions

\* fail_step raises for a worker that lost its claim, inside the except block of run_once.
FailRejected(w) ==
    /\ pc[w] = "failing" /\ ~Holds(w)
    /\ Leave(w, "down")
    /\ UNCHANGED <<run, missed, interventions>>

Intervene == interventions < MaxInterventions /\ interventions' = interventions + 1

\* SIGTERM between steps, or the process is killed: an open transaction is rolled back and
\* the claim stays in the row.
Exit(w) ==
    /\ pc[w] # "down"
    /\ Intervene
    /\ Leave(w, "down")
    /\ missed' = [missed EXCEPT ![w] = FALSE]
    /\ UNCHANGED run

\* A new process, with a new worker_id; the old one never speaks again.
Start(w) ==
    /\ pc[w] = "down"
    /\ Intervene
    /\ Goto(w, "idle")
    /\ UNCHANGED <<run, missed>>

-----------------------------------------------------------------------------

Init ==
    /\ run = [r \in Run |-> Absent]
    /\ pc = [w \in Worker |-> "idle"]
    /\ job = [w \in Worker |-> NoRun]
    /\ cur = [w \in Worker |-> 0]
    /\ missed = [w \in Worker |-> FALSE]
    /\ interventions = 0

Request(r) ==
    \/ CreateRun(r)
    \/ \E i \in Step : Approve(r, i)
    \/ \E i \in Step : Reject(r, i)
    \/ RequestCancel(r)
    \/ \E t \in Step : Retry(r, t)

Clock(r) == LeaseExpires(r) \/ BackoffElapses(r)

WorkerStep(w) ==
    \/ \E r \in Run : ClaimNext(w, r)
    \/ PrepareRejected(w)
    \/ PrepareCancelled(w)
    \/ \E i \in Step : PrepareHopeless(w, i)
    \/ \E i \in Step : PrepareApproval(w, i)
    \/ \E i \in Step : PrepareStart(w, i)
    \/ BeginExecution(w)
    \/ \E res \in {"clean", "flagged"} : CompleteStep(w, res)
    \/ ExecutionFails(w)
    \/ FailStep(w)
    \/ FailRejected(w)

Next ==
    \/ \E r \in Run : Request(r) \/ Clock(r)
    \/ \E w \in Worker : WorkerStep(w) \/ Exit(w) \/ Start(w)

Spec == Init /\ [][Next]_vars

\* Time passes, and a worker process that is up keeps polling and ends what it does; the
\* author and the operator promise nothing.  claim_next takes the runs in the order of
\* available_at, so that a run that stays claimable is reached before one that is queued
\* again later: it is claimed if workers become idle again and again.
Fairness ==
    /\ \A r \in Run : WF_vars(Clock(r)) /\ SF_vars(\E w \in Worker : ClaimNext(w, r))
    /\ \A w \in Worker : WF_vars(WorkerStep(w))

FairSpec == Spec /\ Fairness

-----------------------------------------------------------------------------
(* Safety.                                                                  *)

\* A step is entered only when every step before it is settled, whatever workers crashed,
\* lost their lease or were late, and wherever the author retried from: nothing that runs,
\* waits or has succeeded has an open step in front of it.  (The next step is the first open
\* one, workflow_service.py prepare_claimed_step; no other transition looks at the order.)
StepsInOrder ==
    \A r \in Run, i \in Step, j \in Step :
        /\ j < i
        /\ run[r].step[i] \in {"running", "waiting_approval", "succeeded"}
        => run[r].step[j] \in TERMINAL_STEP_STATUSES

\* Between its transactions a worker trusts the claim alone: as long as the row still names
\* it, the run is running, the step it prepared is running and is the next one, and what the
\* step's executor reads of earlier results is there.
ClaimIsFence ==
    \A w \in Worker :
        pc[w] \in {"prepared", "executing", "failing"} /\ run[job[w]].owner = w =>
            /\ run[job[w]].status = "running"
            /\ run[job[w]].step[cur[w]] = "running"
            /\ IsNext(run[job[w]], cur[w])
            /\ \A g \in Input[cur[w]] : run[job[w]].result[g] # "none"

\* The status of a run and those of its steps, written by different statements, agree: a run
\* is owned exactly while it is running; a run a worker may claim has an open step, and none
\* that waits for the author; a run that waits for the author does so at its next step; a run
\* has succeeded when all its steps are settled; only a cancelled run has skipped a step that
\* is not optional.  The branches of prepare_claimed_step for "no open step" and for "already
\* waiting" are therefore never taken, which is why no action models them.
RunMatchesSteps ==
    \A r \in Run :
        LET x == run[r]
        IN  /\ x.owner # NoWorker <=> x.status = "running"
            /\ x.status \in {"queued", "running"} =>
                   \E i \in Step : IsNext(x, i) /\ x.step[i] # "waiting_approval"
            /\ x.status = "waiting_approval" =>
                   \E i \in Approval : IsNext(x, i) /\ x.step[i] = "waiting_approval"
            /\ x.status = "succeeded" => AllSettled(x)
            /\ x.status # "cancelled" => {i \in Step : x.step[i] = "skipped"} \subseteq Optional

\* An approval passes without the author only by the rules: what it judges was found clean
\* and is still the result on record, and the author asked for it when the run was created or
\* the approval clears itself.  Every other passed approval was given by the author.
ApprovalsRespected ==
    \A r \in Run, i \in Approval :
        LET x == run[r]
        IN  /\ x.step[i] = "succeeded" <=> x.by[i] # "none"
            /\ x.by[i] = "automatic" =>
                   /\ \A g \in Gate[i] : x.result[g] = "clean"
                   /\ x.auto \/ i \in SelfClearing

\* What stops a failed run is its next step: it failed, or its worker lost the lease in the last
\* attempt and left it running, the one case in which there is no failed step to retry from.
FailedAtNextStep ==
    \A r \in Run : run[r].status = "failed" =>
        \E i \in Step :
            /\ IsNext(run[r], i)
            /\ \/ run[r].step[i] = "failed"
               \/ run[r].step[i] = "running" /\ run[r].attempt[i] = MaxAttempts

\* A worker that no longer owns the run it works on will raise out of run_once and exit.
Stale(w) == pc[w] \in {"claimed", "prepared", "executing", "failing"} /\ run[job[w]].owner # w

\* Workers die of a lost lease, but never all of them: unless the operator stopped some, one
\* is up and will not die of what it is doing.
LastWorkerSurvives ==
    interventions = 0 => \E w \in Worker : pc[w] # "down" /\ ~Stale(w)

-----------------------------------------------------------------------------
(* Action and liveness properties.                                         *)

\* A run that has succeeded or was cancelled never changes again, whoever is late; a failed
\* run only starts over, and what it keeps are the steps before the one it starts from.
TerminalIsFinal ==
    [][\A r \in Run :
          /\ run[r].status \in {"succeeded", "cancelled"} => run'[r] = run[r]
          /\ run[r].status = "failed" /\ run'[r] # run[r] =>
                \E t \in Step :
                    /\ run'[r].status = "queued"
                    /\ \A i \in Step :
                          IF i < t
                          THEN run'[r].step[i] = run[r].step[i]
                               /\ run'[r].result[i] = run[r].result[i]
                          ELSE run'[r].step[i] = "pending" /\ run'[r].result[i] = "none"]_vars

\* A request to cancel may be left undone (CancelHonoured), but it is not forgotten or overtaken:
\* only the retry of a run that failed withdraws it, and until then no worker starts or repeats a
\* step of the run, nothing more is asked of the author, and the run does not succeed.
CancelStopsWork ==
    [][\A r \in Run : run[r].cancel /\ run[r].status # "failed" =>
          /\ run'[r].cancel
          /\ run'[r].status \in {"running", "queued", "failed", "cancelled"}
          /\ run'[r].attempt = run[r].attempt
          /\ \A i \in Step : run'[r].step[i] \in {"running", "waiting_approval"} =>
                run'[r].step[i] = run[r].step[i]]_vars

\* A run that is queued or running gets to an end or to the author, unless the author cancels
\* it or no worker is left.
Settles ==
    \A r \in Run :
        run[r].status \in {"queued", "running"} ~>
            \/ run[r].status \in TERMINAL_RUN_STATUSES \cup {"waiting_approval"}
            \/ run[r].cancel
            \/ \A w \in Worker : pc[w] = "down"

\* Two runs that share workers: what one of them does to a worker never leaves the other
\* waiting for ever, as long as the operator stops no worker.
Served ==
    \A r \in Run :
        run[r].status \in {"queued", "running"} ~>
            \/ run[r].status \in TERMINAL_RUN_STATUSES \cup {"waiting_approval"}
            \/ run[r].cancel
            \/ interventions > 0

\* docs/roadmap-0.5.0.md: a running workflow can be cancelled.  Violated: a step that fails
\* after the request puts the run back in the queue with the flag set, and claim_next
\* skips flagged runs.
CancelHonoured ==
    \A r \in Run : run[r].cancel ~> run[r].status \in TERMINAL_RUN_STATUSES

\* docs/roadmap-0.5.0.md: a failed workflow can be retried from the failed step.  Violated:
\* when the lease of the last attempt is lost, the run fails and the step stays "running".
RetryableFailure ==
    \A r \in Run : run[r].status = "failed" => \E i \in Step : run[r].step[i] = "failed"

-----------------------------------------------------------------------------
(* What the author is promised, with workers, leases and attempts left out. *)

PhaseOf(x) ==
    CASE x.status \in {"queued", "running"} -> "working"
      [] x.status = "waiting_approval" -> "asking"
      [] OTHER -> x.status

PassedOf(x) == {i \in Step : x.step[i] = "succeeded"}

\* Steps skipped when the run was created; a cancelled run has skipped the rest as well.
WaivedOf(x) == {i \in Step : x.step[i] = "skipped" /\ x.status # "cancelled"}

Phase  == [r \in Run |-> PhaseOf(run[r])]
Passed == [r \in Run |-> PassedOf(run[r])]
Waived == [r \in Run |-> WaivedOf(run[r])]

Lifecycle == INSTANCE RunLifecycle WITH phase <- Phase, passed <- Passed, waived <- Waived

\* The four transactions of the workers, retried and interrupted as they may be, amount to
\* the life cycle of RunLifecycle: each step passes once and in order, approvals are asked
\* for, a failed run only resumes on request.
ImplementsLifecycle == Lifecycle!Spec

=============================================================================
