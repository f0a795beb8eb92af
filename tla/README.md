# Verification of Novel Agent Harness

Novel Agent Harness is a writing assistant built around a durable workflow: an author asks for a
chapter, a worker process researches, plans and writes it step by step through language-model
agents, stops where the author must decide, and finally commits the accepted draft to the story's
canon and to its long-term memory.  This directory holds TLA+ specifications of the program, the
TLC configurations that model-check them, and theorems that TLAPS checks.

Sections 3 to 6 are about the workflow, section 7 about the canon, section 8 about the services
around them (memory, ingestion, research, prompts, review, accounts, backup), section 9 about billing,
section 10 about what is left out.

Abbreviations: `WS` = `src/novel_harness/services/workflow_service.py`,
`WW` = `src/novel_harness/core/workflow.py`, `R` = `src/novel_harness/storage/repositories.py`.

## 1. Inventory

| Component | State it keeps | Operations | Talks to | What is hard | What makes it correct |
|---|---|---|---|---|---|
| Chapter workflow (`workflow_service.py`) | rows `workflow_runs`, `workflow_steps`, `workflow_events` | create, approve, reject, cancel, retry; claim, prepare, complete, fail | API, CLI, worker; all through MySQL | transitions of two rows at once, requests during execution, event sequence | steps in order, run and steps agree, approvals respected, ends are final |
| Worker (`core/workflow.py`) | its place in `run_once`; the claim in the run's row | claim, prepare, execute and complete, fail, stop | workflow, every service a step calls | four transactions per step, leases that are never renewed, crashes, late workers | a claim fences its holder, workers do not die out, runs settle |
| Story Bible (`story_bible_service.py`) | versioned bible with snapshots, canon patches | edits with compare-and-set, create, accept, reject a patch | generation, workflow step `canon_commit` | concurrent edits, stale patches | no lost update, a patch is applied at most once, on its base version |
| Drafts (`generation_service.py`) | drafts, issues, risks, plot plans; objects in MinIO | plan, write, revise, edit by hand, reject | agents, Story Bible, manuscript, object store | awaits between read and write, objects written before rows | one open revision per draft, no row without its object |
| Manuscript (`manuscript_service.py`) | volumes, chapters, `draft_id`, `accepted_draft_id` | create, move, reorder, attach, reject, export | drafts, canon | an accepted draft replaced by a newer one | exports use accepted drafts only |
| Memory (`memory_service.py`) | memory rows, revision counter, vectors, search cache | extract, search, preflight, invalidate, rebuild | drafts, Milvus, Redis | three stores without a common transaction, cache filled late | a search never returns what was invalidated before it began |
| Documents, research (`document_service.py`, `research_service.py`) | rows, chunks, notes, objects, vectors | ingest, research | MinIO, Milvus, the web | compensation after partial failure | what is listed as ready is complete |
| Agent runs, reporting (`agent_run_service.py`, `integrations.py`) | audit rows | execute | billing over HTTP | crash between audit and report | each successful use is reported at most once |
| Billing (`billing/`, Go) | usage records, monthly bills, recharges; Redis stream group | record usage, recharge, balance, consume | auth, worker | duplicates, redelivery, poison messages | each event is charged once; what is acknowledged is recorded |
| Auth (`auth/`, Go) | users, codes, tokens | register, login, verify, reset, bootstrap | billing, mail, SMS | code consumed before the account exists, lost initial balance | a code is used once |
| Projects, quality, operations | project rows, issue status, backups | create, archive, delete; update; backup, restore | all stores | deletion under running work; dumps taken one after the other | no orphan artefacts, restorable backups |
| Algorithms (`originality.py`, `context_manager.py`, chunking) | none | overlap, ranking, budgets, chunks | drafts, documents | boundaries | equal to their definitions |
| Agents, providers (`agents/`, `providers/`) | none between calls | search, fetch, embed, generate | the web, models | retries, redirects, batches, answers out of order | evidence belongs to its page, vectors to their texts |
| API, CLI, web | none of their own | one session, one service call | all services | a session outlives the call it makes | in the actions of the services |

Interaction is through the database: the API opens one session per request and calls one service
method; a worker opens one session per transaction.  Objects, vectors and the cache are called
from inside those transactions and do not roll back with them.

The hazards found while reading are listed, at their lines, in `PROJECT.json`.

## 2. Plan

1. **`Workflow`**, `RunLifecycle`, `MCWorkflow`, `WorkflowProofs`: done, sections 3 to 6.  It comes first because everything the program does for an author goes
   through it and because it is where processes really race.
2. **`Canon`**, `CanonLog`, `MCCanon`, `CanonProofs`: done, section 7.  Story Bible versions,
   patches, drafts and chapters, in sessions that wait for agents between their reads and their
   writes; theorems for any number of sessions, and for one at a time.
3. **`Memory`**, **`Ingest`**, **`Research`**, **`Context`**, **`Review`**, **`Auth`**,
   **`Backup`**: done, section 8, in one run of `MCServices`.  `StorageProofs` has the proofs about
   `Memory`, `Ingest` and `Backup`, `AgentProofs` those about `Review`, `Context` and `Research`,
   `AuthProofs` those about `Auth`; `ServicesProofs` carries them over to `MCServices`.
4. **`Billing`**, `Ledger`, `MCBilling`, `BillingProofs`: done, section 9.  `FoldTheorems` has the
   lemmas on folds and sums that `BillingProofs` and `AgentProofs` share.
5. Left out: the composition of `Workflow` with `Review`, so that the claims of section 3 and the data of
   section 8 are in one behaviour; the creation of two runs of a chapter; project deletion under a worker.

Every module is written to be proved about: constants with named assumptions, one action per
transaction, invariants as named conjuncts, no recursive operator in a module with theorems.

## 3. The workflow model

`Workflow.tla` models what `WS` and `WW` do to runs, steps and workers.

| Model | Code |
|---|---|
| `run[r]`: status, cancel, owner, step, attempt, result, by | row of `workflow_runs` with its rows of `workflow_steps`; `by` is whether `approval_decision` was set automatically or by the author |
| `expired`, `available` | `claim_expires_at <= now`, `available_at <= now`; times are abstracted to whether they have passed, `LeaseExpires` and `BackoffElapses` let them pass |
| `pc`, `job`, `cur` | where a worker is between the transactions of `run_once`, its `run_id` and `step_name` |
| `missed[w]` | an event of the run was committed after the snapshot of the worker's open transaction |
| `interventions` | how often the operator stopped, killed or started a worker: the only bounded quantity that the code does not bound |
| `CreateRun`, `Approve`, `Reject`, `RequestCancel`, `Retry` | `create_chapter_workflow`, `decide_approval`, `request_cancel`, `retry` (any step may be named, so the default, the first failed step, is included) |
| `ClaimNext` | first transaction of `run_once`: `claim_next` in `R` |
| `PrepareRejected`, `PrepareCancelled`, `PrepareHopeless`, `PrepareApproval`, `PrepareStart` | second transaction: the ways out of `prepare_claimed_step` |
| `BeginExecution`, `CompleteStep`, `ExecutionFails` | third transaction: the executor and `complete_step` |
| `FailStep`, `FailRejected` | fourth transaction: `fail_step` |
| `Exit`, `Start` | SIGTERM between steps, or a killed process; a new process |

Decisions that need a word:

* **One transaction, one action.**  The first, second and fourth transactions and every request
  start with a locking read of the run's row and are short.  The third is as long as an agent
  call, so its beginning (the snapshot) and its end (the writes) are two actions.
* **Events.**  `_event` takes `max(sequence) + 1` (`R` 1007-1011) and the pair (run, sequence) is
  unique.  In the third transaction the maximum comes from the snapshot (MySQL's REPEATABLE READ):
  if another event of the run was committed since, the insert collides, the transaction is rolled
  back and `fail_step` runs.  `missed` is exactly that, and the sequence numbers themselves are
  not needed.
* **Lost claims kill workers.**  `prepare_claimed_step` and `fail_step` raise for a worker the row
  no longer names, outside any handler: the process ends (`PrepareRejected`, `FailRejected` go to
  "down").  Nothing restarts it, except `Start`.
* **The template** (`CHAPTER_STEPS`, which steps need approval, which results an approval and an
  executor read) is a set of constants, so that the eleven steps, short templates and the theorems
  share one module.  A result is "clean", "flagged" or absent: that is all later steps ask of it.
* **Two branches** of `prepare_claimed_step`, "no open step" (WS 179-181) and "already waiting"
  (WS 185-187), have no action: `RunMatchesSteps`, which is proved, says that they are never taken.
* A restarted process has a new `worker_id`; the model reuses the name, because the old process
  never speaks again and its claim, kept in the row, expires like any other.

Not modelled here: the guards of creation (active run of the chapter, idempotency key), the
deletion of a project under a running workflow, database errors in the short transactions (they
end the worker, which `Exit` already does), the `limit` and the order of `claim_next` (they appear
in the fairness only), logging, the cache's publish.

`RunLifecycle.tla` is what the author is promised: a run is working, asks, and ends; steps pass in
order and once; a failed run starts over from a step the author names and keeps the ones before.
`Workflow` maps to it by `Phase`, `Passed` and `Waived`.

## 4. Runs

| Run | Instance | Question | States |
|---|---|---|---|
| `workflow_chapter` | 11 steps, 1 run, 1 worker, 2 attempts, 2 interventions | do order, agreement and approvals survive crash, restart, lost lease, retry from any step, cancellation at any point of the real template? | about 460 000 |
| `workflow_workers` | 4 steps, 1 run, 2 workers, 2 attempts, 1 intervention | do two workers that race keep each other out, implement the life cycle, and get the run to an end? | about 143 000 |
| `workflow_queue` | 2 steps, 2 runs, 2 workers, 1 attempt, no intervention | can what one run does to the workers starve the other or kill them all? | about 132 000 |
| `workflow_cancel` | 4 steps, 1 run, 1 worker | is a cancel request always honoured? (no) | violation |
| `workflow_retry` | 4 steps, 1 run, 2 workers | has every failed run a failed step to retry from? (no) | violation |

*Why the bounds are enough.*  Without bounds on requests the state space is finite already, since
`retry` resets the attempts: the author may cancel, decide and retry as often as she likes.  Two
attempts give a failure that is retried and one that is final; one attempt suffices where the
question is about workers.  Two workers give a late one and its successor; a third late worker
would meet the same refusal.  The template of four steps keeps one step of each kind: optional,
one that an approval judges, the approval, and one that reads an earlier result.  One intervention
is a crash; two are a crash and a restart.  The theorems of section 6 hold for every template and
any number of runs, workers and attempts.

Deadlock is not checked: a run that has ended with all workers down, or nothing to do, is a proper
end of the system.

*What the properties say.*

* `StepsInOrder`: nothing runs, waits or has succeeded with an open step before it.
* `RunMatchesSteps`: the run's status and the steps' statuses, written by separate statements,
  agree.
* `ApprovalsRespected`: an approval that passed without the author passed on results still on
  record, found clean.
* `ClaimIsFence`: what a worker trusts between its transactions holds while the row names it.
* `TerminalIsFinal`: late workers never touch a run that has ended; a restart keeps exactly the
  steps before it.
* `ImplementsLifecycle`: refinement of `RunLifecycle`.
* `LastWorkerSurvives`: a lost lease ends a worker, never the last one.
* `Settles`, `Served`: a queued or running run reaches an end or the author, unless she cancels
  it or the operator stops the workers.
* `CancelHonoured`, `RetryableFailure`: two promises of the documentation that the code breaks.

### Findings

1. *A cancelled run can hang.*  `docs/roadmap-0.5.0.md:54` promises that running workflows can be
   cancelled.  If the running step fails after the request, `fail_step` queues the run with
   `cancel_requested` still set, and `claim_next` never selects such a run.  The same happens when
   the worker dies after the request.  A second cancel request ends a queued run; a running one
   whose worker died only gets the flag again.
2. *A failed run without a failed step.*  The same line promises a retry from the failed step.
   When the last attempt ends by losing its lease, the run is failed but its step stays "running",
   and a retry that does not name a step raises.

## 5. Fairness

`FairSpec` assumes that time passes (`WF` of `Clock(r)`), that a worker process that is up goes on
(`WF` of `WorkerStep(w)`: `run_forever` polls without end, and an execution ends because every
provider call has a timeout), and that a run that is claimable again and again is claimed (`SF` of
the claims of `r`): `claim_next` takes runs in the order of `available_at`, so that a run that
stays behind becomes the first.  Nothing is assumed of the author, of the operator, or of a worker
that is down.

## 6. Proofs

`WorkflowProofs.tla` proves, for every template that satisfies `TemplateAssumption`, any sets of
runs and workers and any bound on attempts: `TypeCorrect`, `OrderKept`, `StatusAgrees`,
`ApprovalsKept`, `ClaimProtects`, `EndsAreFinal` and `OneWorkerLeft`, and `Refinement`: `Workflow`
implements `RunLifecycle`.  Two more theorems say how far findings 1 and 2 go:

* `CancelStands` (`CancelStopsWork`): a cancel request may be left undone, but until a failed run is
  retried it stays on record, no step is started or attempted again, nothing more is asked of the
  author, and the run does not succeed.  What hangs is a run without work.
* `FailureIsNext` (`FailedAtNextStep`): every failed run stopped at its next step, which is failed, or
  still "running" with all attempts used up.  The lost lease of the last attempt is the only way to a
  failed run without a failed step, and naming the next step in the retry always helps.

*Assumptions.*  There is at least one step, not all steps are optional, approvals read results of
earlier steps, executors read results of earlier steps that are neither approvals nor optional,
there is a worker, `NoWorker` and `NoRun` are no names.  TLC evaluates them in every run.

*Argument.*  None of the properties is inductive alone.  The inductive invariant is

    IInv == run \in [Run -> RunRow] /\ AllRows /\ WorkersOK /\ ClaimsOK

`AllRows` says of each row, separately from the others, that its steps are well formed (`StepsOK`:
order, at most the next step open, results exactly where a step has succeeded, approvals with
someone who gave them and with the results they were judged by) and that its status agrees with
them (`StatusOK`).  Order alone would not survive `Restart` or `Approve`: that a succeeded step is
settled tells nothing of results and approvals, and that a waiting step is the next one must be
known when the author decides.  `WorkersOK` types the workers; `ClaimsOK` is the fence.  The proof has a lemma per row transition
(`NewRow`, `ReleasedRow`, `SettledNextRow`, `RestartedRow`, ...), then one step per action
(`RequestRows`, `WorkerRows`, `ClaimsKept`), and each property follows from `IInv`.
`OneWorkerLeft` adds to it that the worker who claims is the one that survives (`ClaimerAlive`).
`Refinement` uses `IInv` to map every action to a step of `RunLifecycle` or to a stutter.
`CancelStands` and `FailureIsNext` are about one row at a time, so every action is first reduced to
what it does to a row (`Turn`, `RowsTurn`).  The invariant of a row (`StopOK`) adds to the second property
that a flagged row neither waits nor succeeds (`FlagOK`), and that a step has attempts left as long as it is
pending, so that a run which is given up when a worker prepares it (`PrepareHopeless`) has a step that was
left running, never one that was not begun.

*Only model-checked:* `Settles` and `Served` (liveness under fairness is out of the prover's
reach), and the two findings, which are counterexamples.  *Proved, in no run:* `CancelStopsWork` and
`FailedAtNextStep`; TLC found them true on the instance of `workflow_workers` before they were proved.

## 7. The canon model

`Canon.tla` models the rows of one project that decide what its story is: the Story Bible with its
version snapshots (`story_bible_service.py`), drafts with their patches (`generation_service.py`)
and chapters (`manuscript_service.py`), and the repository methods that write them.

| Model | Code |
|---|---|
| `db.version`, `db.canon`, `db.saved` | `story_bibles` and `story_bible_versions`; the bible is abstracted to the sequence of what entered it, a draft's patch or an `Edit` |
| `db.draft[d]`, `db.home[d]` | status and `chapter_id` of a row of `generation_results` |
| `db.patch[d]`, `db.base[d]` | status and `base_bible_version` of its canon patch, one for each draft |
| `db.chapter[c]` | payload of a chapter, and the columns `draft_id`, `accepted_draft_id` that `get_by_draft` selects on |
| `view[a]` | the snapshot an open session reads, or `NoView` |
| `Write`, `Revise`, `ReviseByHand`, `Reject` | `write`, `revise_draft` (and `revise_from_issue`), `manually_revise_draft`, `reject_draft`, each with the attachment to its chapter |
| `Accept`, `EditBible` | `accept_patch`; the methods that add or resolve an entry of the bible |
| `CreateChapter`, `UpdateChapter`, `ReorderChapters` | the chapter operations of `ManuscriptService` |

Decisions that need a word:

* **A session is two actions.**  `Begin` is its first query, which fixes the snapshot of MySQL's
  REPEATABLE READ; the operation is its flush and commit.  Between them an agent may write for
  minutes.  `Rollback` is every failure: an exception, a refused guard, a lost connection.
* **Two ways to write.**  `JsonRepository.update` (`R` 246-261) replaces a row by what the session
  computed from its snapshot, without a condition.  `update_versioned` replaces the bible only while
  the version is the one read (`IsCurrent`).  Guards therefore read `view[a]`; `db` is read only by
  the compare-and-set, by the unique constraints and by the statements that leave a value alone.
* **Columns and payload.**  A flush replaces the payload, and those columns whose value the session
  changed (`Flushed`).  The unique constraints on the columns refuse a commit (`UniqueColumns`); the
  one on (bible, version) follows from the compare-and-set.
* **Statuses of chapters** are two: the code treats planned like drafting and completed like
  accepted.
* Left out: volumes, titles, positions and the guards of archived volumes (they only refuse), the
  content of drafts and their objects, plot plans, issues and risks, the automatic memory extraction
  after an acceptance (it belongs to `Memory`).

`CanonLog.tla` is what the author is promised: one log, edits are appended, and a draft enters
directly after the version it was written against, hence at most once.

| Run | Instance | Question | States |
|---|---|---|---|
| `canon_serial` | 1 session, 3 drafts, 2 chapters, 1 edit | do the rows that an operation writes one by one agree, whatever came before? | about 137 000 |
| `canon_sessions` | 2 sessions, 2 drafts, 1 chapter, no edit | what survives two sessions that write back stale rows? | about 279 000 |
| `canon_export` | 2 sessions, 2 drafts, 1 chapter | does the exported version survive them too? (no) | violation |

*Why the bounds are enough.*  Three drafts are an accepted one, a revision of it and a stranger; two
chapters compete for a draft and swap accepted versions.  `MaxEdits` bounds the only operation that
could be repeated for ever; one edit makes a base version stale without an acceptance.  With two
sessions the edit is left out: two acceptances race for the same version in the same way, and
`EditBible` has the same guard and writes less.  `HistoryNeverLost` and `Refinement` are proved for
any number of edits.  Deadlock is not checked: all drafts may be used up.

*What the properties say.*  With any number of sessions:

* `HistoryKept`: the snapshots are a history without gaps or lost updates, ending in the bible.
* `AcceptedInCanon`: nothing is shown as accepted or exported that did not enter the canon; a stale
  write can take an acceptance back, but cannot make one.
* `ImplementsCanonLog`: refinement of `CanonLog`.

With one session after the other:

* `DecisionsAgree`: draft, patch, canon and export tell the same decision.
* `ColumnsAgree`: a chapter is found by what its payload shows.
* `DecidedOnce`: an accepted or rejected patch stays so.
* `ExportKept`: a chapter's accepted version gives way only to another accepted draft.

*Finding 3: a stale session undoes an acceptance.*  `docs/roadmap-0.5.0.md:52` promises that a new
draft does not replace the accepted version that is exported, and `generation_service.py:396`
refuses to reject an accepted draft.  A rejection or a revision that read the draft and its chapter
before `accept_patch` committed writes them back after it: the draft is rejected or superseded, the
chapter's accepted version is gone, and the bible keeps what the draft brought into it.  The four
properties of one session are broken by two in this way; `canon_export` shows it for `ExportKept`.

*Proofs.*  `CanonProofs.tla` proves, for any sets of sessions, drafts and chapters and any bound on
edits, `TypeCorrect`, `HistoryNeverLost`, `OnlyCanonAccepted` and `Refinement`.  The assumptions are
that `NoDraft`, `NoChapter` and `Edit` are no identifiers, and that `MaxEdits` is a natural number.
None of the properties is inductive, because operations write what a snapshot says.  The invariant

    IInv == Sound(db) /\ every open snapshot is Sound and Older than db

says of the committed database and of each snapshot that it satisfies the properties (`Sound`, which
is about a database, not about a state), and that a snapshot is an earlier database (`Older`: its
version is not greater, equal versions have equal canons, what had entered the canon has still
entered it, base versions stay).  The first part lets a session trust its snapshot; the second lets
what it concluded hold when it writes.  One lemma per operation shows that the new database is sound
and that the old one is older (`Advanced`); since `Older` is transitive, all snapshots stay older.
The same lemmas give the step of `CanonLog` to which an operation maps.

What `CanonLog` promises is then carried back to the bible.  `DraftsEnterOnBase` proves
`EnteredOnBase`: a draft stands in the canon at the version it was written against and therefore
once, so a chapter never enters behind something its writer was not given.  `EntriesNeverRewritten`
proves `NeverRewritten`: no session moves an entry or changes a base version once given.  Finding 3
takes an acceptance back in the rows of a draft and a chapter; these two say that it cannot reach the
canon itself.  They follow from the step of `CanonLog` (`StepLogged`), by the two ways in which a log
grows (`AppendedOnBase`, `ProposedOnBase`); that a base version is given once is what `Propose` asks for.

For sessions that follow one another (`OneSession`) it proves `DecisionsRecorded`, `ColumnsFollow`,
`PatchesDecidedOnce` and `ExportsKept`, the four properties that two sessions break.  There the
invariant is `SerialInv`: what an open session reads is what is committed (`UpToDate`), and the
committed database agrees with itself (`Agree`).  `Agree` is what `DecisionsAgree` and `ColumnsAgree`
say, and that a draft or a chapter that does not exist has no patch and no accepted version, without
which the first write to it could decide something a second time.  That an exported draft is
accepted need not be in it: it has entered the canon whatever sessions do (`AcceptedInCanon`), and
what has entered it is accepted.

No fairness is assumed: nothing here must happen, it is the author who decides.

## 8. The services

Seven modules, one for each service around the workflow and the canon.  They call each other only
through what their constants stand for, and each has rows and objects of its own (`Backup` looks at all
of them from further away, as rows of a project, its owner and its objects; a deletion that ends a
project is in `Ingest` and `Backup`, and `Memory` is about a project that stays).  One store is
shared: the Milvus collection of a project holds the vectors of its memories and those of its documents
and notes.  The model divides it by `source_type`, `vectors` of `Memory` and `indexed` of `Ingest`, and
the two operations that write both halves are in both modules, each with what it does to that half:
`vector rebuild` (`ClearVectors` and `LoadVectors`, `ClearIndex` and `LoadIndex`) and the deletion of a
project (`ClearVectors` and `Fail`, `DeleteVectors`).  No property relates the halves.  So the modules share
no variable, `MCServices.tla` lets every behaviour be about one of them (`subject`), and the state space
is the sum of theirs.  The run `services` (about 1 000 000 states) checks the properties of all seven.

### Memory

`Memory.tla` is `memory_service.py`: rows of `memory_records` with the counter of
`project_memory_states` in MySQL, a vector for each row in Milvus, search results in Redis.

| Model | Code |
|---|---|
| `memory` | what is committed: rows, revision |
| `vectors` | ids with a vector; changes at once and does not roll back |
| `cache` | what Redis answers for one query: results and the revision in the key |
| `tx[s]` | a session: its snapshot (`seen`), what it sees with its own changes (`work`), the revision, vectors it made and deleted, whether it holds the revision's row |
| `Extract`, `Bump`, `Commit`, `Fail` | `extract_accepted_draft`: rows, vectors, superseded rows; then the revision; then the end of the session |
| `WipeVectors`, `DeleteRows` | `rebuild`, before it extracts draft by draft |
| `Invalidate`, `FillCache` | `invalidate`; `search` with `set_json` |
| `ClearVectors`, `LoadVectors` | `vector rebuild` of the command line: a delete of all vectors of the project, then an upsert of the active memories it read (`cli.py:845`, 889-931) |
| `lost`, `cleared` | history: vectors a session deleted and failed; vectors that fell to a rebuild of the whole index and have not been put back |

Reads see the snapshot; `SELECT ... FOR UPDATE` and writes see what is committed, and wait for
sessions that hold the rows.  A draft stands for its canon version, ids for creation times.

* `CacheFresh`: what the cache holds under the current revision is in effect.  It depends on the
  revision being read with the rows and bumped under a lock to the end of the transaction.
* `Indexed`: an active row has its vector, except where a session deleted it first and failed, or a
  `vector rebuild` cleared it without having read the row.  The second exception is a limit of the code:
  an extraction or a rebuild of the memory that has written its vectors and commits after the
  other's read loses them, and nothing says so until the index is rebuilt again.
* `RebuildHeals`: a rebuild of the memory that commits leaves no active row without a vector, whatever
  was lost before and whichever memories are written meanwhile, except what an overlapping
  `vector rebuild` cleared after the rebuild had written it.
* `SupersededByNewer` (run `memory_order`) is broken, finding 4.

*Proofs.*  `StorageProofs.tla` proves `CacheNeverStale` (`CacheFresh`) for any sets of sessions, facts
and queries and any bounds, from the assumption `MemoryBounds` that the bounds are natural numbers
and the facts finitely many.
`CacheFresh` is not inductive: what a search is about to put into the cache is nowhere in it.  The
invariant adds, for each session, when it read (`Dated`): one that has not bumped the revision has
rows that are the committed ones if its revision is still the committed one, and one that has will
commit a greater revision.  At most one session is of the second kind (`OneLock`), since it holds the
row of the revision, and nobody changes rows without bumping first (`Disciplined`).  So an entry
that is as new as the memory was computed from the rows that are committed (`CacheDated`).

From the same assumption it proves `IndexIsComplete` (`Indexed`), `RebuildsHeal` (`RebuildHeals`) and
`MemoryWellFormed` (`MemoryTypeOK`).  `Indexed` speaks of committed rows, so the invariant must know of
each session what its commit will bring (`TracksIndex`): the new rows that are in effect have their
vectors, the rows it changed are no longer in effect, and what it deleted from the index is among
these, or it has wiped all rows out.  Vectors are changed before the commit, where others can take
them away.  One by one nobody does, because the ids of new rows, and those a failing session would take
back, are known to no other session (`IndexOK`).  All at once `vector rebuild` does, so the invariant is
about what is `Covered`: in the index, or cleared by such a rebuild; clearing moves ids from the one
to the other (`ClearsTracked`), and loading takes only those out that it puts back (`LoadsTracked`).
`RebuildsHeal` follows at the commit: after a wipe only new rows are left.

`RebuildsRestoreOrder` proves `RebuildRestoresOrder`, the other side of finding 4: whatever order memories
were extracted in, once a rebuild commits every row that gave way did so to a later draft.  The invariant
says of a session that wiped the rows that what it has extracted so far is in order and older than all
drafts it still has to do (`InOrder`), which needs nothing of other sessions: they cannot write what it sees.

### Ingest

`Ingest.tla` is what brings texts into a project: `document_service.py`, the storing half of
`research_service.py`, `vector rebuild` of the command line, and the deletion of the project that
takes them away.

`rows` is what is committed, `objects` are keys in MinIO, `indexed` what has vectors, `request[r]`
a session with what its code remembers: `uploaded` (`put`), `indexed_ids` (`ids`), the rows it read.
Each call of a store is an action; an exception is `FailUpload`, `FailFetch`, `FailResearch`,
`FailDelete`, `FailRebuild`, each doing what the except clause there does; `RollBack` is a failure
after `ingest_bytes` returned; `Crash` compensates nothing.  A removal that fails is passed over,
as in the code.  A call may also raise when the store has applied it, or a part of it (`"reply"` in `Fault`,
`Unanswered`): a put whose key is then not in `uploaded` (`document_service.py:88-91`,
`research_service.py:139-144`), an upsert whose ids are not in `indexed_ids` (`research_service.py:254-255`).

* `ObjectsKept`: committed rows have their objects.  Two uploads of one content write the same keys;
  the row's unique key, inserted before the objects, is all that keeps the compensation of one from
  removing the other's.
* `Searchable`: committed rows have their vectors, apart from what a rebuild overtook.  The
  exceptions in the formula are themselves limits of the code: an upload that commits while the
  index is rebuilt may lose its vectors.
* `NoLeftovers` (run `ingest_leftovers`) is broken, finding 5.

*Proofs.*  `StorageProofs.tla` proves `ObjectsStay` and `CommittedIsSearchable`, and that everything is
well formed, for any contents, documents, notes, requests and bounds.  What a compensation removes
must not be committed, which has to be known of every session before it fails.  `IngestInv` says of
each session (`Fits`) that the content it inserts is in no committed row, which the unique key ensures, that
it has put the objects its step says, and that what it read is still there while the project is; and
of two sessions that they insert different contents and hold different notes (`Apart`).  With keys
that differ for different contents and notes (`KeysDiffer`) a compensation spares what the others have
put (`Spares`).  For the index it says that what is committed, or about to be, has its vectors, or lost
them to a rebuild that did not list it, or was listed by one that will load it again (`InIndex`).

`LeftoversComeFrom` proves `LeftoversKnown`, which bounds finding 5.  A stray object or vector is one that
neither a row nor an open session knows of (`StrayObjects`, `StrayVectors`).  The theorem lists the steps
that can make one: a session that ends without compensation (rolled back after its last write, crashed) or
deletes its project by rows read earlier, a fetch that raises, a removal that fails, an upload that fails
with its chunks already indexed, a put or an upsert that raises although it was applied, a rebuild that
loads the index of a project which is gone.  Every other step, and so the compensations as they are
meant, leaves nothing.  Each action is shown to pass on, remove or commit what was
pending in its session (`NoObjectLeft`, `NoVectorLeft`); the invariant adds that an upload has a text and
that a research session remembers all it gave to the index (`Carries`).

### Research

`Research.tla` is the outside half of research: queries to the search engine, the synthesis by a
model (whose answer the code discards, since it is a string), pages through redirects, corroboration
across hosts, embedding in batches.  `job` is the call under way with its attempt, its redirects and
the address it is at; each client has its own attempts (`RetrySearch`, `RetryPage`, ...).

* `CorroborationIndependent`: notes confirm each other only if their evidence was read from
  different hosts, after all redirects.  An evidence snippet carries the page it was read from, so
  that the property does not trust the address in the note.
* `VectorsOfTexts`: whatever the batches, retries and order of the answers, the n-th vector is that
  of the n-th text.

*Proofs.*  `AgentProofs.tla` proves both (`NotesConfirmEachOther`, `VectorsInOrder`) for any pages, hosts,
snippets and bounds, from `ResearchBounds`: at least one text fits a batch, there are finitely many
snippets.  The invariant adds that the evidence of a note is from the page whose address the note
has, whatever redirects led there (`FromItsPage`), so that comparing the addresses of two notes
compares the hosts of their evidence; that no note is marked before all are read; and that the
vectors received so far are those of the texts before the batch in hand.  An answer that covers
the batch is a permutation, and sorting it by index gives the batch (`PlacedIsBatch`).

### Context

`Context.tla` is the assembly of a prompt (`context_manager.py`, `_rag_context`): matches sorted
by rank and score, filtered, deduplicated, taken within a budget; then the sections within the same
budget.  Texts are elements of a small set with a length.

* `PromptFits`: the prompt keeps to the budget with its headers and blank lines, and no section is
  cut while one after it is kept.
* `NothingHidden`: a retrieval that does not say it was truncated left nothing usable out.

*Proofs.*  `AgentProofs.tla` proves both (`BudgetIsKept`, `TruncationIsFlagged`) for any texts, lengths,
ranks, groups and budgets that satisfy `ContextBounds`.  What is taken is a sum over the fragments; that it
grows by exactly what a match adds is the step of an induction over the last position of a sequence
(`SumTakenOfOneMore`).  The prompt is a fold over the sections: its step keeps that the characters
used are the sum of the texts so far with their blank lines, that they are within the budget, and
that only whole sections come before one that is kept (`AssembledStep`).

### Review

`Review.tla` is what a chapter's run carries from step to step (the plan, the option chosen, the
draft, the counts of its issues) while its author selects options, revises, accepts and rejects
through the API and closes issues.  `chapter` has the results and the parameter that a retry keeps
or drops (`Reset`); rows are `plans`, `drafts`, `issues`.  How steps are claimed is in `Workflow`, how
rows of overlapping sessions mix in `Canon`: here every transaction is one action.

* `WrittenAsChosen`: the draft a run carries was written from its plan with the option chosen for
  that plan; the gate judged the issues of this draft; a finished run put this draft into canon.  A
  retry from the plan keeps the old option, which then fails every attempt to write until another
  option is chosen: the run is stuck, but never writes with a stale option.

*Proofs.*  `AgentProofs.tla` proves `DraftIsTheChosenOne` (`WrittenAsChosen`) and `ReviewWellFormed` for any
numbers of plans, drafts, options and issues.  The invariant says that the ids of plans and drafts are
1 .. n, so that a new row is no old one (`Numbered`); which results a run has by its step, and so
what a retry leaves of them (`RunOK`); that the draft of the run names the plan and the option of the
run, and has no issues before they are counted (`DraftOK`); and that issues are of drafts that exist.

### Auth

`Auth.tla` is the accounts of the auth service: codes sent and used, registration, verification and
addition of contacts, bootstrap of the local account.  A request (`call[r]`) is a sequence of
statements that commit one by one, so that any two requests interleave between them; the use of
a code is a lock (`UseCode`, or `LockCode` after `ReadContact`) and an update (`ConsumeCode`) in one
transaction.  `Register` stores both contacts of the request and counts the one of the chosen method
as verified (`NewAccount`, `Besides`).  The rate limit is left out: any time may pass between requests.

* `SpentOnce`: a code is accepted once, and only the last one sent to a contact for a purpose.
* `ContactProven`: a contact shown as verified is one that a code came back from, also when another
  request replaced it between the read of the contact and the mark, and although a registration
  stores a second contact that nobody verified.
* `BootstrapDone`: a bootstrap that reports success leaves an account with one initial balance and a
  verified contact.  It does not say that this is the email.  `BootstrapLocalUser` "creates a verified
  local email account" (`auth_service.go:81`), but its second search (`auth_service.go:119-132`) does not
  look at `email_verified`: when a registration by phone that carries the same email is inserted between
  the two searches, success is returned for an account whose email is not verified.  TLC reaches
  that state in the run; the next bootstrap finds the account and marks the email.

*Proofs.*  `AuthProofs.tla` proves all three (`CodesSpentOnce`, `ContactsAreProven`, `BootstrapIsDone`) and
`AccountsWellFormed`, for any requests, contacts and codes, from `AuthBounds`: there can be an account.
`SpentOnce` is about a history (`spent`): between `LockCode` and `ConsumeCode` a request trusts a row
it has read.  The invariant says that the row is locked by this request alone, fits it and was not
used (`LocksHeld`), that what was accepted is marked as used (`SpentIsUsed`), and that of the codes of one
contact and purpose only the last can be live (`LatestLive`).  For the contacts it says what a request
knows of the account it is about to mark, since another one may change the contact in between: it still
has the contact, or one that was proven (`Contacting`); for the bootstrap, that who finds no account
can later only find one with a verified contact (`Bootstrapping`).  Both rest on what an account may become
(`Grown`): a new one has a verified contact, and an old one changes a contact only for a proven one.

### Backup

`Backup.tla` is `ops_service.py` against services that go on writing: three dumps in their order,
then the bucket; a restore loads them and can be run again.

* `ArchiveClosed`: every project in the archive has its owner and its objects there, because what
  refers is dumped before what is referred to.  The objects of a project whose deletion began while
  the backup ran (`touched`) may be missing.
* `RestoreClosed`: so has everything after a restore, also after an interrupted one.

*Proofs.*  `StorageProofs.tla` proves both (`ArchiveIsClosed`, `RestoreIsClosed`) for any sets of users
and projects, without assumptions.  The invariant says where a reference of a dumped row is to be
found in each phase: in the archive if that part has been dumped, otherwise still in the live store
(`ArchiveSoFar`); this holds because owners are never removed and a deletion that takes objects away
marks the project as touched (`LiveClosed`).  A restore then repeats the argument part by part
(`RestoredSoFar`), which a restart only sets back.

### Side by side

`ServicesProofs.tla` proves `ServicesAreEach`: a behaviour of `MCServices` is one of every service, since a
step of one leaves the variables of the others alone.  So each theorem of this section, proved of a
service alone, is one about what the run `services` checks.  `ServicesWellFormed` proves
`ServicesTypeOK` in this way, from the type theorems of the services.

`RebuildRestoresOrder` and `LeftoversKnown` are in no run of this directory.  TLC found them true before
they were proved: the first with one session on 2 749 007 states (3 rows, 4 revisions) and with two on
18 574 947 (2 rows, 3 revisions; there without the bound on writers below, and with all invariants of `Memory`),
the second with two sessions, two documents and one note, on 344 436 states with crashes, failing
removals and lost replies, and on 264 992 without.

### Bounds

| Module | Instance | Why it is enough |
|---|---|---|
| `Memory` | 2 sessions, 2 drafts, 2 values of one fact, 2 rows, 3 revisions; who writes begins before the second revision (`EarlyWriters`) | a row and the one that contradicts it; a slow and a fast session; three revisions are an extraction that commits and a rebuild that extracts again over its rows, or two changes and one that overlaps with both; the theorems are for any number of them, and without `EarlyWriters` |
| `Ingest` | 2 sessions, 1 content, 2 documents, 1 note, crashes, failing removals and lost replies | two uploads of the same keys are the only way documents meet; a deletion or a rebuild is the second session |
| `Research` | 2 queries, 2 results, 4 pages on 3 hosts (one never reached), 2 snippets, 1 retry, 1 redirect, batches of 2 | two notes on one host, on two, and led to one by a redirect; more texts than a batch |
| `Context` | 3 matches, 2 texts, 2 hashes, 12 characters | a duplicate by hash, one by text, a text that is cut and one without room |
| `Review` | 2 plans, 2 options, 2 drafts, 1 kind of issue | a stale plan and a stale draft |
| `Auth` | 2 requests, 2 emails, 1 phone, 2 accounts, 2 codes, of both together at most 3 (`FewAccounts`) | a code and the one that replaces it; two requests that race; an email that replaces another while it is verified; a registration by phone that carries the email of a bootstrap |
| `Backup` | 2 users, 2 projects | one before and one after a dump |

`Ingest` has no weak note and `Memory` no memory of a kind without state in this instance.
Symmetric sets are exchanged (`Symmetry`), those of actors independently of those of things: no property
names one of their elements, and the one temporal property is an action property.  Deadlock is not checked: bounds use up identifiers.

*Finding 4: an older draft overrides a newer one.*  `README.md:507-508` promises that a stateful
memory is invalidated when newer canon covers it.  `extract_accepted_draft` does not compare canon
versions: if the extraction of an older draft comes after that of a newer one (a `memory_extract`
that was retried, a command run by hand), the older value stays and the newer is invalidated.
A rebuild goes through the drafts in the order of their creation.

*Finding 5: leftovers nobody knows of.*  `README.md:55-56` promises that no untraceable half-finished
record is left.  The compensation of `ingest_bytes` covers what fails inside it.  What follows in
the same session is not covered: when `analyze_style` raises after the upload (`api.py:482`), the
rows are rolled back and the objects and vectors stay.  The run needs no fault of a store for it.

## 9. Billing

`Billing.tla` is the billing service (Go) with both of its reporters.  `usage`, `bills`, `initial`
and `recharges` are its tables; `stream`, `delivered`, `acked` the Redis stream and its consumer group;
`consumer` the loop of `usage_consumer.go`; `client[i]`, `audit[i]`, `posted` an invocation in
`AgentRunService.execute`, its row in `agent_runs`, and its HTTP requests under way.

| Model | Code |
|---|---|
| `RecordUsage` | `billing_repo.go`: record and bill in one transaction, nothing for a known `event_id` |
| `ReadPending`, `ReadNew`, `ProcessMessage`, `FailMessage`, `Acknowledge`, `FailAcknowledge` | `consumeLoop`, `readMessages`, `processMessages` |
| `CheckFirst`, `CheckSecond`, `CheckFails` | `ensure_available_balance`, whose answer is two queries of `GetBalance` |
| `AddRun`, `OperationFails`, `OperationSucceeds` | the audit row |
| `PostUsage`, `HandleUsage`, `HandleFails`, `PostTimesOut` | `record_usage` and its handler: an attempt may be handled after the client gave it up |
| `BackendDies`, `RestartConsumer` | crashes |

`Ledger.tla` is what is promised of an account: a charge for each event, once; one initial balance;
the administrator's recharges.  The run `billing` (about 183 000 states; one account, two
invocations of two attempts, three messages of which one is malformed, batches of two, two months,
one crash) checks:

* `ImplementsLedger`: refinement of `Ledger`, with the balance that `GetBalance` computes.
* `AcknowledgedIsRecorded`: nothing that was acknowledged is lost.
* `ChargedForSuccess`: only invocations that are stored as succeeded are charged.
* `StartsFunded`: no invocation starts on an empty account.  The two queries see different moments;
  it holds because recharges are read before bills, both of which only grow.  Several invocations may
  start on the same last cent: the code does not reserve.
* `Drained`: with fewer malformed messages than a batch holds, every other message is recorded and
  acknowledged at last.  With a full batch of malformed ones nothing behind them is retried: the
  condition in the property is the limit of the code.

*Fairness.*  The loop goes on (`WF` of the reads and of the failure of a message, which is always
possible while one is in hand), and a message that is handed out again and again succeeds at some
time, as does its acknowledgement (`SF`): MySQL and Redis are not down for ever.  Nothing is assumed
of publishers, the backend or restarts.  In `MCBilling` a behaviour is about the stream or about the
reports; they meet in one table, by disjoint keys.

*Proofs.*  `BillingProofs.tla` proves `BillingWellFormed`, `AcknowledgedAreRecorded`, `SuccessIsCharged`,
`BillsAreTheRecords`, `BillingImplementsLedger` and `ChecksFundAStart`, for any accounts, invocations, messages, prices and
bounds, from `BillingBounds` (among others: the months are finitely many, there is one to begin with).
The invariant says of the stream that no message is in it twice and that the loop holds, and
acknowledges, only what was delivered (`LoopOK`); that an invocation is reported, or has a request
under way, only if its row says "succeeded" (`Reporting`); and of a balance check between its two queries
that the recharges it has read can only have grown.

A balance is a sum over the months, written with a fold, and a fold is a `CHOOSE` of a function on all
subsets.  `FoldTheorems.tla` shows that this function exists, by an induction over the number of
elements that is stated for a set instead of a predicate (`NumberByNumber`, `FoldExists`), that sums of
natural numbers are natural numbers and agree when their terms do (`SumsAreNat`, `SameSums`).  Then a
bill that grows by a price makes the sum grow by that price (`TotalMoves`), which is the step of
the refinement: recording an event is a charge in `Ledger`, recording it again a stutter.

`BillsAreTheRecords` proves `BillsAddUp` (in no run): the two tables that one transaction writes never part.  The bills
of an account, spread over the months, add up to the prices of its recorded events, however often a
report was repeated and in whichever month it came.  It needs that the sum over the records of an
account grows by one price when one record is added (`SumOfOneMore`), and that the records are finitely many.

## 10. Not proved, not modelled

*Only model-checked:* the liveness properties, `Settles` and `Served` of section 4 and `Drained` of section
9, which the prover cannot reach, and the counterexamples of the five findings.  All other
properties of the passing runs are theorems.

*Not modelled, and why.*

* The web front end, the rendering of exports, prompts and the parsing of a writing agent's answer:
  they keep no state that others rely on.
* `originality.py` and the chunking of documents: functions of one text, which unit tests reach.
* Volumes, titles and positions; memory conflicts; project settings; profiles, passwords and tokens
  of accounts: single statements on single rows.
* The creation guards of a run, and the deletion of a project under a worker (section 3).
* The event loop of the API process, in which synchronous database calls block other handlers.

*Known limits of the code that no property states,* since nothing promises otherwise: the
credibility of a note is that of the address searched, also when it was redirected; the preview
of a draft that was rejected stays in the vectors until they are rebuilt; fact risks are not checked
again after an automatic revision; a bill goes into the month in which the report is handled; a
usage whose backend died before it reported is not billed; a verification code is used up also
when the insert of the account fails.  Three limits are written into properties as exceptions, since
they are the most the code keeps: what a `vector rebuild` did not list stays without vectors (`Searchable`,
`Indexed`, `RebuildHeals`); a bootstrap may report success for an email that is not verified
(`BootstrapDone`); the objects of a project whose deletion began during a backup may be missing
(`ArchiveClosed`).
