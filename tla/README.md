# AURELIX: formal models of the runtime and of what it governs

TLA+ modules for AURELIX (`src/src/aurelix_runtime`, `src/src/aurelix_core`), TLC
configurations that check them on small instances, and TLAPS proofs, for every size, of
the job store, its loops and supervised workers, experiments, engines, autonomy, governed
actions and economic lessons. `PROJECT.json`
lists the runs, what each definition models (file and lines), the hazards, the mutants
that show each property can fail, and the theorems. Paths below are relative to
`src/src/aurelix_runtime` (`runtime:`) or `src/src/aurelix_core` (`core:`).

## The system

AURELIX is a Python program of one or more *processes* that share a SQLite file. A
process takes jobs from the file, runs handlers and records results; its HTTP threads
act on the same file and on registries in the memory of the process.

| Part | State | Operations | Interacts with |
|---|---|---|---|
| Durable store (`runtime:persistence.py`) | tables jobs, job_results, audit_events, runtime_state | enqueue, claim, claim_next, heartbeat, complete, finish, record_result, recover_running_jobs | everything below, by calls |
| Worker loop (`runtime:runtime.py`) | the claimed job, a heartbeat thread | run_once, serve_forever, start-up recovery | store; handlers by callback |
| Job queue, supervised workers (`job_queue.py`, `job_runner.py`, `supervised_worker.py`, `service.py`) | credentials of a claim, or read from rows | enqueue, execute, run_once, recover_running, stop | store, autonomy fabric, pipeline |
| System and server (`system.py`, `scheduler.py`, `core:server.py`) | `_started`, the stop event, next run of each schedule, a thread per lifespan | start, stop, tick, run_forever, lifespan | runtime |
| Enterprise loop, experiments (`enterprise_loop.py`, `experiment_runner.py`, `integrated_engines.py`) | tables experiments and observations, a context per experiment, an EngineStore in memory and on disk | run, submit_experiment, the collector, continue_after_experiment | store (jobs), its own worker |
| Engines (`integrated_engines.py`, `knowledge_store.py`, `research_knowledge.py`, `pipeline_runner.py`, `provenance.py`, `core:intelligence_flow.py`) | three dictionaries per EngineStore, the table knowledge_items, a ledger | record, load, research_to_experiment, execute_experiment, run | database; HTTP threads |
| Autonomy fabric (`autonomy_fabric.py`, `message_fabric.py`, `core:adaptive_loop.py`, `core:continuous_intelligence.py`, ...) | missions, gaps, objectives, evidence, evaluations, capabilities; delivered keys | run_claimed, escalate, evaluate, validate_learning, resume_ready, publish | store, engines |
| Governance (`core:control_plane.py`, `governor.py`, `budget.py`, `circuit_breaker.py`, `execution.py`, `approval_workflow.py`) | amount spent, breaker, pending and decided approvals | authorize, run, consume, submit, approve, reject | everything that acts |
| Economy (`core:opportunity_*_bridge.py`, `evidence.py`, `revenue.py`; `revenue_portfolio.py`, `economic_feedback.py`, `economic_academy_bridge.py`) | evidence, sources, ledger; portfolio, lessons, credit of experiments | qualify, execute, record; add, approve, activate, replace, publish | governance, enterprise loop |
| Economic outcomes, system cycle (`core:economic_attribution.py`, `verified_economic_learning.py`, `system_orchestrator.py`) | in memory: a ledger by external reference, the emitted signals, the lessons | record_verified_economic_outcome, run_cycle | HTTP threads; the loop, by cycle jobs |
| Self-improvement (`self_improvement.py`, `system_diagnostics.py`, `system_validation.py`, `system_developer.py`, `recovery.py`, `learning_feedback.py`) | the approved plan, reports | diagnose, plan, approve, execute_and_verify | everything it diagnoses; a repository adapter |
| Everything else | texts, HTTP, views | see the components in `PROJECT.json` | |

What is hard: several processes interleave on the tables, and only some operations
are one transaction; a lease may pass while its owner still works, so that a job is
recovered and claimed again under a worker that does not know; processes die between
any two steps and are restarted; recovery runs only at a start; copies of rows, of
credentials and of whole dictionaries are read in one place and written or presented
in another; shared registries (budget, breaker, approvals, ledger, sources) are
checked in one step and changed in a later one, with the operation in between; the
server's thread outlives the lifespan that started it.

What makes each part correct:

* *store*: a job goes absent, queued, running, terminal, back only from running
  to queued; one durable result at most, and one when it is terminal; stale
  credentials change nothing;
* *loops, queue, supervised workers*: no running job that nobody works on, a budget of
  attempts that is neither exceeded nor cut short, success only with a handler's
  result, every job ends; a supervised worker touches only its own attempt;
* *server*: what comes due is queued once, and a stopped system goes quiet;
* *experiments*: results rest on recorded measurements, opportunities come from
  passed experiments, closed cycles were decided;
* *engines*: what is durable rests on what it was made from, nothing learnt is
  forgotten by a restart, first results stay, a lineage is complete;
* *autonomy*: missions that lack a capability wait for it, completion is announced after
  it is durable;
* *governance*: failures, spending and approvals stay within bounds that concurrency
  widens by one call for each other caller, and no more;
* *economy*: revenue and productivity are recorded, never estimated, and belong to
  sources an owner authorised; a replaced source stays retired;
* *economic outcomes*: every entry of the ledger becomes a lesson, and once;
* *self-improvement*: what is audited was applied as a whole, what is learnt as
  verified was approved, audited and tested.

## Modules

    JobTable             the rows and one action per transaction
      RuntimeStore       any calls, in any order, with the credentials their callers hold
                         (implements JobLifecycle, the abstract contract)
      RuntimeWorkers     the run_once loops            (implements RuntimeStore)
      JobQueue           PersistentJobQueue.execute
        SupervisedWorkers  run_once of the supervised service, beside execute
                                                       (implements JobLifecycle)
    SystemLifecycle      the server's lifespans, the threads of the loop, the schedule
    ExperimentCycle      proposal, measurement, continuation of an experiment
    EngineFlows          cycles, requests and pipelines through the engines
    CapabilityLearning   gaps, study, evaluation, capabilities
      AutonomyMission    run_claimed over the jobs of one process and others
    GovernedExecution    control plane, budget, breaker, execution, approvals
      OpportunityExecution  evidence, qualification, governed execution for revenue
    RevenuePortfolio     sources, signals, lessons, credit
    EconomicLearning     concurrent outcomes, and the scheduled cycles that learn from them
    SelfImprovement      diagnose, plan, change, verify, learn
    the theorems:
      RuntimeStoreProofs, RuntimeWorkersProofs, SupervisedWorkersProofs,
      ExperimentCycleProofs, EngineFlowsProofs, AutonomyMissionProofs,
      GovernanceProofs, LearningProofs

An indented model EXTENDS the one above it. `GovernanceProofs` is about
`OpportunityExecution` and `LearningProofs` about `EconomicLearning`; the other modules of
theorems extend the module they are named for. Two hold theorems about models that share no
variable with their own: `RuntimeWorkersProofs` those of `SystemLifecycle`, `LearningProofs`
those of `RevenuePortfolio` and `SelfImprovement`. The specifications of these three have names
of their own (`LifecycleSpec`, `PortfolioSpec`, `ImprovementSpec`, and likewise `Init`, `Next`
and `TypeOK`). `MC<Module>` gives definitions of constants and symmetry sets; each `.cfg` gives
the constants.

**JobTable.** `RuntimeStore.lock` serialises the threads of one process, and
database transactions serialise processes. `complete`, `claim`, `claim_next`
and `recover_running_jobs` hold `BEGIN IMMEDIATE` and are one step. `finish`
with `success=False` and `record_result` read the row first and open their
write transaction later: `FinishCheck`/`FinishApply`, `RecordCheck`/
`RecordApply` are two steps, and `call[p]` is the call in between (it also holds
the lock of its process). The number of the attempt stands for the lease token,
a fresh uuid per claim; `lease` counts ticks until the lease has passed;
`before` stands for the order of `created_at`.

**RuntimeStore.** A process keeps the credentials of each claim (`held`) until
it dies, and may use them at any time: late completions, heartbeats and
failures are all steps of this module.

**RuntimeWorkers.** `pc` is the place of a loop in `run_once`; the heartbeat
thread is a flag and an action of its own. `HandlerCompletes` is a claimed handler
(`AutonomyFabric.run_claimed`) that completes its job itself and has work left.
`claims` and `audit` are history: the refinement reads `held` from `claims`.

**JobQueue, SupervisedWorkers.** In `execute` the runner and the exception path read
the row again; `cred` is what they found. In `SupervisedWorker.run_once` `cred` is
what the claim returned. Both run on one table. Recovery is forced when an
administrator passes `stale_after_seconds=0`.

**SystemLifecycle.** `at` is the place of the lifespan and of each thread between the
reads and writes of `_started` and the stop event; `_enqueue_due` holds the schedule's
lock and is one step. A lifespan that ends joins for five seconds and may be followed
by another one while its thread is still busy.

**ExperimentCycle.** Each access to the database is a step. An experiment is
its status and result, the observations on record are the set of their kinds (a number
of the criterion's metric that meets it or not, a number of another metric, a text),
and jobs follow the fence of the store in short form (owner and attempt).
`mem[p]` is the `EngineStore.experiments` of a process and `disk` the copy in
`runtime_state`, written as a whole. `validated` counts the
`opportunity.validated` events.

**EngineFlows.** The composition of aurelix-server: no executor. `mem[l]` is the
`EngineStore` of a process, `disk` its three rows in `runtime_state`, `repository` the
table `knowledge_items`, `table` and `obs` the experiments and observations. `record`
writes one dictionary after another, each in a transaction: every write is a step.
A load merges the row and the repository. A handler's research throws its store away
and keeps only sources and an experiment; `ledger[p]` is the provenance of a pipeline.

**CapabilityLearning, AutonomyMission.** Each registry is a sequence; each call is a
step. `worker` is the place of `run_claimed` in the process that is modelled in detail;
other processes recover, claim and complete the same rows. `delivered` are the kinds
of messages whose keys the fabric has seen.

**GovernedExecution, OpportunityExecution.** `call[t]` is the place of a thread: asked
of the budget, of the breaker, running, charging (`Budget.consume` checks) and paying
(and adds), approving. A sale records its revenue in four steps: read the source,
append to the ledger, total it, write the source back.

**RevenuePortfolio.** An owner's call is a step; a reader looks at one field of one
source at a time, then checks, creates and marks the lesson. `add` takes a source as its
caller made it: `Discovered` as `discover` makes it, or any member of `Brought`, be it
active, approved or paid. The context of an experiment keeps the feedback its cycle
started with. `everApproved`, `broughtActive`, `recorded` (what was recorded, and what
came with a source) and `replaced` are history. Callers who change the attributes of a
source they hold, and `replacement_for`, which nothing reads, are not modelled.

**EconomicLearning.** One server process: `request[q]` is an outcome that its
thread has checked and not yet written; `pc` is the place of the loop in
`run_forever` (`tick` enqueues what is due, `work` runs up to
`max_jobs_per_tick` jobs, `stages` and `report` are the two halves of
`run_cycle` around the lessons). Only jobs survive a crash. A reference is
looked up and written in two steps because nothing locks the ledger; emitting
and recording the lessons is one step because no other thread reads or writes
them, and the list of entries is taken at once.

**SelfImprovement.** `call[e]` is the place of a call of `execute_and_verify` (or of
its parts), `commits[e]` the changes the adapter applied. What the checks read changes
between two steps, `MaxChanges` times.

## Runs

| Run | Instance | Distinct states | Shows |
|---|---|---|---|
| store | 2 processes, 2 jobs, 2 attempts, lease of 1 tick | 143,007 | the contract and the invariants of the store under every interleaving, crash, expiry and recovery |
| workers | 2 loops, 2 jobs, 2 attempts, a crash each | 715,884 | the loops refine the store; no job is abandoned, failed early, stranded or invented; every job ends unless no loop is left or a process crashed |
| queue | 3 processes that call `execute` or `run_once`, 1 job, 3 attempts, forced recovery | 10,487 | the life cycle survives credentials that are read again; a supervised worker touches only its own attempt |
| store_invent | 2 processes, 1 job | violation | see below |
| experiments | 2 processes, 1 experiment, 2 jobs of 2 attempts, 1 crash | 5,164,450 | results measured, opportunities earned, closed cycles decided |
| engines | 2 processes with a loop, 2 requests at a time, 1 pipeline, 2 calls, 2 executions, 2 crashes | 655,369 | knowledge outlives overwrites and restarts, what is durable rests on what it was made from, first results and lineages stay |
| learning | 1 reference, 2 facts, 2 concurrent requests, 3 unfinished cycles, 1 fault, 1 crash | 195,435 | entries become lessons, and once |
| governance | 2 threads, 4 requests, 1 opportunity, 2 sources, limit 3, threshold 2, 6 inputs | 1,481,641 | concurrency widens failures, spending and approvals by one call for each other caller; revenue is in the ledger; only support qualifies |
| portfolio | 3 sources of which 2 at a time, 1 experiment, 3 ways to bring one, 2 readers, 5 inputs, 1 restart | 2,138,193 | signals speak of sources that may be productive and of income that was recorded or brought; replaced sources stay retired |
| autonomy | 2 missions, 2 capabilities, 2 attempts, 1 restart, the registries to the bounds of the cfg | 5,462,165 | missions that lack a capability wait, completion is announced after it is durable |
| lifecycle | 2 threads, ticks of 2 jobs, 2 periods, 1 pending job, 1 fault | 1,019,657 | what is due is queued once, little runs after a stop, a stopped system goes quiet |
| improvement | 2 calls, 11 compositions, 4 change sets, 1 change of what is checked | 357,466 | audited change sets are whole, verified ones were approved and tested |

Why the bounds are enough. A stale credential needs one loss and one later claim: two
processes and two attempts; the third process and attempt of `queue` let a process that
read another's credentials lose them to a third. Two jobs are needed for the order of
`claim_next` and for recoveries that move several rows; jobs do not otherwise touch each
other. A longer lease only adds ticks. In `experiments`, a second job is what a repeated
submission makes of an experiment that is awaiting measurement, a second attempt is a
retry after a loss, and a crash may fall on any step. Observations there are numbers that
meet the criterion, miss it or are of another metric (`Kinds` without `"text"`, which the
evaluation leaves out; no measurement at all is the empty set). `Verdicts` follows
`core:evaluation.py:34` (docstring: "Missing measurements fail closed"): numbers of which none is of
the metric fail, and a mean of good and bad ones may do either. In `engines` texts stand
for all that has no number of the metric. In `learning` references do not touch each
other; two requests and two facts are what an overwrite takes. A lost lease or a crash may leave a cycle running for good, so
one more job than faults and crashes keeps the schedule alive (`LearningAssumption` says
so). In `governance`, a check and its change are one step apart in time and two threads
are all it takes to come between; the costs 1 and 2 against the limit 3 let the budget be
met exactly, missed and overspent, and six inputs are a full run of failures, or a sale
with its evidence. `GovernanceProofs` has its bounds for any number of threads. In
`portfolio`, a replacement needs two sources, and the third (trusted and without a
forecast) is what exceeds its estimate; sources are brought active and paid without an
approval, paused with one, and degraded. In `lifecycle`, two threads are a lifespan and
the one that begins before the first thread has ended. In `engines`, two processes write
over each other, two requests overlap, two calls and two executions are the least in
which one is another's leftover; two crashes fall on any step of both. In `improvement`,
a change set stops in the middle, at its end or at the limit of its length, and the
compositions are the complete one and every one that lacks a part. In `autonomy`, one
mission lacks a capability and one does not.

`CHECK_DEADLOCK` is off: when all jobs have ended, or the bounded inputs are used up,
nothing is left to do.

Fairness, in `workers`, `learning` and `lifecycle` only: a *process* that ended is
started again (`deploy/docker-compose.yml:27`, `restart: unless-stopped`); a loop that
died inside a living server is not, and `JobsSettle` asks nothing once no loop is left,
and nothing of a process that crashed (see the orphaned row below). A loop claims when it
can (`serve_forever` polls), handlers return or raise, and a call of `finish` goes on. In
`learning`, time passes until the schedule is due, and the stages of a cycle end; faults
are finitely many, as their bound says. In `lifecycle`, a thread that can run runs, and
so does the code of a lifespan that is ending. Heartbeats, requests, crashes,
submissions, new lifespans and the passing of a lease are not fair: the heartbeat of a
stalled process may never come.

Each module also states its `TypeOK` (with a prefix, as `SupervisedTypeOK`, where modules meet). The
store's is a property of its run; each is a theorem (that of `JobQueue` as part of the supervised
workers'), and the runs do not repeat them.
`OpenBreakerIsFinal`, `RefusedChargesWereContended`, `ResultIsWriteOnce`, `TerminalIsFinal`,
`OwnershipShape` and `OneOutcomePerReference` are stated for the theorems.

## Where code and documentation differ

`store_invent` is checked as a run (`RecoveryInventsNoSuccess`). `finish(retry=False)` writes its failure
result even when its UPDATE found nothing, as the row was recovered after the check. The
row is claimed again; if that process dies, nobody can complete the row any more, and the
next recovery takes the stored failure for a durable result and completes the job, though
no handler succeeded (`docs/runtime-recovery-invariants.md:10`, "without being treated as
successful", and `:18`, "must not invent success"). If that process lives, the job ends
rightly but keeps the failure as its result (`complete` inserts with `DO NOTHING`), which
the property does not count. The loops do neither (`NoInventedSuccess` holds in
`workers`, because they give up only after the last attempt), `AutonomyFabric.run` may.

Seen in the models while the properties were written; each is a trace of a few steps
that the property of the module excludes or leaves open:

* *Loop.* A handler that fails after its job was recovered makes `finish` raise
  `RuntimeError` out of `run_once`, which ends the loop (`runtime:runtime.py:42`, "24/7
  orchestration loop"). So does a claimed handler that completes its job and then raises,
  without any lost lease. In the server the loop is a daemon thread, and nothing starts it
  again: `JobsSettle` therefore excepts `NoLoopLeft`.
* *Orphan.* A process restarted before the lease of its predecessor has passed does not
  recover the row, and nothing else does until the next start: `JobsSettle` excepts crashes.
* *Experiments.* The process that proposed an experiment, and any process that loaded the
  proposal from disk, reports `awaiting_measurement` for a measured experiment, and the
  cycle does not go on ("Resume a durable enterprise cycle after real experiment
  completion, once"); a crash between the opportunity and the closing of the context
  repeats the opportunity.
* *Outcomes.* Two concurrent requests with one reference both find no entry; the second
  overwrites the first, and both may be learned.
* *Portfolio.* `replace` activates the replacement without looking for its connector
  (`core:revenue_portfolio.py:4`, "only when their real connector ... exist"); approving,
  activating or choosing a retired source as a replacement brings it back, which
  `ReplacedIsRetired` excepts (`replaced` forgets it). `add` takes a source that is already
  active, with income and without approval or connector; its caller answers for it, and
  `ProductiveIsAuthorized` and `IncomeIsRecorded` except it (`broughtActive`, `recorded`).
* *Server.* `stop` returns early while the thread has not yet set `_started`; the join
  then waits five seconds in vain and the loop runs on after the lifespan
  (`core:server.py:133`, "Own the long-running Runtime for the complete ASGI application
  lifetime"). `StoppedGoesQuiet` speaks of a system that `_started` says is stopped.
* *Self-improvement.* A cycle that is blocked or not applied passes no recovery to
  `runtime:learning_feedback.py:39`, which fails with an `AttributeError`, so nothing is
  learnt of it; and as `AurelixRuntime` has no `health`, every cycle of a factory over it is
  blocked. An approved plan can be executed again, `rollback_required` is only reported, any
  failed diagnostic afterwards counts as a regression, and a change set that stopped in
  the middle leaves no audit.
* *Autonomy.* `BusinessEngine` does not leave `awaiting_validation` or `awaiting_approval`
  without an approval, so `mission.completed` is announced of a mission that is blocked;
  `can_resume` asks for a validated record of supported capabilities too; nothing calls
  `resume_ready` or `validate_learning`, and `run_claimed` looks only at the constant of
  supported capabilities (`runtime:autonomy_fabric.py:136`), so a mission whose capability
  was learnt is escalated again (`docs/bugfixes/ISSUE-37.md:7`, "validated capability →
  governed execution"). `validate_learning` validates after a passed evaluation, but
  `validate_capability`, which it calls and which is public, takes any evidence on record
  (`ValidateDirectly`), and `tests/test_shared_adaptive_loop.py:33` validates so and
  resumes the mission: no property says what a capability rests on. Gaps live in memory
  while the execution is durably completed; an attempt whose completion was already there
  announces its own status.
* *Engines.* In the server's composition an enterprise cycle's experiment is never put in
  the experiments table, so executing it answers 404. `POST research` answers with the ids
  of a knowledge item and an opportunity that nothing keeps; a research without an
  experiment answers 502 after its evidence was stored. Two concurrent executions of one
  experiment answer with two evaluations, of which the first is durable; observations may
  be added to a complete experiment.
* *Supervised workers.* `execute` may fail another process's attempt, since it reads the
  credentials again; a supervised service that loses its row so raises `RuntimeError` from
  `complete` or `finish` and ends. A supervised worker runs a job of any kind as a pipeline.

Others: the runner of the job queue may complete an execution under the lease of another
process, whose credentials it found (`runtime:job_queue.py:26`). A cycle that fails after it
recorded its lessons is run again and reports none, so no durable result names them.
`record_result` checks the lease before, not with, its write (docstring,
`runtime:persistence.py:180`); a job that recorded a result and then failed keeps that
result instead of a failure (`docs/runtime-recovery-invariants.md`, 5). `BudgetIsKept`
needs recovery and claiming to use one attempt budget: `AurelixSystem` takes them from two
configurations whose defaults agree. The breaker has a state `HALF_OPEN` that nothing sets:
once open, with nothing running, it stays open (`OpenBreakerStaysOpen`).

## Proofs

All theorems hold for every value of the constants that the `ASSUME`s of the models allow:
null values are no members of the sets they stand beside, limits and leases are positive
where the code needs it, and sets are finite where something is counted. Each model has an
invariant that TLC checked before it was proved, lemmas that say what the operations of the
table, of a registry or of a process leave alone, and a step for each action.

`RuntimeStoreProofs` (assumptions: `TableAssumption`, `StoreAssumption`):

* `InductiveInvariant`: `IInv` holds always. It adds to `TypeOK`,
  `TerminalHasResult`, `OwnershipShape` and `CredentialsAreExclusive` what keeps
  them inductive: a row that was never inserted was never claimed
  (`AbsentIsFresh`), a held token is positive and at most the attempts of its row
  (`HeldTokensIssued`), and a call between its two steps presents a credential
  its process holds (`CallIsHeld`);
* from it `TypeCorrect`, `TerminalRowsHaveResults`, `FencingTokensAreExclusive`,
  `OwnershipIsConsistent`;
* action properties: `ResultsAreWrittenOnce`, `TerminalRowsStay`, and
  `LeasesProtectOwners` (when no recovery is forced);
* `StoreImplementsLifecycle`: every step of the store is a step of `JobLifecycle`
  or a stutter.

The central step is the claim: its token exceeds every credential held for the row, so none
of the old ones becomes current again.

`RuntimeWorkersProofs` proves that the loops use the store as its contract says,
`LoopsImplementStore`, with `claims` for what callers hold: each action of a loop is a step of
`RuntimeStore` or leaves its variables alone. The store's theorems are instantiated (`SP`), so
`SP!IInv` is the first part of the loops' invariant `SInv`; the rest says that a loop that
works, works on something it claimed. From it, and from `CallIsMine` (a finish between its two
steps is of the loop's own job), follow

* `RowsAreAttended`: a running row has a loop at work on it, or its process crashed;
* `AuditedCompletionsStay`: what a loop audits as completed is completed for good;
* `BudgetStays` and `SuccessIsNotInvented`, under the hypothesis `RecoverLimit =
  MaxAttempts`, which the loops of one configuration satisfy (`runtime:runtime.py:54` and
  `:181` pass the same `max_attempts`). The invariant `Budget` adds that a stored failure
  belongs to a failed job.

What is proved of every user of the store holds of the loops, since they use it by its
contract (`LoopsRunStore`): `LoopsFollowLifecycle`, the two refinements composed;
`LoopsRespectLeases`, without the hypothesis on forced recovery, which no loop asks for;
`LoopsKeepResults`.

For the lifespans of the server (`SystemLifecycle`), `LifeInv` keeps accounts: the cycles that
were queued, and one more for a schedule that has come due and is not yet queued (`Owed`), are
at most the periods that passed and the calls that raised (`Accounts`: `DueJobsAreQueuedOnce`);
and what a thread ran late together with what its tick still allows is within one tick, while
a thread that has yet to look at the stop flag has run nothing late (`LateIsCounted`:
`StopIsLateByOneTick`).

`SupervisedWorkersProofs` is about `SupervisedWorkers` and so about `JobQueue` beside it. In
its invariant the token of a running row is the number of its attempts, a call between check
and write presents what its process holds, and it fails the job only if that was a last
attempt (`CallInv`). `WorkersImplementLifecycle` needs that a failure written late finds a row
that is there and, if it ended, has its result; `FailuresAreSpent` that the service's limit is
the queue's (both are 3 by default: a smaller one of the service fails jobs earlier);
`OwnAttempts` that only `complete` and `finish` move a supervised worker on, and both present
the credentials of its claim.

`ExperimentCycleProofs` rests on one idea: a complete experiment is complete everywhere. The
table never changes a complete row, and every copy that says complete (in a process, on disk,
in the hands of a call) is the row of the table (`Faithful`, `Settled`). Then whatever a process
decides on its copy, it decides on the durable result: `ResultsAreMeasured`,
`OpportunitiesAreEarned`, `ClosedCyclesAreDecided`.

`EngineFlowsProofs` states for each actor what it holds between its writes. `LoopInv`: the
lessons of the experiments a loop has in memory are in its knowledge or in the repository, and
when it comes to write experiments, in the repository; `RequestInv` says the same of requests.
From them `ExperimentsRestOnKnowledge`. `AloneInv`: as long as a loop is the only one that
wrote, its experiments on disk cover its opportunities: `DanglingTakesTwoWriters`. What is
stored is in the repository, so `RestartsForgetNothing`; `FirstResultsStay` follows from what
each action does to a row with a result. `LineagesAreWhole` is about a function that is defined
by recursion. `RunsInv` says of a ledger that the parents of each record are those of its run
and its stage (`Chained`), that the stages behind a run have records, and that its number is
new. For such a ledger, going back stays in the run (`BackStays`), leaves out no stage
(`NextRestsOnIt`, which also steps over a skipped academy), and is done often enough, as a run
has seven records (`SevenRecords`); the steps are put together by induction over the set of
numbers for which they hold (`NatSetInduction`, from the least member of a set of naturals),
and `Iterates` shows that the recursion defines a function.

`AutonomyMissionProofs` splits the invariant into the registries (`RegistriesInv`: a gap has
its study objective; with it, that learning takes nothing back, `Keeps`) and the row and
the process of a mission. `EscalatedMissionsWait` needs that an escalated mission stays
completed (`EscalatedIsDone`): a second claim would register it again and forget its block.
`AnnouncementsAreDurable` needs that a chain of stages that will ask for approval has passed its
experiment (`Promising`).

`GovernanceProofs` is about `GovernedExecution` and `OpportunityExecution`, for any finite set
of threads and any requests, costs, limit and threshold. Five properties have an invariant
that counts:

* `FailuresStayBounded`: failures and running operations together are at most the
  threshold and one for each other caller once the breaker is open (`BreakerInv`);
  `OpenBreakerStaysOpen` is the action property beside it;
* `OverspendStaysBounded`: what is spent and what the threads between check and payment are
  about to pay stay within the limit and one cost for each other caller;
  `RefusalsWereContended`: charges that are refused after the operation are explained by
  charges of others;
* `ApprovalsStayBounded`: of a request, the approvals and the calls that still may
  approve it are at most the number of threads for each submission.

The counting rests on lemmas about the cardinality of the threads at a step when one thread
goes there or leaves. `RevenueInv` follows a sale through its steps: the ledger only grows, so
an amount that was recorded makes the total positive, and a total or an object that was taken
earlier is never more than the ledger has (`ActiveSourcesHaveRevenue`). With it, that evidence
for a claim has a supporting piece, gives `SupportQualifies`.

`LearningProofs` proves of `EconomicLearning` `TypeCorrect`; `OutcomesAreLearnedOnce`, from the invariant
that a signal has one lesson if it was emitted and none otherwise (`EmittedIsLearned`); and
`OneRequestAtATimeKeepsReferences`: with a single request thread a reference stands for
one outcome. Its invariant, `EntriesStay`, says that a checked request still finds no
entry, and that lessons agree with the ledger.

Of `RevenuePortfolio`, `PortfolioInv` says what stands behind each source (`SourceIsSound`: an
active one is trusted, approved or came so, its income is recorded or came with it, a replaced
one is retired unless it was put to use again) and that whatever was copied from a source was so at some time
(`Honest`): in the hands of a reader, in lessons that were published or learnt, in the context
of an experiment. A restart forgets approvals and rows change while readers hold copies, so
`Honest` is about `everApproved`, `broughtActive` and `recorded`, which only grow. It gives
`ProductiveSourcesAreAuthorized` and `ToldIncomeIsRecorded`; `ReplacedSourcesRest` is a part of
`SourceIsSound`, since a replaced source is never the candidate of the same call.

Of `SelfImprovement`, `ImprovementInv` says for each call that the changes that were
committed are the first ones of its set, and all of them once it is audited (`AppliesInOrder`:
`AuditedChangesAreWhole`), and what the answers of the two suites of checks tell of the
composition they were run on (`ChecksTell`: `VerifiedLessonsAreEarned`). The second rests on
lemmas that count the findings of a report, since a call looks only at the numbers.

Only model-checked is liveness (`JobsSettle`, `OutcomesAreLearned`, `StoppedGoesQuiet`):
fairness and ENABLED are out of the prover's reach.

## Not modelled

Audit rows except as history, `runtime_state` except the engines' dictionaries and the
contexts, schema migration, and the contents of payloads, results, research and prompts.
Clocks of processes agree, and rows are created in the order of `created_at`.
`recover_running_jobs` is modelled with its default threshold (leases) and with 0 (forced);
other thresholds compare the same lease. SQLite transactions are serialisable and do not
fail. In `EngineFlows` the repository never holds the 500 items that limit a search. The
scheduler's and the runtime's own stop events are set and never cleared, but only their
`serve_forever` loops read them, which the system does not run. `WorkerSupervisor`,
`OperationsController`, `EngineeringLoop`, `SystemDoctor`, `CapabilityControlPlane` and
`Treasury.reserve` are called by nothing in the sources. Components without a module, and
the parts of the others that are left out, are listed with their reasons in `PROJECT.json`.

## Plan

1. Done: the store, its contract and proofs, loops, queue and supervised workers, the
   server's lifespans, experiments, engines, autonomy and learning, governance with proofs,
   economy, economic outcomes with proofs, self-improvement; proofs of the loops, the
   supervised workers, lifespans, experiments, engines, autonomy, portfolio and
   self-improvement: every safety property of a passing run is stated by a theorem.
2. Lemmas that liveness would need (which step is enabled, and what it decreases), so that
   what is left to TLC is only the fairness itself.
3. `AutonomyFabric.run` (a caller that claims its own job and fails it without a retry)
   as one more actor of `RuntimeWorkers`: it is the one that `store_invent` is about.
4. One model of `ExperimentCycle` and `EngineFlows` with an executor and requests beside
   each other, if its states stay within reach.
