--------------------------- MODULE ExperimentCycle ---------------------------
(***************************************************************************)
(* The durable experiment: EnterpriseLoop.run proposes it and submits a    *)
(* job for it, a worker measures and evaluates it, and the worker continues*)
(* the enterprise cycle with the result (src/aurelix_runtime/              *)
(* enterprise_loop.py, runtime.py, experiment_runner.py,                   *)
(* integrated_engines.py).  Every process has the same database and an     *)
(* EngineStore of its own, which it loads when it starts and writes as a   *)
(* whole with every event it records.  A process does one thing at a time: *)
(* a cycle and an experiment are both jobs of its loop.                    *)
(*                                                                         *)
(* Each access to the database is a step; pc[p] names the next one.  Jobs  *)
(* follow JobLifecycle: the fence of RuntimeStore is owner and attempt, and*)
(* a running job may lose its lease at any time (LeaseLapses).             *)
(*                                                                         *)
(* Abstractions.  An experiment is its status and result.  The criterion   *)
(* of ExperimentEngine is success >= 1 on the mean of what was measured of *)
(* success, so an observation is "good" (a success of 1 or more), "bad" (a *)
(* lower one), "other" (numbers, but none of success) or "text" (no number *)
(* at all), and the observations of an experiment are the set of kinds on  *)
(* record.  Jobs are numbered in the order they are submitted, which is    *)
(* that of created_at.                                                     *)
(***************************************************************************)
EXTENDS Naturals, FiniteSets

CONSTANTS
  Processes, Experiments,
  Kinds,         \* the kinds of observations an executor may make
  Nothing,       \* no process or experiment
  MaxJobs,       \* bound: jobs submitted
  MaxAttempts,   \* RuntimeConfig.max_attempts
  MaxCrashes     \* bound: crashes of all processes together

ASSUME CycleAssumption ==
  /\ Nothing \notin Processes \union Experiments
  /\ Kinds \subseteq {"good", "bad", "other", "text"}
  /\ MaxJobs \in Nat
  /\ MaxAttempts \in Nat \ {0}
  /\ MaxCrashes \in Nat

VARIABLES
  row,      \* table experiments
  obs,      \* table observations
  disk,     \* runtime_state: engine.experiments
  context,  \* runtime_state: experiment.context:<id>
  job,      \* table jobs, the experiment.run jobs
  mem,      \* per process: EngineStore.experiments
  pc,       \* per process: the step it is at
  work,     \* per process: what its handler holds in local variables
  validated,\* history: opportunities validated for each experiment
  crashes   \* history: how often a process died

tables == <<row, obs, disk, context, job>>
vars == <<row, obs, disk, context, job, mem, pc, work, validated, crashes>>

Absent   == [status |-> "absent", result |-> "none"]
Proposed == [status |-> "proposed", result |-> "none"]
Awaiting == [status |-> "awaiting_measurement", result |-> "none"]
Complete(result) == [status |-> "complete", result |-> result]
Exp == {Absent, Proposed, Awaiting, Complete("passed"), Complete("failed")}

Jobs == 1..MaxJobs
Job == [status: {"unused", "queued", "running", "completed", "failed"},
        exp: Experiments \union {Nothing}, attempts: 0..MaxAttempts,
        owner: Processes \union {Nothing}]
Unused == [status |-> "unused", exp |-> Nothing, attempts |-> 0, owner |-> Nothing]

\* The locals of a call: the experiment, the job (0 in a submission) and its
\* attempt, the Experiment object, the observations it read and those still to
\* record (both cleared when they are done with), and whether EnterpriseLoop.run
\* is the submitter.
Work == [exp: Experiments \union {Nothing}, job: 0..MaxJobs, attempt: 0..MaxAttempts,
         object: Exp, read: SUBSET Kinds, todo: SUBSET Kinds, cycle: BOOLEAN]
NoWork == [exp |-> Nothing, job |-> 0, attempt |-> 0, object |-> Absent,
           read |-> {}, todo |-> {}, cycle |-> FALSE]

Places == {"idle",
           "context", "submit", "find", "persisted", "enqueue",     \* EnterpriseLoop.run
           "fetch", "collect", "query", "execute", "record", "evaluate",
           "continue", "decide", "close", "complete", "raise"}      \* the job's handler

TypeOK ==
  /\ row \in [Experiments -> Exp]
  /\ obs \in [Experiments -> SUBSET Kinds]
  /\ disk \in [Experiments -> Exp]
  /\ context \in [Experiments -> {"absent", "open", "completed"}]
  /\ job \in [Jobs -> Job]
  /\ mem \in [Processes -> [Experiments -> Exp]]
  /\ pc \in [Processes -> Places]
  /\ work \in [Processes -> Work]
  /\ validated \in [Experiments -> Nat]
  /\ crashes \in 0..MaxCrashes

Init ==
  /\ row = [e \in Experiments |-> Absent]
  /\ obs = [e \in Experiments |-> {}]
  /\ disk = [e \in Experiments |-> Absent]
  /\ context = [e \in Experiments |-> "absent"]
  /\ job = [j \in Jobs |-> Unused]
  /\ mem = [p \in Processes |-> [e \in Experiments |-> Absent]]
  /\ pc = [p \in Processes |-> "idle"]
  /\ work = [p \in Processes |-> NoWork]
  /\ validated = [e \in Experiments |-> 0]
  /\ crashes = 0

-----------------------------------------------------------------------------

At(p, place) == pc[p] = place
Goto(p, place) == pc' = [pc EXCEPT ![p] = place]
Return(p) == Goto(p, "idle") /\ work' = [work EXCEPT ![p] = NoWork]

TheExp(p) == work[p].exp
TheJob(p) == work[p].job

\* EngineStore._persist, of a store that holds store: every map as a whole.
Persist(store) == disk' = store

\* register_experiment: an upsert that leaves a complete experiment alone.
Register(e, object) ==
  row' = [row EXCEPT ![e] = IF @.status = "complete" THEN @ ELSE object]

JobsOf(e) == {j \in Jobs : job[j].exp = e}

\* _find_experiment_job, of an experiment that has a job.
Latest(e) == CHOOSE j \in JobsOf(e) : \A i \in JobsOf(e) : i <= j

-----------------------------------------------------------------------------
(* EnterpriseLoop.run and submit_experiment *)

\* The stages up to ExperimentEngine.run, when they lead to a new experiment.
Propose(p) ==
  /\ At(p, "idle")
  /\ \E e \in Experiments :
       /\ Absent = row[e] /\ Absent = disk[e]
       /\ \A q \in Processes : mem[q][e] = Absent /\ TheExp(q) # e
       /\ mem' = [mem EXCEPT ![p][e] = Proposed]
       /\ work' = [work EXCEPT ![p].exp = e, ![p].object = Proposed, ![p].cycle = TRUE]
  /\ Persist(mem'[p])
  /\ Goto(p, "context")
  /\ UNCHANGED <<row, obs, context, job, validated, crashes>>

SaveContext(p) ==
  /\ At(p, "context")
  /\ context' = [context EXCEPT ![TheExp(p)] = "open"]
  /\ Goto(p, "submit")
  /\ UNCHANGED <<row, obs, disk, job, mem, work, validated, crashes>>

\* submit_experiment of an experiment that is on record, by a caller that
\* kept the proposal or read the experiment from the database.
Resubmit(p) ==
  /\ At(p, "idle")
  /\ \E e \in Experiments : \E object \in {Proposed, row[e]} :
       /\ row[e] # Absent
       /\ work' = [work EXCEPT ![p].exp = e, ![p].object = object]
  /\ Goto(p, "submit")
  /\ UNCHANGED <<row, obs, disk, context, job, mem, validated, crashes>>

SubmitRegisters(p) ==
  /\ At(p, "submit")
  /\ Register(TheExp(p), work[p].object)
  /\ Goto(p, "find")
  /\ UNCHANGED <<obs, disk, context, job, mem, work, validated, crashes>>

\* submit_experiment returns; EnterpriseLoop.run records the end of the cycle.
SubmitReturns(p) ==
  /\ Return(p)
  /\ IF work[p].cycle THEN Persist(mem[p]) ELSE UNCHANGED disk

\* A first job is wanted; one that is alive or failed is returned as it is.
SubmitFinds(p) ==
  LET jobs == JobsOf(TheExp(p))
  IN /\ At(p, "find")
     /\ \/ jobs = {} /\ Goto(p, "enqueue") /\ UNCHANGED <<work, disk>>
        \/ /\ jobs # {}
           /\ IF job[Latest(TheExp(p))].status = "completed"
              THEN Goto(p, "persisted") /\ UNCHANGED <<work, disk>>
              ELSE SubmitReturns(p)
     /\ UNCHANGED <<row, obs, context, job, mem, validated, crashes>>

\* Another job is wanted when the last one ended without a measurement.
SubmitReads(p) ==
  /\ At(p, "persisted")
  /\ IF row[TheExp(p)].status = "awaiting_measurement"
     THEN Goto(p, "enqueue") /\ UNCHANGED <<work, disk>>
     ELSE SubmitReturns(p)
  /\ UNCHANGED <<row, obs, context, job, mem, validated, crashes>>

SubmitEnqueues(p) ==
  LET j == Cardinality({i \in Jobs : job[i] # Unused}) + 1
  IN /\ At(p, "enqueue")
     /\ j \in Jobs
     /\ job' = [job EXCEPT ![j].status = "queued", ![j].exp = TheExp(p)]
     /\ SubmitReturns(p)
     /\ UNCHANGED <<row, obs, context, mem, validated, crashes>>

-----------------------------------------------------------------------------
(* The worker: runtime.run_once with the experiment.run handler *)

Owns(p, j) ==
  job[j].status = "running" /\ job[j].owner = p /\ job[j].attempts = work[p].attempt

Claim(p) ==
  /\ At(p, "idle")
  /\ \E j \in Jobs :
       /\ job[j].status = "queued" /\ job[j].attempts < MaxAttempts
       /\ job' = [job EXCEPT ![j].status = "running", ![j].attempts = @ + 1, ![j].owner = p]
       /\ work' = [work EXCEPT ![p].exp = job[j].exp, ![p].job = j,
                               ![p].attempt = job[j].attempts + 1]
  /\ Goto(p, "fetch")
  /\ UNCHANGED <<row, obs, disk, context, mem, validated, crashes>>

\* get_experiment; execute returns at once when it is complete.
Fetch(p) ==
  /\ At(p, "fetch")
  /\ work' = [work EXCEPT ![p].object = row[TheExp(p)]]
  /\ Goto(p, IF row[TheExp(p)].status = "complete" THEN "continue" ELSE "collect")
  /\ UNCHANGED <<tables, mem, validated, crashes>>

\* The collector registers the experiment as its caller knows it ...
Collect(p) ==
  /\ At(p, "collect")
  /\ Register(TheExp(p), work[p].object)
  /\ Goto(p, "query")
  /\ UNCHANGED <<obs, disk, context, job, mem, work, validated, crashes>>

\* ... and returns the observations on record, if there are any.
Query(p) ==
  /\ At(p, "query")
  /\ work' = [work EXCEPT ![p].read = obs[TheExp(p)]]
  /\ Goto(p, IF obs[TheExp(p)] # {} THEN "evaluate" ELSE "execute")
  /\ UNCHANGED <<tables, mem, validated, crashes>>

\* The executor measures, finds nothing to measure, or raises.
Execute(p) ==
  /\ At(p, "execute")
  /\ \/ \E measured \in SUBSET Kinds :
          /\ work' = [work EXCEPT ![p].todo = measured]
          /\ Goto(p, "record")
     \/ Goto(p, "raise") /\ UNCHANGED work
  /\ UNCHANGED <<tables, mem, validated, crashes>>

\* Each observation is a transaction; then all those on record are read.
RecordObservation(p) ==
  /\ At(p, "record")
  /\ \E kind \in work[p].todo :
       /\ obs' = [obs EXCEPT ![TheExp(p)] = @ \union {kind}]
       /\ work' = [work EXCEPT ![p].todo = @ \ {kind}]
  /\ UNCHANGED <<row, disk, context, job, mem, pc, validated, crashes>>

\* An observation that is not a dictionary ends the collector halfway.
ObservationRefused(p) ==
  /\ At(p, "record")
  /\ work[p].todo # {}
  /\ Goto(p, "raise")
  /\ work' = [work EXCEPT ![p].todo = {}]
  /\ UNCHANGED <<tables, mem, validated, crashes>>

ReadObservations(p) ==
  /\ At(p, "record")
  /\ work[p].todo = {}
  /\ work' = [work EXCEPT ![p].read = obs[TheExp(p)]]
  /\ Goto(p, "evaluate")
  /\ UNCHANGED <<tables, mem, validated, crashes>>

\* EvaluationEngine.evaluate, of observations with numbers: the criterion fails
\* without a number of its metric, and a mean of good and bad ones may be either.
Verdicts(read) ==
  (IF "good" \in read THEN {"passed"} ELSE {}) \union
  (IF "bad" \in read \/ "good" \notin read THEN {"failed"} ELSE {})

\* Mutant of Evaluated: an experiment without a measurement failed.
EvaluatedFailsClosed(read) == {Complete(verdict) : verdict \in Verdicts(read)}

\* compute_metrics and the evaluator: no number, no result.
Evaluated(read) ==
  IF read \subseteq {"text"} THEN {Awaiting}
  ELSE {Complete(verdict) : verdict \in Verdicts(read)}

\* The evaluation, and on_complete, which registers the experiment.
Evaluate(p) ==
  /\ At(p, "evaluate")
  /\ \E outcome \in Evaluated(work[p].read) :
       /\ Register(TheExp(p), outcome)
       /\ work' = [work EXCEPT ![p].object = outcome, ![p].read = {}]
       /\ Goto(p, IF outcome.status = "complete" THEN "continue" ELSE "complete")
  /\ UNCHANGED <<obs, disk, context, job, mem, validated, crashes>>

-----------------------------------------------------------------------------
(* continue_after_experiment *)

\* _load_durable_experiment: the EngineStore's experiment, or that of the
\* table, which the EngineStore then keeps.
Loaded(p, e) == IF mem[p][e] # Absent THEN mem[p][e] ELSE row[e]

\* Mutant of Continue: the status of the experiment is not looked at.
ContinueUnmeasured(p) ==
  /\ At(p, "continue")
  /\ mem' = [mem EXCEPT ![p][TheExp(p)] = Loaded(p, TheExp(p))]
  /\ work' = [work EXCEPT ![p].object = Loaded(p, TheExp(p))]
  /\ Goto(p, IF context[TheExp(p)] = "completed" THEN "complete" ELSE "decide")
  /\ UNCHANGED <<tables, validated, crashes>>

Continue(p) ==
  LET e == TheExp(p)
      experiment == Loaded(p, e)
  IN /\ At(p, "continue")
     /\ mem' = [mem EXCEPT ![p][e] = experiment]
     /\ work' = [work EXCEPT ![p].object = experiment]
     /\ Goto(p, IF experiment.status # "complete" THEN "complete"
                ELSE IF context[e] = "completed" THEN "complete"
                ELSE IF context[e] = "absent" THEN "raise" ELSE "decide")
     /\ UNCHANGED <<tables, validated, crashes>>

\* Mutant of Decide: the opportunity is validated whatever the result.
DecideUnconditionally(p) ==
  /\ At(p, "decide")
  /\ validated' = [validated EXCEPT ![TheExp(p)] = @ + 1]
  /\ Persist(mem[p])
  /\ Goto(p, "close")
  /\ UNCHANGED <<row, obs, context, job, mem, work, crashes>>

\* EvaluationEngine, OpportunityEngine and BusinessEngine, and their events.
Decide(p) ==
  /\ At(p, "decide")
  /\ validated' = [validated EXCEPT ![TheExp(p)] =
                     IF work[p].object.result = "passed" THEN @ + 1 ELSE @]
  /\ Persist(mem[p])
  /\ Goto(p, "close")
  /\ UNCHANGED <<row, obs, context, job, mem, work, crashes>>

Close(p) ==
  /\ At(p, "close")
  /\ context' = [context EXCEPT ![TheExp(p)] = "completed"]
  /\ Persist(mem[p])
  /\ Goto(p, "complete")
  /\ UNCHANGED <<row, obs, job, mem, work, validated, crashes>>

-----------------------------------------------------------------------------

\* The handler returned: the job completes, unless its lease was lost.
CompleteJob(p) ==
  LET j == TheJob(p)
  IN /\ At(p, "complete")
     /\ job' = IF Owns(p, j)
               THEN [job EXCEPT ![j].status = "completed", ![j].owner = Nothing]
               ELSE job
     /\ Return(p)
     /\ UNCHANGED <<row, obs, disk, context, mem, validated, crashes>>

\* A running job whose attempt ended without a result.
GivenUp(j) ==
  [job EXCEPT ![j].status = IF job[j].attempts < MaxAttempts THEN "queued" ELSE "failed",
              ![j].owner = Nothing]

\* The handler raised: the job is retried or fails, unless its lease was lost.
FailJob(p) ==
  LET j == TheJob(p)
  IN /\ At(p, "raise")
     /\ job' = IF Owns(p, j) THEN GivenUp(j) ELSE job
     /\ Return(p)
     /\ UNCHANGED <<row, obs, disk, context, mem, validated, crashes>>

\* The lease passes and a starting process recovers the job.
LeaseLapses(j) ==
  /\ job[j].status = "running"
  /\ job' = GivenUp(j)
  /\ UNCHANGED <<row, obs, disk, context, mem, pc, work, validated, crashes>>

\* A process dies and starts again: its EngineStore is loaded from the disk.
Restart(p) ==
  /\ crashes < MaxCrashes
  /\ crashes' = crashes + 1
  /\ mem' = [mem EXCEPT ![p] = disk]
  /\ Return(p)
  /\ UNCHANGED <<tables, validated>>

Next ==
  \/ \E p \in Processes :
       \/ Propose(p) \/ SaveContext(p) \/ Resubmit(p)
       \/ SubmitRegisters(p) \/ SubmitFinds(p) \/ SubmitReads(p) \/ SubmitEnqueues(p)
       \/ Claim(p) \/ Fetch(p) \/ Collect(p) \/ Query(p) \/ Execute(p)
       \/ RecordObservation(p) \/ ObservationRefused(p) \/ ReadObservations(p) \/ Evaluate(p)
       \/ Continue(p) \/ Decide(p) \/ Close(p)
       \/ CompleteJob(p) \/ FailJob(p) \/ Restart(p)
  \/ \E j \in Jobs : LeaseLapses(j)

Spec == Init /\ [][Next]_vars

-----------------------------------------------------------------------------
(* Properties *)

\* A result rests on measurements that are on record ("measurements are injected,
\* never fabricated"): it passed on a good one, and it failed on a bad one or on
\* numbers that say nothing of the criterion ("Missing measurements fail closed"),
\* but never for want of any.
ResultIsMeasured ==
  \A e \in Experiments :
    /\ row[e].result = "passed" => "good" \in obs[e]
    /\ row[e].result = "failed" => obs[e] \intersect {"bad", "other"} # {}

\* An opportunity is validated only for an experiment whose durable result
\* passed, although it is decided on the copy a process holds.
OpportunityIsEarned ==
  \A e \in Experiments : validated[e] > 0 => row[e] = Complete("passed")

\* A cycle is closed only after its experiment is durably complete and, if the
\* experiment passed, after its opportunity was validated.
ClosedCycleIsDecided ==
  \A e \in Experiments :
    context[e] = "completed" =>
      /\ row[e].status = "complete"
      /\ row[e].result = "passed" => validated[e] > 0
=============================================================================
