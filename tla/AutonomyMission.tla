--------------------------- MODULE AutonomyMission ---------------------------
(***************************************************************************)
(* Autonomous executions: the jobs autonomy.run of one process, which runs *)
(* AutonomyFabric.run_claimed in its loop (aurelix_runtime/                *)
(* autonomy_fabric.py, runtime.py), beside the learning of that process    *)
(* (CapabilityLearning) and other processes that recover, claim and finish *)
(* the same jobs.  A mission that needs a capability the fabric does not   *)
(* have becomes a gap; any other goes through the stages of the chain      *)
(* (integrated_engines.py).  Its start and its end are announced on the    *)
(* message fabric (message_fabric.py).                                     *)
(*                                                                         *)
(* Abstractions.  A job follows JobLifecycle: what another process does    *)
(* with it is recovery, a claim, a completion or a failure.  The engines   *)
(* are pure but for their records; their outputs are named by their status.*)
(* The inner steps of the experiment are those of ExperimentCycle.  What   *)
(* the stages announce, to which nothing subscribes, is left out.          *)
(***************************************************************************)
EXTENDS CapabilityLearning

CONSTANTS
  Supported,    \* AutonomyFabric._SUPPORTED_CAPABILITIES
  MaxAttempts,  \* RuntimeConfig.max_attempts
  MaxRestarts,  \* bound
  None          \* no mission

ASSUME MissionAssumption ==
  /\ Supported \subseteq Capabilities
  /\ MaxAttempts \in Nat \ {0}
  /\ MaxRestarts \in Nat
  /\ None \notin Missions

VARIABLES
  job,       \* the rows autonomy.run: status, attempts and who runs them
  result,    \* job_results: the status it holds, "error" of a failed row
  worker,    \* what the loop of this process is at
  delivered, \* MessageFabric._seen: the mission topics of each execution
  restarts,
  escalated, \* history: executions this process completed as to be learnt
  measured   \* history: executions of which an experiment passed

jobVars == <<job, result>>
vars == <<learningVars, jobVars, worker, delivered, restarts, escalated, measured>>

Stages == <<"research", "academy", "knowledge", "innovation",
            "experiment", "evaluation", "opportunity", "business">>

Results == {"learning_required", "awaiting_validation", "awaiting_approval"}

Idle == [at |-> "idle", mission |-> None, attempt |-> 0, stage |-> 0,
         out |-> "none", todo |-> {}, state |-> "proposed"]

Init ==
  /\ LearningInit
  /\ job = [m \in Missions |-> [status |-> "queued", attempts |-> 0, owner |-> "nobody"]]
  /\ result = [m \in Missions |-> "none"]
  /\ worker = Idle
  /\ delivered = [m \in Missions |-> {}]
  /\ restarts = 0
  /\ escalated = {}
  /\ measured = {}

At(place) == worker.at = place
Goto(place) == worker' = [worker EXCEPT !.at = place]

\* What steps of the loop leave alone, unless they say otherwise.
Quiet == UNCHANGED <<delivered, restarts, escalated, measured>>

-----------------------------------------------------------------------------
(* The loop: run_once, up to the handler *)

Claim(m) ==
  /\ At("idle")
  /\ job[m].status = "queued" /\ job[m].attempts < MaxAttempts
  /\ job' = [job EXCEPT ![m] = [status |-> "running", attempts |-> @.attempts + 1,
                                owner |-> "here"]]
  /\ worker' = [worker EXCEPT !.at = "claimed", !.mission = m, !.attempt = job[m].attempts + 1]
  /\ UNCHANGED <<learningVars, result>> /\ Quiet

Unknown(m) == Required[m] \ Supported

\* run_claimed registers the mission and looks at what it requires; a mission
\* that can be run is planned and started.
Register ==
  LET m == worker.mission
  IN /\ At("claimed")
     /\ RegisterMission(m)
     /\ worker' = IF Unknown(m) # {}
                  THEN [worker EXCEPT !.at = "escalate", !.todo = Unknown(m)]
                  ELSE [worker EXCEPT !.at = "stage", !.stage = 1, !.state = "running"]
     /\ delivered' = IF Unknown(m) # {} THEN delivered
                     ELSE [delivered EXCEPT ![m] = @ \union {"mission.started"}]
     /\ UNCHANGED <<gap, registryVars, candidate, jobVars, restarts, escalated, measured>>

\* Mutant of EscalateNext: the escalator is asked, and not the loop.
EscalateOnly ==
  /\ At("escalate")
  /\ \E c \in worker.todo :
       /\ Escalate(c)
       /\ worker' = [worker EXCEPT !.todo = @ \ {c}]
  /\ UNCHANGED <<mission, evidence, evaluation, capability, knowledge, candidate, jobVars>>
  /\ Quiet

\* _capability_learning_result, for each unknown capability
EscalateNext ==
  /\ At("escalate")
  /\ \E c \in worker.todo :
       /\ BlockForCapability(worker.mission, c)
       /\ worker' = [worker EXCEPT !.todo = @ \ {c}]
  /\ UNCHANGED <<evidence, evaluation, capability, knowledge, candidate, jobVars>>
  /\ Quiet

-----------------------------------------------------------------------------
(* The chain: what each stage makes of the output of the stage before *)

Academy(research) ==
  CASE research = "awaiting_provider" -> {"awaiting_research"}
    [] research = "no_evidence"       -> {"insufficient_evidence"}
    [] OTHER                          -> {research, "insufficient_evidence"}

\* Evidence that is not verified makes a draft, which goes on like the rest.
Knowledge(academy) ==
  CASE academy = "verified"   -> {"validated"}
    [] academy = "unverified" -> {"draft"}
    [] OTHER                  -> {"awaiting_evidence"}

Innovation(knowing) ==
  IF knowing \in {"validated", "draft"} THEN {"proposal"} ELSE {"awaiting_knowledge"}

\* ExperimentEngine.run, and ExperimentRunner.execute of what it proposed.
Experiment(innovation) ==
  IF innovation = "proposal" THEN {"passed", "failed", "awaiting_measurement"}
  ELSE {"awaiting_innovation"}

Evaluation(experiment) ==
  CASE experiment = "passed"              -> {"experiment_completed"}
    [] experiment = "failed"              -> {"experiment_failed"}
    [] experiment = "awaiting_measurement" -> {"awaiting_execution"}
    [] OTHER                              -> {"awaiting_experiment"}

Opportunity(evaluated) ==
  CASE evaluated = "experiment_completed" -> {"validated"}
    [] evaluated = "awaiting_execution"   -> {"candidate"}
    [] OTHER                              -> {"awaiting_validation"}

\* BusinessEngine.run with approved=False
Business(opportunity) ==
  IF opportunity = "validated" THEN {"awaiting_approval"} ELSE {"awaiting_validation"}

Outputs(stage, before) ==
  CASE stage = "research"    -> {"awaiting_provider", "no_evidence", "unverified", "verified"}
    [] stage = "academy"     -> Academy(before)
    [] stage = "knowledge"   -> Knowledge(before)
    [] stage = "innovation"  -> Innovation(before)
    [] stage = "experiment"  -> Experiment(before)
    [] stage = "evaluation"  -> Evaluation(before)
    [] stage = "opportunity" -> Opportunity(before)
    [] stage = "business"    -> Business(before)

\* A stage, and _emit of its completion.
RunStage ==
  LET m == worker.mission
      stage == Stages[worker.stage]
  IN /\ At("stage")
     /\ \E out \in Outputs(stage, worker.out) :
          /\ worker' = [worker EXCEPT !.out = out, !.stage = @ + 1,
                          !.at = IF stage = "business" THEN "close" ELSE "stage"]
          /\ measured' = IF stage = "experiment" /\ out = "passed"
                         THEN measured \union {m} ELSE measured
     /\ UNCHANGED <<learningVars, jobVars, delivered, restarts, escalated>>

\* Mutant of CloseMission: the completion is announced before it is stored.
CloseAnnounces ==
  /\ At("close")
  /\ worker' = [worker EXCEPT !.at = "complete", !.state = "blocked"]
  /\ delivered' = [delivered EXCEPT ![worker.mission] = @ \union {"mission.completed"}]
  /\ UNCHANGED <<learningVars, jobVars, restarts, escalated, measured>>

\* A status that BusinessEngine gives without an approval blocks the mission.
CloseMission ==
  /\ At("close")
  /\ worker' = [worker EXCEPT !.at = "complete", !.state = "blocked"]
  /\ UNCHANGED <<learningVars, jobVars>> /\ Quiet

-----------------------------------------------------------------------------
(* The end of an execution *)

Owns(m) ==
  /\ job[m].status = "running" /\ job[m].owner = "here"
  /\ job[m].attempts = worker.attempt

\* store.complete: "stored"; "existing", the result another attempt stored; or
\* an exception.
Complete(outcome) ==
  LET m == worker.mission
  IN IF Owns(m)
     THEN /\ job' = [job EXCEPT ![m].status = "completed", ![m].owner = "nobody"]
          /\ result' = [result EXCEPT ![m] = outcome]
     ELSE job[m].status = "completed" /\ UNCHANGED jobVars

\* LeaseLostError of a row that another attempt runs; one that is queued or
\* failed raises another error.
LeaseLost(m) == job[m].status = "running" /\ ~Owns(m)

\* What run_once makes of a handler's end: an error other than LeaseLostError,
\* as of the audit of a job that was completed, is followed by finish.
Failing == [worker EXCEPT !.at = "fail", !.state = "blocked"]
Raised(m) == IF At("complete") /\ LeaseLost(m) THEN {Idle, Failing} ELSE {Failing}

\* ... of a chain: then the result is announced.
CompleteChain ==
  /\ At("complete")
  /\ Complete(worker.out)
  /\ Goto("announce")
  /\ UNCHANGED learningVars /\ Quiet

\* ... of a mission that has to learn.
CompleteLearning ==
  /\ At("escalate") /\ worker.todo = {}
  /\ Complete("learning_required")
  /\ escalated' = IF Owns(worker.mission) THEN escalated \union {worker.mission} ELSE escalated
  /\ worker' \in {Idle, Failing}
  /\ UNCHANGED <<learningVars, delivered, restarts, measured>>

\* The mission is audited and announced, and run_once, whose own complete finds
\* the durable result, goes on.
Announce ==
  /\ At("announce")
  /\ delivered' = [delivered EXCEPT ![worker.mission] = @ \union {"mission.completed"}]
  /\ worker' \in {Idle, Failing}
  /\ UNCHANGED <<learningVars, jobVars, restarts, escalated, measured>>

\* The chain raises: an engine or an executor, the database, a complete that is
\* refused, or an audit after its message was published.  The first audit is
\* outside of the try that announces the block.
ChainRaises ==
  LET m == worker.mission
      topics == {{"mission.blocked"}}
        \union (IF At("announce") THEN {{"mission.completed", "mission.blocked"}} ELSE {})
        \union (IF At("stage") /\ worker.stage = 1 THEN {{}} ELSE {})
  IN /\ At("stage") \/ At("complete") \/ At("announce")
     /\ worker' \in Raised(m)
     /\ \E told \in topics : delivered' = [delivered EXCEPT ![m] = @ \union told]
     /\ UNCHANGED <<learningVars, jobVars, restarts, escalated, measured>>

\* The learning path raises: a database error, or a complete that is refused.
LearningRaises ==
  LET m == worker.mission
  IN /\ At("escalate")
     /\ worker' \in IF worker.todo = {} /\ LeaseLost(m) THEN {Idle, Failing} ELSE {Failing}
     /\ UNCHANGED <<learningVars, jobVars>> /\ Quiet

\* What a row becomes that is tried again while there are attempts.
Retried(m) ==
  /\ job' = [job EXCEPT ![m].owner = "nobody",
               ![m].status = IF job[m].attempts < MaxAttempts THEN "queued" ELSE "failed"]
  /\ result' = IF job[m].attempts < MaxAttempts \/ result[m] # "none" THEN result
               ELSE [result EXCEPT ![m] = "error"]

\* run_once: finish of a row that it owns, with a retry while there is one; a
\* row that another attempt runs is left alone.
Fail ==
  LET m == worker.mission
  IN /\ At("fail")
     /\ job[m].status = "running"
     /\ IF Owns(m) THEN Retried(m) ELSE UNCHANGED jobVars
     /\ worker' = Idle
     /\ UNCHANGED learningVars /\ Quiet

\* finish of a row that is not running raises out of the loop.
LoopDies ==
  /\ At("fail")
  /\ job[worker.mission].status # "running"
  /\ Goto("dead")
  /\ UNCHANGED <<learningVars, jobVars>> /\ Quiet

-----------------------------------------------------------------------------
(* Faults and other processes *)

\* The lease passes and a process that starts recovers the row.
Recover(m) ==
  /\ job[m].status = "running"
  /\ Retried(m)
  /\ UNCHANGED <<learningVars, worker>> /\ Quiet

ClaimElsewhere(m) ==
  /\ job[m].status = "queued" /\ job[m].attempts < MaxAttempts
  /\ job' = [job EXCEPT ![m] = [status |-> "running", attempts |-> @.attempts + 1,
                                owner |-> "elsewhere"]]
  /\ UNCHANGED <<learningVars, result, worker>> /\ Quiet

\* Another process runs the same code to its end.
CompleteElsewhere(m) ==
  /\ job[m].status = "running" /\ job[m].owner = "elsewhere"
  /\ job' = [job EXCEPT ![m].status = "completed", ![m].owner = "nobody"]
  /\ \E outcome \in IF Unknown(m) # {} THEN {"learning_required"}
                    ELSE {"awaiting_validation", "awaiting_approval"} :
       /\ result' = [result EXCEPT ![m] = outcome]
       /\ measured' = IF outcome = "awaiting_approval" THEN measured \union {m} ELSE measured
  /\ UNCHANGED <<learningVars, worker, delivered, restarts, escalated>>

\* This process dies, or its loop died, and it starts again.
Restart ==
  /\ restarts < MaxRestarts
  /\ restarts' = restarts + 1
  /\ worker' = Idle
  /\ delivered' = [m \in Missions |-> {}]
  /\ escalated' = {}
  /\ LearningLost
  /\ UNCHANGED <<jobVars, measured>>

Study == Learn /\ UNCHANGED <<jobVars, worker>> /\ Quiet

Next ==
  \/ \E m \in Missions :
       Claim(m) \/ Recover(m) \/ ClaimElsewhere(m) \/ CompleteElsewhere(m)
  \/ Register \/ EscalateNext \/ RunStage \/ CloseMission
  \/ CompleteChain \/ CompleteLearning \/ Announce
  \/ ChainRaises \/ LearningRaises \/ Fail \/ LoopDies
  \/ Restart
  \/ Study

Spec == Init /\ [][Next]_vars

-----------------------------------------------------------------------------
(* Properties *)

TypeOK ==
  /\ LearningTypeOK
  /\ job \in [Missions -> [status: {"queued", "running", "completed", "failed"},
                           attempts: 0..MaxAttempts, owner: {"nobody", "here", "elsewhere"}]]
  /\ result \in [Missions -> Results \union {"none", "error"}]
  /\ worker.at \in {"idle", "claimed", "escalate", "stage", "close", "complete",
                    "announce", "fail", "dead"}
  /\ worker.mission \in Missions \union {None}
  /\ worker.state \in {"proposed", "running", "blocked"}
  /\ escalated \subseteq Missions
  /\ measured \subseteq Missions

\* An execution this process ended as "capability_learning_required" waits, with
\* a study objective for every capability it lacks, until all it requires has
\* been validated: no retry, late attempt or other mission releases it
\* (capability_escalation: "Turn unknown capabilities into traceable Academy
\* work, never fake success").
EscalatedMissionWaits ==
  \A m \in escalated :
    /\ \A c \in Unknown(m) : gap[c] # 0 /\ c \in objective[gap[c]]
    /\ mission[m].blocked \/ CanResume(m)

\* Nobody is told that a mission completed before a result of it is durable,
\* although attempts overlap, lose their leases and fail after they completed
\* (run_claimed completes, audits and then emits); and a durable result that
\* asks an owner for approval rests on an experiment that passed in some attempt
\* (ExperimentRunner: "Absence of measurement is a real state").
AnnouncedIsDurable ==
  \A m \in Missions :
    /\ "mission.completed" \in delivered[m] => job[m].status = "completed" /\ result[m] # "none"
    /\ result[m] = "awaiting_approval" => m \in measured
=============================================================================
