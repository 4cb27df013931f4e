--------------------------- MODULE SelfImprovement ---------------------------
(***************************************************************************)
(* The governed self-improvement of an EngineFactory: diagnose, validate,  *)
(* plan, approve, change the repository, verify, decide on recovery, learn *)
(* (aurelix_runtime/self_improvement.py, system_diagnostics.py,            *)
(* system_validation.py, system_developer.py, recovery.py,                 *)
(* learning_feedback.py; aurelix_core/engine_factory.py).                  *)
(*                                                                         *)
(* Nothing in the repository implements the repository adapter, adds the   *)
(* changes to a plan or decides to approve it: they are the owner's, and a *)
(* call of the adapter commits or raises.  Several threads may call the    *)
(* factory, and what the checks read changes between two steps.            *)
(*                                                                         *)
(* Abstractions.  A check is the status it returns; checks that this       *)
(* composition always passes are not named one by one.  The change set of  *)
(* a plan is the sequence of what each change meets.  Audits are rows that *)
(* nothing reads: only whether they raise, and the one that a whole change *)
(* set leaves, are kept.                                                   *)
(***************************************************************************)
EXTENDS Naturals, Sequences, FiniteSets

CONSTANTS
  Executions,     \* bound: calls of execute or execute_and_verify
  Compositions,   \* how the factory was put together
  ChangeSets,     \* the change sets that owners add to a plan
  MaxFiles,       \* SystemDeveloper.MAX_FILES
  MaxChanges      \* bound: times that a dependency goes down or comes back

\* registry: the runtime that was passed in has a health registry, which
\* AurelixRuntime has not; model, research: a provider is configured, as the
\* ones of development mode always are.
Composition ==
  [registry: {"absent", "empty", "ok", "degraded"}, autonomy: BOOLEAN, executor: BOOLEAN,
   model: BOOLEAN, research: BOOLEAN, development: BOOLEAN, repository: BOOLEAN]

\* A change is outside what the developer may do, or goes to the adapter.
Changes == {"refused", "bounded"}

ASSUME ImprovementAssumption ==
  /\ Compositions \subseteq Composition
  /\ \A c \in Compositions : c.development => c.model /\ c.research
  /\ ChangeSets \subseteq Seq(Changes)
  /\ MaxFiles \in Nat /\ MaxChanges \in Nat

VARIABLES
  factory,    \* the composition
  down,       \* what fails now: the store's database, the model's endpoint
  plan,       \* the plan's status, as the owner holds it
  call,       \* what each call was given, where it is and what it has seen
  commits,    \* repository: the changes of the call it holds
  executed,   \* calls audited as system_developer.executed
  lesson,     \* the outcome of the knowledge item of each call
  changes

improvementVars == <<factory, down, plan, call, commits, executed, lesson, changes>>

\* What execute answers, and what a cycle is reported as.
Answers == {"none", "awaiting_approval", "awaiting_repository_adapter", "rejected", "failed",
            "applied", "verified", "regression_detected"}

Call == [at: {"none", "validate", "execute", "apply", "diagnose", "revalidate", "decide",
              "learn", "returned", "raised"},
         whole: BOOLEAN, granted: BOOLEAN, set: ChangeSets \union {<<>>}, next: Nat,
         before: Nat, after: Nat, validated: {"failed", "degraded", "ok"}, status: Answers]

ImprovementTypeOK ==
  /\ factory \in Compositions
  /\ down \subseteq {"store", "model"}
  /\ plan \in {"none", "awaiting_approval", "approved", "rejected"}
  /\ call \in [Executions -> Call]
  /\ \A e \in Executions : commits[e] \subseteq DOMAIN call[e].set
  /\ executed \subseteq Executions
  /\ lesson \in [Executions -> {"none", "verified", "regression_detected"}]
  /\ changes \in 0..MaxChanges

NoCall == [at |-> "none", whole |-> FALSE, granted |-> FALSE, set |-> <<>>, next |-> 1,
           before |-> 0, after |-> 0, validated |-> "ok", status |-> "none"]

ImprovementInit ==
  /\ factory \in Compositions
  /\ down = {}
  /\ plan = "none"
  /\ call = [e \in Executions |-> NoCall]
  /\ commits = [e \in Executions |-> {}]
  /\ executed = {}
  /\ lesson = [e \in Executions |-> "none"]
  /\ changes = 0

-----------------------------------------------------------------------------
(* The two suites of checks *)

Reads(dependency) == IF dependency \in down THEN "failed" ELSE "ok"

Provider(configured, status) == IF configured THEN status ELSE "degraded"

Readiness == IF factory.development THEN "degraded"
             ELSE IF factory.research THEN "ok" ELSE "failed"

\* The research providers have no health check.  The other checks of a factory
\* that has been built, of its specialists, its developer and its economic
\* context, are ok.
Diagnosis ==
  [runtime |-> Reads("store"),
   canonical_composition |-> Provider(factory.autonomy, "ok"),
   experiment_execution |-> IF factory.executor THEN "ok" ELSE "failed",
   live_opportunity_readiness |-> Readiness,
   model_provider |-> Provider(factory.model, Reads("model")),
   research_provider |-> Provider(factory.research, "ok"),
   knowledge_store |-> Reads("store")]

\* A registry that knows no component is "unknown", which counts as neither
\* failed nor degraded; without one the check crashes, which is a failure.
Health == CASE factory.registry = "absent" -> "failed"
            [] factory.registry = "degraded" -> "degraded"
            [] OTHER -> "ok"

\* The checks of the factory's own parts are ok here too.
Validation ==
  [health_registry |-> Health,
   canonical_composition |-> Provider(factory.autonomy, "ok"),
   experiment_execution |-> IF factory.executor THEN "ok" ELSE "degraded",
   knowledge_store |-> Reads("store")]

Count(report, status) == Cardinality({c \in DOMAIN report : report[c] = status})

Overall(report) ==
  IF Count(report, "failed") > 0 THEN "failed"
  ELSE IF Count(report, "degraded") > 0 THEN "degraded" ELSE "ok"

-----------------------------------------------------------------------------
(* Plans *)

Audits == "store" \notin down

\* prepare, and the plan it awaits approval for: a report of each suite and
\* the plan, the last two audited.
Prepare ==
  /\ plan = "none"
  /\ Audits
  /\ plan' = "awaiting_approval"
  /\ UNCHANGED <<factory, down, call, commits, executed, lesson, changes>>

\* approve copies the plan with the owner's verdict, whatever it said before.
Approve ==
  /\ plan # "none"
  /\ Audits
  /\ plan' \in {"approved", "rejected"}
  /\ UNCHANGED <<factory, down, call, commits, executed, lesson, changes>>

-----------------------------------------------------------------------------
(* The developer's execute *)

At(e, where) == call[e].at = where

Step(e, where) == call' = [call EXCEPT ![e].at = where]
Return(e, status) == call' = [call EXCEPT ![e].at = "returned", ![e].status = status]

\* execute answered anything but applied: its caller has the answer, or the
\* cycle records itself without a recovery, which _summarize reads, and raises.
NotApplied(e, status) ==
  IF call[e].whole THEN Step(e, "raised") ELSE Return(e, status)

\* The owner calls execute, or execute_and_verify, which diagnoses first, with
\* the plan as it is held now.
Begin(e) ==
  /\ At(e, "none")
  /\ plan # "none"
  /\ \E whole \in BOOLEAN, approved \in BOOLEAN, set \in ChangeSets :
       call' = [call EXCEPT ![e] =
         [NoCall EXCEPT !.at = IF whole THEN "validate" ELSE "execute",
                        !.whole = whole, !.set = set,
                        !.granted = approved /\ plan = "approved",
                        !.before = IF whole THEN Count(Diagnosis, "failed") ELSE 0]]
  /\ UNCHANGED <<factory, down, plan, commits, executed, lesson, changes>>

\* The precondition; a blocked cycle records itself and raises.
Validate(e) ==
  /\ At(e, "validate")
  /\ Step(e, IF Audits /\ Overall(Validation) # "failed" THEN "execute" ELSE "raised")
  /\ UNCHANGED <<factory, down, plan, commits, executed, lesson, changes>>

Execute(e) ==
  /\ At(e, "execute")
  /\ IF ~call[e].granted THEN NotApplied(e, "awaiting_approval")
     ELSE IF ~factory.repository THEN NotApplied(e, "awaiting_repository_adapter")
     ELSE IF Len(call[e].set) \notin 1..MaxFiles THEN NotApplied(e, "rejected")
     ELSE Step(e, "apply")
  /\ UNCHANGED <<factory, down, plan, commits, executed, lesson, changes>>

\* The adapter commits the next change.
ApplyChange(e) ==
  /\ At(e, "apply")
  /\ call[e].next <= Len(call[e].set)
  /\ call[e].set[call[e].next] = "bounded"
  /\ commits' = [commits EXCEPT ![e] = @ \union {call[e].next}]
  /\ call' = [call EXCEPT ![e].next = @ + 1]
  /\ UNCHANGED <<factory, down, plan, executed, lesson, changes>>

\* Mutant of Halt: the loop goes on after a change that failed.
HaltAtEnd(e) == call' = [call EXCEPT ![e].next = @ + 1]

\* What was committed before stays.
Halt(e) == NotApplied(e, "failed")

\* The next change is refused, or the adapter raises.
ChangeFails(e) ==
  /\ At(e, "apply")
  /\ call[e].next <= Len(call[e].set)
  /\ Halt(e)
  /\ UNCHANGED <<factory, down, plan, commits, executed, lesson, changes>>

\* All changes are applied, and audited.
Applied(e) ==
  /\ At(e, "apply")
  /\ call[e].next > Len(call[e].set)
  /\ IF Audits
     THEN /\ executed' = executed \union {e}
          /\ IF call[e].whole THEN Step(e, "diagnose") ELSE Return(e, "applied")
     ELSE /\ Step(e, "raised")
          /\ UNCHANGED executed
  /\ UNCHANGED <<factory, down, plan, commits, lesson, changes>>

-----------------------------------------------------------------------------
(* Verification, recovery and learning *)

Diagnose(e) ==
  /\ At(e, "diagnose")
  /\ call' = [call EXCEPT ![e].at = "revalidate", ![e].after = Count(Diagnosis, "failed")]
  /\ UNCHANGED <<factory, down, plan, commits, executed, lesson, changes>>

Revalidate(e) ==
  /\ At(e, "revalidate")
  /\ call' = [call EXCEPT ![e].at = IF Audits THEN "decide" ELSE "raised",
                          ![e].validated = Overall(Validation)]
  /\ UNCHANGED <<factory, down, plan, commits, executed, lesson, changes>>

\* Mutant of Regression: only what got worse counts.
RegressionWorse(e) == call[e].after > call[e].before

\* More failures than before, or any.
Regression(e) == call[e].after > call[e].before \/ call[e].after > 0

\* decide audits its decision; a cycle that is no regression is still reported
\* as one unless the second validation is ok.
Decide(e) ==
  /\ At(e, "decide")
  /\ call' = [call EXCEPT
       ![e].at = IF Audits THEN "learn" ELSE "raised",
       ![e].status = IF ~Regression(e) /\ call[e].validated = "ok"
                     THEN "verified" ELSE "regression_detected"]
  /\ UNCHANGED <<factory, down, plan, commits, executed, lesson, changes>>

\* record_cycle puts the knowledge item and audits it.
LearnOutcome(e) ==
  /\ At(e, "learn")
  /\ IF Audits
     THEN /\ lesson' = [lesson EXCEPT ![e] = call[e].status]
          /\ Step(e, "returned")
     ELSE /\ Step(e, "raised")
          /\ UNCHANGED lesson
  /\ UNCHANGED <<factory, down, plan, commits, executed, changes>>

-----------------------------------------------------------------------------

\* The database or the model's endpoint fails, or comes back.
DependencyChanges ==
  /\ changes < MaxChanges
  /\ changes' = changes + 1
  /\ \E d \in {"store"} \union IF factory.model THEN {"model"} ELSE {} :
       down' = IF d \in down THEN down \ {d} ELSE down \union {d}
  /\ UNCHANGED <<factory, plan, call, commits, executed, lesson>>

ImprovementNext ==
  \/ Prepare \/ Approve \/ DependencyChanges
  \/ \E e \in Executions :
       \/ Begin(e) \/ Validate(e) \/ Execute(e)
       \/ ApplyChange(e) \/ ChangeFails(e) \/ Applied(e)
       \/ Diagnose(e) \/ Revalidate(e) \/ Decide(e) \/ LearnOutcome(e)

ImprovementSpec == ImprovementInit /\ [][ImprovementNext]_improvementVars

-----------------------------------------------------------------------------
(* Properties *)

\* An execution that is audited as succeeded changed all its files: nothing
\* that was refused or raised in the middle of a change set is behind it.
AuditedIsWhole == \A e \in executed : commits[e] = DOMAIN call[e].set /\ commits[e] # {}

\* What is learnt as verified was approved, audited and applied as a whole, in a
\* composition that could have run an experiment on evidence of its research:
\* without an executor one suite degrades and the other fails, before and after.
VerifiedIsEarned ==
  \A e \in Executions : lesson[e] = "verified" =>
    /\ call[e].granted /\ e \in executed
    /\ factory.executor /\ factory.autonomy /\ factory.research
=============================================================================
