---------------------------- MODULE EngineFlows ----------------------------
(***************************************************************************)
(* The ways through the engines, research to opportunity, side by side     *)
(* over one database (src/aurelix_runtime/integrated_engines.py,           *)
(* knowledge_store.py, research_knowledge.py, enterprise_loop.py,          *)
(* pipeline_runner.py, governance.py, provenance.py, and                   *)
(* src/aurelix_core/intelligence_flow.py, server.py):                      *)
(*                                                                         *)
(*   - a loop runs EnterpriseLoop.run on an EngineStore of its process,    *)
(*     which every record() writes out, dictionary by dictionary, in a     *)
(*     transaction each;                                                   *)
(*   - a handler serves POST /v1/actions/research, with a store it throws  *)
(*     away, or POST /v1/actions/experiments/{id}/execute;                 *)
(*   - a pipeline runs GovernedPipeline.run, whose provenance ledger is in *)
(*     memory.                                                             *)
(*                                                                         *)
(* It is the composition without an experiment executor, as aurelix-server *)
(* builds it: a cycle's experiment is not submitted, and an execution has  *)
(* only the observations it is sent.  (ExperimentCycle has an executor.)   *)
(*                                                                         *)
(* Abstractions.  An experiment, an opportunity and the lesson of a call   *)
(* have the number of the call.  Observations are those of ExperimentCycle:*)
(* "good" meets the criterion success >= 1, "bad" does not, "other" is a   *)
(* number of something else, "text" none.  Audit trails are left out.      *)
(***************************************************************************)
EXTENDS Naturals, FiniteSets, Sequences

CONSTANTS
  Loops, Handlers, Pipelines,   \* the threads that do each of the three
  Kinds,                        \* the kinds of observations that requests send
  MaxCalls,                     \* bound: cycles, researches and pipelines
  MaxExecutions,                \* bound: requests to execute an experiment
  MaxCrashes                    \* bound: crashes

ASSUME FlowsAssumption ==
  /\ Loops \intersect Handlers = {} /\ Pipelines \intersect (Loops \union Handlers) = {}
  /\ Kinds \subseteq {"good", "bad", "other", "text"}
  /\ MaxCalls \in Nat /\ MaxExecutions \in Nat /\ MaxCrashes \in Nat

Actors == Loops \union Handlers \union Pipelines
Calls == 1..MaxCalls

VARIABLES
  repository, \* table knowledge_items
  disk,       \* runtime_state: engine.knowledge, .experiments, .opportunities
  table,      \* table experiments
  obs,        \* table observations: the kinds on record
  mem,        \* per loop: its EngineStore
  ledger,     \* per pipeline: its ProvenanceLedger
  pc, work,   \* per actor: where it is, and its local variables
  calls,      \* history: calls begun
  executions, \* history: executions begun
  stored,     \* history: items that a record() or a research has returned from
  writers,    \* history: loops that have written runtime_state
  crashes     \* history: crashes

store == <<repository, disk, mem>>
history == <<calls, executions, stored, writers, crashes>>
vars == <<store, table, obs, ledger, pc, work, history>>

\* Knowledge items: what KnowledgeEngine makes of a call, and the evidence that
\* research_and_store keeps of it.
Lesson(n) == <<n, "lesson">>
Sources(n) == {<<n, "first">>, <<n, "second">>}
Items == Calls \X {"lesson", "first", "second"}

Final == {"passed", "failed"}

\* What research brings: nothing, for want of a provider, of an answer or of
\* results, or evidence, which is "strong" when all of it is verified.
Findings == {"none", "weak", "strong"}

\* Tavily verifies nothing.  Only a pipeline tells strong evidence from weak.
TavilyFindings == {"none", "weak"}
Stages == <<"started", "research", "academy", "knowledge", "innovation",
            "experiment", "evaluation", "opportunity", "completed">>
Types == <<"research", "academy", "knowledge", "innovation",
           "experiment", "evaluation", "opportunity", "business">>

EngineState == [knowledge: SUBSET Items, experiments: SUBSET Calls, opportunities: SUBSET Calls]
NoState == [knowledge |-> {}, experiments |-> {}, opportunities |-> {}]

\* Locals: the call or the experiment it executes, what research found, the
\* number of the stage, what is still to be put, the object fetched and the
\* observations still to be recorded or read.
Work == [call: 0..MaxCalls, found: Findings, stage: 0..9, todo: SUBSET Items,
         object: {"absent", "proposed", "awaiting"} \union Final, kinds: SUBSET Kinds]
NoWork == [call |-> 0, found |-> "none", stage |-> 0, todo |-> {}, object |-> "absent", kinds |-> {}]

Places == {"idle", "stage", "row", "items", "experiments", "opportunities",
           "load", "search", "loadExperiments", "loadOpportunities",
           "keep", "engines", "register", "record", "collect", "query", "evaluate", "advance"}

Record == [call: Calls, type: {Types[i] : i \in 1..8}, parents: SUBSET (Calls \X {Types[i] : i \in 1..8})]

TypeOK ==
  /\ repository \subseteq Items /\ stored \subseteq Items
  /\ disk \in EngineState
  /\ table \in [Calls -> {"absent", "proposed", "awaiting"} \union Final]
  /\ obs \in [Calls -> SUBSET Kinds]
  /\ mem \in [Loops -> EngineState]
  /\ ledger \in [Pipelines -> SUBSET Record]
  /\ pc \in [Actors -> Places]
  /\ work \in [Actors -> Work]
  /\ calls \in 0..MaxCalls /\ executions \in 0..MaxExecutions /\ crashes \in 0..MaxCrashes
  /\ writers \subseteq Loops

Init ==
  /\ repository = {} /\ stored = {} /\ writers = {}
  /\ disk = NoState
  /\ table = [n \in Calls |-> "absent"]
  /\ obs = [n \in Calls |-> {}]
  /\ mem = [l \in Loops |-> NoState]
  /\ ledger = [p \in Pipelines |-> {}]
  /\ pc = [a \in Actors |-> "idle"]
  /\ work = [a \in Actors |-> NoWork]
  /\ calls = 0 /\ executions = 0 /\ crashes = 0

-----------------------------------------------------------------------------

Goto(a, place) == pc' = [pc EXCEPT ![a] = place]
Return(a) == Goto(a, "idle") /\ work' = [work EXCEPT ![a] = NoWork]
Call(a) == work[a].call

\* A call begins at a place, with what its research will find.
Begin(a, place, found) ==
  /\ pc[a] = "idle"
  /\ calls < MaxCalls
  /\ calls' = calls + 1
  /\ work' = [work EXCEPT ![a] = [NoWork EXCEPT !.call = calls + 1, !.found = found, !.stage = 1]]
  /\ Goto(a, place)
  /\ UNCHANGED <<executions, stored, writers, crashes>>

-----------------------------------------------------------------------------
(* Engines *)

\* AcademyEngine has lessons, and so KnowledgeEngine an item, exactly when the
\* research found evidence; everything after it rests on that item.
Learnt(found) == found # "none"

\* What a stage adds to the EngineStore.
Adds(stage, n, found) ==
  [knowledge     |-> IF stage = "knowledge" /\ Learnt(found) THEN {Lesson(n)} ELSE {},
   experiments   |-> IF stage = "experiment" /\ Learnt(found) THEN {n} ELSE {},
   opportunities |-> IF stage = "opportunity" /\ Learnt(found) THEN {n} ELSE {}]

\* The model is asked for lessons and proposals when there is evidence; a failed
\* request raises before the stage has changed anything.
AsksModel(stage, found) == stage \in {"academy", "innovation"} /\ Learnt(found)

-----------------------------------------------------------------------------
(* EnterpriseLoop.run over a durable EngineStore *)

StartCycle(l) ==
  /\ \E found \in TavilyFindings : Begin(l, "stage", found)
  /\ UNCHANGED <<store, table, obs, ledger>>

\* A stage of the cycle changes its dictionary and calls record.
Stage(l) ==
  LET adds == Adds(Stages[work[l].stage], Call(l), work[l].found)
  IN /\ pc[l] = "stage"
     /\ mem' = [mem EXCEPT ![l] = [d \in DOMAIN NoState |-> @[d] \union adds[d]]]
     /\ Goto(l, "row")
     /\ UNCHANGED <<repository, disk, table, obs, ledger, work, history>>

StageRaises(l) ==
  /\ pc[l] = "stage"
  /\ AsksModel(Stages[work[l].stage], work[l].found)
  /\ Return(l)
  /\ UNCHANGED <<store, table, obs, ledger, history>>

\* _persist writes a whole dictionary over what any other store has written.
Writes(l, dictionary) ==
  /\ disk' = [disk EXCEPT ![dictionary] = mem[l][dictionary]]
  /\ writers' = writers \union {l}
  /\ UNCHANGED <<repository, mem, table, obs, ledger, calls, executions, crashes>>

WriteKnowledge(l) ==
  /\ pc[l] = "row"
  /\ Writes(l, "knowledge")
  /\ Goto(l, "items")
  /\ work' = [work EXCEPT ![l].todo = mem[l].knowledge]
  /\ UNCHANGED stored

\* The repository gets the items one by one.
PutItem(l) ==
  /\ pc[l] = "items"
  /\ \E i \in work[l].todo :
       /\ repository' = repository \union {i}
       /\ work' = [work EXCEPT ![l].todo = @ \ {i}]
  /\ UNCHANGED <<disk, mem, table, obs, ledger, pc, history>>

WriteExperiments(l) ==
  /\ pc[l] = "items" /\ work[l].todo = {}
  /\ Writes(l, "experiments")
  /\ Goto(l, "opportunities")
  /\ UNCHANGED <<work, stored>>

\* The last dictionary is written: record returns, and the next stage begins.
WriteOpportunities(l) ==
  /\ pc[l] = "opportunities"
  /\ Writes(l, "opportunities")
  /\ stored' = stored \union mem[l].knowledge
  /\ IF work[l].stage = Len(Stages)
     THEN Return(l)
     ELSE Goto(l, "stage") /\ work' = [work EXCEPT ![l].stage = @ + 1]

\* EngineStore._load, read by read, in a process that has started again.
Load(l, from, to, dictionary, value) ==
  /\ pc[l] = from
  /\ mem' = [mem EXCEPT ![l][dictionary] = value]
  /\ Goto(l, to)
  /\ UNCHANGED <<repository, disk, table, obs, ledger, work, history>>

\* Mutants: the knowledge in the repository, or the experiments, are not loaded.
MergedRowOnly(l) == mem[l].knowledge
LoadExperimentsForgotten(l) == Load(l, "loadExperiments", "loadOpportunities", "experiments", {})

\* The items of the repository join those of the row.
Merged(l) == mem[l].knowledge \union repository

LoadKnowledge(l) == Load(l, "load", "search", "knowledge", disk.knowledge)
SearchRepository(l) == Load(l, "search", "loadExperiments", "knowledge", Merged(l))
LoadExperiments(l) == Load(l, "loadExperiments", "loadOpportunities", "experiments", disk.experiments)
LoadOpportunities(l) == Load(l, "loadOpportunities", "idle", "opportunities", disk.opportunities)

-----------------------------------------------------------------------------
(* POST /v1/actions/research: IntelligenceFlow.research_to_experiment *)

\* The provider has answered; one that raised leaves nothing behind.
Research(h) ==
  /\ \E found \in TavilyFindings : Begin(h, "keep", found)
  /\ UNCHANGED <<store, table, obs, ledger>>

\* Mutant: the loop over the evidence ends after its first item.
StillToKeepOne(n) == IF Sources(n) \intersect repository = {} THEN Sources(n) ELSE {}

\* The evidence of a call that is not yet an item of the repository.
StillToKeep(n) == Sources(n) \ repository

KeepSource(h) ==
  /\ pc[h] = "keep" /\ Learnt(work[h].found)
  /\ \E i \in StillToKeep(Call(h)) : repository' = repository \union {i}
  /\ UNCHANGED <<disk, mem, table, obs, ledger, pc, work, history>>

ResearchReturns(h) ==
  /\ pc[h] = "keep"
  /\ Learnt(work[h].found) => StillToKeep(Call(h)) = {}
  /\ Goto(h, "engines")
  /\ stored' = stored \union (IF Learnt(work[h].found) THEN Sources(Call(h)) ELSE {})
  /\ UNCHANGED <<store, table, obs, ledger, work, calls, executions, writers, crashes>>

\* The engines run on a store of the call alone.  The model may raise; without
\* evidence there is no experiment, and looking it up raises.
EnginesReturn(h) ==
  /\ pc[h] = "engines"
  /\ Learnt(work[h].found)
  /\ Goto(h, "register")
  /\ UNCHANGED <<store, table, obs, ledger, work, history>>

EnginesRaise(h) ==
  /\ pc[h] = "engines"
  /\ Return(h)
  /\ UNCHANGED <<store, table, obs, ledger, history>>

\* Mutant: the upsert replaces a result.
RegisteredAlways(e, status) == [table EXCEPT ![e] = status]

\* register_experiment keeps the status and the result of a complete row.
Registered(e, status) == IF table[e] \in Final THEN table ELSE [table EXCEPT ![e] = status]

RegisterExperiment(h) ==
  /\ pc[h] = "register"
  /\ table' = Registered(Call(h), "proposed")
  /\ Return(h)
  /\ UNCHANGED <<store, obs, ledger, history>>

-----------------------------------------------------------------------------
(* POST /v1/actions/experiments/{id}/execute *)

\* An experiment that the table has, and the observations of the request.
Execute(h) ==
  /\ pc[h] = "idle"
  /\ executions < MaxExecutions
  /\ executions' = executions + 1
  /\ \E e \in Calls, kinds \in SUBSET Kinds :
       /\ table[e] # "absent"
       /\ work' = [work EXCEPT ![h] = [NoWork EXCEPT !.call = e, !.kinds = kinds]]
  /\ Goto(h, "record")
  /\ UNCHANGED <<store, table, obs, ledger, calls, stored, writers, crashes>>

RecordObservation(h) ==
  /\ pc[h] = "record"
  /\ \E k \in work[h].kinds :
       /\ obs' = [obs EXCEPT ![Call(h)] = @ \union {k}]
       /\ work' = [work EXCEPT ![h].kinds = @ \ {k}]
  /\ UNCHANGED <<store, table, ledger, pc, history>>

\* get_experiment, and ExperimentRunner.execute of one that is complete.
Fetch(h) ==
  /\ pc[h] = "record" /\ work[h].kinds = {}
  /\ IF table[Call(h)] \in Final
     THEN Return(h)
     ELSE Goto(h, "collect") /\ work' = [work EXCEPT ![h].object = table[Call(h)]]
  /\ UNCHANGED <<store, table, obs, ledger, history>>

\* The collector registers the experiment as it was fetched, then reads.
Collect(h) ==
  /\ pc[h] = "collect"
  /\ table' = Registered(Call(h), work[h].object)
  /\ Goto(h, "query")
  /\ UNCHANGED <<store, obs, ledger, work, history>>

Query(h) ==
  /\ pc[h] = "query"
  /\ work' = [work EXCEPT ![h].kinds = obs[Call(h)]]
  /\ Goto(h, "evaluate")
  /\ UNCHANGED <<store, table, obs, ledger, history>>

\* ExperimentRunner.execute and EvaluationEngine.evaluate: no number, no result;
\* the mean of good and bad ones may be either, and none of success is a failure.
Verdicts(kinds) ==
  IF kinds \subseteq {"text"} THEN {"awaiting"}
  ELSE (IF "good" \in kinds THEN {"passed"} ELSE {}) \union
       (IF "bad" \in kinds \/ "good" \notin kinds THEN {"failed"} ELSE {})

Evaluate(h) ==
  /\ pc[h] = "evaluate"
  /\ \E verdict \in Verdicts(work[h].kinds) : table' = Registered(Call(h), verdict)
  /\ Return(h)
  /\ UNCHANGED <<store, obs, ledger, history>>

-----------------------------------------------------------------------------
(* GovernedPipeline.run *)

StartPipeline(p) ==
  /\ \E found \in Findings : Begin(p, "advance", found)
  /\ UNCHANGED <<store, table, obs, ledger>>

\* The stages of a run: sufficient evidence needs no academy, unless the caller
\* asks to learn.
Skipped(found) == IF found = "strong" THEN {2} ELSE {}

Subjects(l) == {<<r.call, r.type>> : r \in l}

\* Mutant: every stage is given the research for its parent.
ParentFirst(n, l, stage) == IF stage = 1 THEN {} ELSE {<<n, "research">>}

\* A stage's parent is the object of the stage before it that was not skipped.
Parent(n, l, stage) ==
  {<<n, Types[i]>> : i \in {j \in 1..(stage - 1) : <<n, Types[j]>> \in Subjects(l)
                                  /\ \A k \in (j + 1)..(stage - 1) : <<n, Types[k]>> \notin Subjects(l)}}

\* GovernanceGate.authorize: what needs provenance has parents, and each of them
\* is a subject of the ledger.  (The policy denies nothing but execute_business.)
Authorized(l, type, parents) ==
  /\ type \in {"knowledge", "experiment", "evaluation", "opportunity"} => parents # {}
  /\ parents \subseteq Subjects(l)

Advance(p) ==
  LET stage == work[p].stage
      parents == Parent(Call(p), ledger[p], stage)
  IN /\ pc[p] = "advance"
     /\ \/ /\ Authorized(ledger[p], Types[stage], parents)
           /\ ledger' = [ledger EXCEPT ![p] =
                @ \union {[call |-> Call(p), type |-> Types[stage], parents |-> parents]}]
        \/ stage \in Skipped(work[p].found) /\ UNCHANGED ledger
     /\ IF stage = Len(Types)
        THEN Return(p)
        ELSE work' = [work EXCEPT ![p].stage = @ + 1] /\ UNCHANGED pc
     /\ UNCHANGED <<store, table, obs, history>>

\* ProvenanceLedger.lineage: the records of a subject, of its parents, and so on;
\* a parent without a record leads to the records that share it.
Towards(l, parent) ==
  LET own == {r \in l : <<r.call, r.type>> = parent}
  IN IF own # {} THEN own ELSE {r \in l : parent \in r.parents}

Lineage(l, subject) ==
  LET reach[k \in 0..Cardinality(l)] ==
        IF k = 0 THEN {r \in l : <<r.call, r.type>> = subject}
        ELSE reach[k - 1] \union UNION {Towards(l, parent) : parent \in UNION {r.parents : r \in reach[k - 1]}}
  IN reach[Cardinality(l)]

-----------------------------------------------------------------------------

\* A process dies: an EngineStore is loaded again, a ledger is empty again.
Crash(a) ==
  /\ crashes < MaxCrashes
  /\ pc[a] # "idle"
  /\ crashes' = crashes + 1
  /\ work' = [work EXCEPT ![a] = NoWork]
  /\ Goto(a, IF a \in Loops THEN "load" ELSE "idle")
  /\ mem' = [l \in Loops |-> IF l = a THEN NoState ELSE mem[l]]
  /\ ledger' = [p \in Pipelines |-> IF p = a THEN {} ELSE ledger[p]]
  /\ UNCHANGED <<repository, disk, table, obs, calls, executions, stored, writers>>

Cycle(l) ==
  \/ StartCycle(l) \/ Stage(l) \/ StageRaises(l)
  \/ WriteKnowledge(l) \/ PutItem(l) \/ WriteExperiments(l) \/ WriteOpportunities(l)
  \/ LoadKnowledge(l) \/ SearchRepository(l) \/ LoadExperiments(l) \/ LoadOpportunities(l)

Serve(h) ==
  \/ Research(h) \/ KeepSource(h) \/ ResearchReturns(h)
  \/ EnginesReturn(h) \/ EnginesRaise(h) \/ RegisterExperiment(h)
  \/ Execute(h) \/ RecordObservation(h) \/ Fetch(h) \/ Collect(h) \/ Query(h) \/ Evaluate(h)

Next ==
  \/ \E l \in Loops : Cycle(l)
  \/ \E h \in Handlers : Serve(h)
  \/ \E p \in Pipelines : StartPipeline(p) \/ Advance(p)
  \/ \E a \in Actors : Crash(a)

Spec == Init /\ [][Next]_vars

-----------------------------------------------------------------------------
(* Properties *)

\* A process that starts again knows every item that a record or a research had
\* returned from, in whichever process, although any process may have written
\* its own dictionary over the row that held it.
RestartForgetsNothing ==
  [][\A l \in Loops :
       pc[l] = "search" /\ pc'[l] = "loadExperiments" => stored \subseteq mem'[l].knowledge]_vars

\* No experiment is durable before the knowledge it was made from: the lesson of
\* its cycle or the evidence of its request.
ExperimentRestsOnKnowledge ==
  /\ \A n \in disk.experiments : Lesson(n) \in repository
  /\ \A n \in Calls : table[n] # "absent" => Sources(n) \subseteq repository

\* A durable opportunity without its experiment is the work of two processes
\* that wrote over each other: a single one never leaves it, wherever it dies.
DanglingNeedsTwoWriters ==
  disk.opportunities \subseteq disk.experiments \/ Cardinality(writers) > 1

\* The first result of an experiment stays, however many requests measure it.
FirstResultStays ==
  [][\A e \in Calls : table[e] \in Final => table'[e] = table[e]]_vars

\* The lineage of what a pipeline ends with is its own run, back to its research.
LineageIsWhole ==
  \A p \in Pipelines : \A n \in Calls :
    <<n, "business">> \in Subjects(ledger[p]) =>
      Subjects(Lineage(ledger[p], <<n, "business">>)) =
        {s \in Subjects(ledger[p]) : s[1] = n}
=============================================================================
