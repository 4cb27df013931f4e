------------------------- MODULE CapabilityLearning -------------------------
(***************************************************************************)
(* Learning what a mission cannot do yet: the registries of a process's    *)
(* continuous intelligence (aurelix_core/continuous_intelligence.py), the  *)
(* gaps that are escalated to it (capability_escalation.py), the missions  *)
(* that wait for them (adaptive_loop.py), what the Academy projects into   *)
(* it (academy_intelligence_bridge.py) and the opportunities that validated*)
(* capabilities lead to (capability_opportunity_bridge.py).                *)
(*                                                                         *)
(* Every registry is a dictionary by uuid to which entries are added and   *)
(* from which none is taken: here a sequence, whose indices are the ids.   *)
(* Each call is one step; who learns, evaluates and validates, and when, is*)
(* not said by the code, so these calls come in any order.                 *)
(*                                                                         *)
(* Abstractions.  Names are case-folded.  Priorities, strengths, titles,   *)
(* domains and study experiments, which nothing reads, are left out.  The  *)
(* fabric gives one reason for every gap, so a capability has one gap.     *)
(***************************************************************************)
EXTENDS Naturals, FiniteSets, Sequences

CONSTANTS
  Missions,        \* execution ids
  Capabilities,    \* names of capabilities
  Required,        \* required_capabilities of each mission
  MaxObjectives, MaxEvidence, MaxEvaluations, MaxCapabilities \* bounds

ASSUME LearningAssumption ==
  /\ Required \in [Missions -> SUBSET Capabilities]
  /\ {MaxObjectives, MaxEvidence, MaxEvaluations, MaxCapabilities} \subseteq Nat

VARIABLES
  mission,    \* AdaptiveLoop.missions
  gap,        \* CapabilityEscalator.gaps: of each capability its objective, or 0
  objective,  \* ContinuousIntelligence.objectives: their target_competencies
  evidence,   \* ...evidence: the objective of each
  evaluation, \* ...evaluations
  capability, \* ...capabilities, all of them validated
  knowledge,  \* ...knowledge, as projected from the Academy
  candidate   \* CapabilityOpportunityBridge._by_capability: capability ids

registryVars == <<objective, evidence, evaluation, capability, knowledge>>
learningVars == <<mission, gap, registryVars, candidate>>

Unregistered == [known |-> FALSE, blocked |-> FALSE, gaps |-> {}]

\* The registries of a process that has just started.
LearningInit ==
  /\ mission = [m \in Missions |-> Unregistered]
  /\ gap = [c \in Capabilities |-> 0]
  /\ objective = <<>>
  /\ evidence = <<>>
  /\ evaluation = <<>>
  /\ capability = <<>>
  /\ knowledge = <<>>
  /\ candidate = {}

\* The same, of a process that starts again.
LearningLost ==
  /\ mission' = [m \in Missions |-> Unregistered]
  /\ gap' = [c \in Capabilities |-> 0]
  /\ objective' = <<>>
  /\ evidence' = <<>>
  /\ evaluation' = <<>>
  /\ capability' = <<>>
  /\ knowledge' = <<>>
  /\ candidate' = {}

-----------------------------------------------------------------------------
(* ContinuousIntelligence *)

ProposeObjective(targets) ==
  /\ Len(objective) < MaxObjectives
  /\ objective' = Append(objective, targets)

\* A capability is added even when one of the name is there.
ValidateCapability(c, refs) ==
  /\ refs # {} /\ refs \subseteq DOMAIN evidence
  /\ Len(capability) < MaxCapabilities
  /\ capability' = Append(capability, [name |-> c, refs |-> refs])

\* Knowledge that rests on the evidence ref, which was just recorded.
RecordKnowledge(ref, validated) ==
  /\ ref \in DOMAIN evidence'
  /\ knowledge' = Append(knowledge, [validated |-> validated, ref |-> ref])

-----------------------------------------------------------------------------
(* Missions and gaps *)

\* register_mission: whatever is known of the mission is forgotten.
RegisterMission(m) ==
  mission' = [mission EXCEPT ![m] = [known |-> TRUE, blocked |-> FALSE, gaps |-> {}]]

\* escalate: the gap that is known, or a new one with its study objective.
Escalate(c) ==
  IF gap[c] # 0 THEN UNCHANGED <<gap, objective>>
  ELSE /\ ProposeObjective({c})
       /\ gap' = [gap EXCEPT ![c] = Len(objective')]

\* block_for_capability
BlockForCapability(m, c) ==
  /\ mission[m].known
  /\ Escalate(c)
  /\ mission' = [mission EXCEPT ![m].blocked = TRUE, ![m].gaps = @ \union {c}]

CapabilityValidated(c) == \E i \in DOMAIN capability : capability[i].name = c

CanResume(m) == \A c \in Required[m] : CapabilityValidated(c)

ResumeReady(m) ==
  /\ mission[m].known
  /\ CanResume(m)
  /\ mission' = [mission EXCEPT ![m].blocked = FALSE]
  /\ UNCHANGED <<gap, registryVars, candidate>>

-----------------------------------------------------------------------------
(* Study *)

RecordEvidence(o) ==
  /\ o \in DOMAIN objective
  /\ Len(evidence) < MaxEvidence
  /\ evidence' = Append(evidence, o)
  /\ UNCHANGED <<mission, gap, objective, evaluation, capability, knowledge, candidate>>

\* evaluate: PASSED is score >= 0.7; the evidence may be that of any objective.
Evaluate(o, refs, passed) ==
  /\ o \in DOMAIN objective
  /\ refs \subseteq DOMAIN evidence
  /\ Len(evaluation) < MaxEvaluations
  /\ evaluation' = Append(evaluation, [objective |-> o, passed |-> passed, refs |-> refs])
  /\ UNCHANGED <<mission, gap, objective, evidence, capability, knowledge, candidate>>

\* The checks of validate_learning on an evaluation and the evidence.
Covered(e, refs) ==
  /\ evaluation[e].passed
  /\ refs # {} /\ refs \subseteq evaluation[e].refs

\* validate_learning: the evaluation, its objective and the mission fit.
ValidateLearning(m, c, e, refs) ==
  /\ mission[m].known
  /\ e \in DOMAIN evaluation
  /\ Covered(e, refs)
  /\ c \in Required[m]
  /\ c \in objective[evaluation[e].objective]
  /\ ValidateCapability(c, refs)
  /\ UNCHANGED <<mission, gap, objective, evidence, evaluation, knowledge, candidate>>

\* validate_capability itself, which asks for evidence on record and no more: of
\* any objective, and without an evaluation.
ValidateDirectly(c, refs) ==
  /\ ValidateCapability(c, refs)
  /\ UNCHANGED <<mission, gap, objective, evidence, evaluation, knowledge, candidate>>

\* CapabilityOpportunityBridge.propose: one candidate for each capability id.
ProposeOpportunity(i) ==
  /\ i \in DOMAIN capability
  /\ candidate' = candidate \union {i}
  /\ UNCHANGED <<mission, gap, registryVars>>

\* SystemOrchestrator._project_academy: the lessons of a cycle become an
\* objective that targets nothing, evidence of it and knowledge, which is
\* validated when its confidence is 1.0, that is, its sources were verified.
ProjectAcademy(verified) ==
  /\ Len(evidence) < MaxEvidence
  /\ ProposeObjective({})
  /\ evidence' = Append(evidence, Len(objective'))
  /\ RecordKnowledge(Len(evidence'), verified)
  /\ UNCHANGED <<mission, gap, evaluation, capability, candidate>>

\* What students, evaluators, the cycle and owners of missions do.
Learn ==
  \/ \E m \in Missions : ResumeReady(m)
  \/ \E o \in DOMAIN objective :
       \/ RecordEvidence(o)
       \/ \E refs \in SUBSET DOMAIN evidence, passed \in BOOLEAN : Evaluate(o, refs, passed)
  \/ \E m \in Missions, c \in Capabilities, e \in DOMAIN evaluation,
        refs \in SUBSET DOMAIN evidence : ValidateLearning(m, c, e, refs)
  \/ \E c \in Capabilities, refs \in SUBSET DOMAIN evidence : ValidateDirectly(c, refs)
  \/ \E i \in DOMAIN capability : ProposeOpportunity(i)
  \/ \E verified \in BOOLEAN : ProjectAcademy(verified)

-----------------------------------------------------------------------------

LearningTypeOK ==
  /\ mission \in [Missions -> [known: BOOLEAN, blocked: BOOLEAN, gaps: SUBSET Capabilities]]
  /\ gap \in [Capabilities -> 0..Len(objective)]
  /\ objective \in Seq(SUBSET Capabilities)
  /\ evidence \in Seq(DOMAIN objective)
  /\ evaluation \in Seq([objective: DOMAIN objective, passed: BOOLEAN,
                         refs: SUBSET DOMAIN evidence])
  /\ capability \in Seq([name: Capabilities, refs: SUBSET DOMAIN evidence])
  /\ knowledge \in Seq([validated: BOOLEAN, ref: DOMAIN evidence])
  /\ candidate \subseteq DOMAIN capability
=============================================================================
