------------------------ MODULE AutonomyMissionProofs ------------------------
(***************************************************************************)
(* What holds of autonomous executions and of the learning beside them for *)
(* every set of missions and capabilities: the registries are whole,       *)
(* missions that were escalated wait, and what is announced is durable.    *)
(***************************************************************************)
EXTENDS AutonomyMission, SequenceTheorems, TLAPS

\* Every gap that was escalated has a study objective that targets it.
GapsAreStudied == \A c \in Capabilities : gap[c] # 0 => c \in objective[gap[c]]

\* The invariant of the registries.
RegistriesInv == LearningTypeOK /\ GapsAreStudied

\* What learning does not take back: gaps that are known, capabilities that let
\* a mission resume, and blocks of missions that may not.
Keeps ==
  /\ \A c \in Capabilities : gap[c] # 0 => gap'[c] # 0
  /\ \A m \in Missions :
       /\ CanResume(m) => CanResume(m)'
       /\ mission[m].blocked => mission'[m].blocked \/ CanResume(m)'

-----------------------------------------------------------------------------
(* The registries *)

\* Appending to a sequence keeps what it has.
LEMMA Appended ==
  ASSUME NEW S, NEW T, S \subseteq T, NEW s \in Seq(S), NEW e \in T
  PROVE  /\ Append(s, e) \in Seq(T)
         /\ Len(Append(s, e)) = Len(s) + 1 /\ Len(s) \in Nat
         /\ DOMAIN Append(s, e) = 1..(Len(s) + 1) /\ DOMAIN s = 1..Len(s)
         /\ \A i \in 1..Len(s) : Append(s, e)[i] = s[i] /\ s[i] \in S
         /\ Append(s, e)[Len(s) + 1] = e
  <1>1. s \in Seq(T)
    BY SeqMonotonic
  <1>2. \A i \in 1..Len(s) : s[i] \in S
    BY ElementOfSeq
  <1> QED BY <1>1, <1>2

\* What the types of the registries say of their entries.
LEMMA Entries ==
  ASSUME LearningTypeOK
  PROVE  /\ Len(objective) \in Nat /\ DOMAIN objective = 1..Len(objective)
         /\ \A i \in DOMAIN objective : objective[i] \subseteq Capabilities
         /\ Len(evidence) \in Nat /\ DOMAIN evidence = 1..Len(evidence)
         /\ DOMAIN evaluation = 1..Len(evaluation) /\ Len(evaluation) \in Nat
         /\ \A e \in DOMAIN evaluation : evaluation[e].objective \in DOMAIN objective
         /\ DOMAIN capability = 1..Len(capability) /\ Len(capability) \in Nat
         /\ \A i \in DOMAIN capability : capability[i].name \in Capabilities
  <1>1. /\ objective \in Seq(SUBSET Capabilities) /\ evidence \in Seq(DOMAIN objective)
        /\ evaluation \in Seq([objective: DOMAIN objective, passed: BOOLEAN,
                               refs: SUBSET DOMAIN evidence])
        /\ capability \in Seq([name: Capabilities, refs: SUBSET DOMAIN evidence])
    BY DEF LearningTypeOK
  <1>2. /\ Len(objective) \in Nat /\ DOMAIN objective = 1..Len(objective)
        /\ Len(evidence) \in Nat /\ DOMAIN evidence = 1..Len(evidence)
        /\ Len(evaluation) \in Nat /\ DOMAIN evaluation = 1..Len(evaluation)
        /\ Len(capability) \in Nat /\ DOMAIN capability = 1..Len(capability)
    BY <1>1, LenProperties
  <1>3. \A i \in DOMAIN objective : objective[i] \in SUBSET Capabilities
    BY <1>1, <1>2, ElementOfSeq
  <1>4. \A e \in DOMAIN evaluation :
          evaluation[e] \in [objective: DOMAIN objective, passed: BOOLEAN,
                             refs: SUBSET DOMAIN evidence]
    BY <1>1, <1>2, ElementOfSeq
  <1>5. \A i \in DOMAIN capability :
          capability[i] \in [name: Capabilities, refs: SUBSET DOMAIN evidence]
    BY <1>1, <1>2, ElementOfSeq
  <1> QED BY <1>2, <1>3, <1>4, <1>5

\* Longer registries of objectives and evidence suit what refers to them.
LEMMA Widened ==
  ASSUME LearningTypeOK, DOMAIN objective \subseteq DOMAIN objective',
         DOMAIN evidence \subseteq DOMAIN evidence'
  PROVE  /\ evaluation \in Seq([objective: DOMAIN objective', passed: BOOLEAN,
                                refs: SUBSET DOMAIN evidence'])
         /\ capability \in Seq([name: Capabilities, refs: SUBSET DOMAIN evidence'])
         /\ knowledge \in Seq([validated: BOOLEAN, ref: DOMAIN evidence'])
         /\ evidence \in Seq(DOMAIN objective')
  <1>1. /\ [objective: DOMAIN objective, passed: BOOLEAN, refs: SUBSET DOMAIN evidence]
             \subseteq [objective: DOMAIN objective', passed: BOOLEAN, refs: SUBSET DOMAIN evidence']
        /\ [name: Capabilities, refs: SUBSET DOMAIN evidence]
             \subseteq [name: Capabilities, refs: SUBSET DOMAIN evidence']
        /\ [validated: BOOLEAN, ref: DOMAIN evidence]
             \subseteq [validated: BOOLEAN, ref: DOMAIN evidence']
    OBVIOUS
  <1> QED BY <1>1, SeqMonotonic DEF LearningTypeOK

\* A new objective, as of a gap, disturbs no other entry.
LEMMA ObjectiveAdded ==
  ASSUME RegistriesInv, NEW targets \in SUBSET Capabilities, ProposeObjective(targets)
  PROVE  /\ objective' \in Seq(SUBSET Capabilities)
         /\ Len(objective') = Len(objective) + 1 /\ Len(objective) \in Nat
         /\ DOMAIN objective \subseteq DOMAIN objective'
         /\ DOMAIN objective' = 1..Len(objective')
         /\ \A o \in DOMAIN objective : objective'[o] = objective[o]
         /\ objective'[Len(objective')] = targets
  <1>1. objective \in Seq(SUBSET Capabilities)
    BY DEF RegistriesInv, LearningTypeOK
  <1>2. objective' = Append(objective, targets)
    BY DEF ProposeObjective
  <1> QED BY <1>1, <1>2, Appended

\* An escalation adds a gap and its objective.
LEMMA EscalationKeeps ==
  ASSUME RegistriesInv, NEW m \in Missions, NEW c \in Capabilities, BlockForCapability(m, c),
         UNCHANGED <<evidence, evaluation, capability, knowledge, candidate>>
  PROVE  /\ RegistriesInv' /\ Keeps
         /\ gap'[c] # 0 /\ mission'[m].blocked
  <1>1. /\ mission \in [Missions -> [known: BOOLEAN, blocked: BOOLEAN, gaps: SUBSET Capabilities]]
        /\ gap \in [Capabilities -> 0..Len(objective)] /\ Len(objective) \in Nat
        /\ objective \in Seq(SUBSET Capabilities)
    BY Entries DEF RegistriesInv, LearningTypeOK
  <1>2. /\ mission' \in [Missions -> [known: BOOLEAN, blocked: BOOLEAN, gaps: SUBSET Capabilities]]
        /\ mission'[m].blocked
        /\ \A k \in Missions : mission[k].blocked => mission'[k].blocked
    <2>1. mission' = [mission EXCEPT ![m].blocked = TRUE, ![m].gaps = @ \union {c}]
      BY DEF BlockForCapability
    <2>2. \A k \in Missions : mission[k].blocked => mission'[k].blocked
      BY <1>1, <2>1
    <2>3. mission'[m].blocked
      BY <1>1, <2>1
    <2>4. mission[m].gaps \union {c} \in SUBSET Capabilities
      BY <1>1
    <2>5. mission' \in [Missions -> [known: BOOLEAN, blocked: BOOLEAN, gaps: SUBSET Capabilities]]
      BY <1>1, <2>1, <2>4
    <2> QED BY <2>2, <2>3, <2>5
  <1>3. \A k \in Missions : CanResume(k)' <=> CanResume(k)
    BY DEF CanResume, CapabilityValidated
  <1>4. CASE UNCHANGED <<gap, objective>> /\ gap[c] # 0
    BY <1>2, <1>3, <1>4
    DEF RegistriesInv, LearningTypeOK, GapsAreStudied, Keeps
  <1>5. CASE ProposeObjective({c}) /\ gap' = [gap EXCEPT ![c] = Len(objective')] /\ gap[c] = 0
    <2>1. /\ objective' \in Seq(SUBSET Capabilities)
          /\ Len(objective') = Len(objective) + 1
          /\ DOMAIN objective \subseteq DOMAIN objective'
          /\ DOMAIN objective = 1..Len(objective)
          /\ \A o \in DOMAIN objective : objective'[o] = objective[o]
          /\ objective'[Len(objective')] = {c}
      BY <1>5, ObjectiveAdded, Entries DEF RegistriesInv
    <2>2. /\ gap' \in [Capabilities -> 0..Len(objective')]
          /\ gap'[c] = Len(objective')
          /\ \A d \in Capabilities \ {c} : gap'[d] = gap[d]
      BY <1>1, <1>5, <2>1
    <2>3. GapsAreStudied'
      BY <1>1, <2>1, <2>2 DEF RegistriesInv, GapsAreStudied
    <2>4. LearningTypeOK'
      BY <1>2, <2>1, <2>2, Widened DEF RegistriesInv, LearningTypeOK
    <2>5. Keeps /\ gap'[c] # 0
      BY <1>1, <1>2, <1>3, <2>1, <2>2 DEF Keeps
    <2> QED BY <1>2, <2>3, <2>4, <2>5 DEF RegistriesInv
  <1> QED BY <1>4, <1>5 DEF BlockForCapability, Escalate

\* A step that leaves objectives, gaps and capabilities alone.
LEMMA SameGaps ==
  ASSUME RegistriesInv, UNCHANGED <<gap, objective, capability>>,
         \A m \in Missions : mission[m].blocked => mission'[m].blocked \/ CanResume(m)
  PROVE  GapsAreStudied' /\ Keeps
  BY DEF RegistriesInv, GapsAreStudied, Keeps, CanResume, CapabilityValidated

\* A capability more, however it was validated.
LEMMA CapabilityAdded ==
  ASSUME RegistriesInv, NEW c \in Capabilities, NEW refs \in SUBSET DOMAIN evidence,
         ValidateCapability(c, refs),
         UNCHANGED <<mission, gap, objective, evidence, evaluation, knowledge, candidate>>
  PROVE  RegistriesInv' /\ Keeps
  <1> DEFINE entry == [name |-> c, refs |-> refs]
  <1>1. capability' = Append(capability, entry)
    BY DEF ValidateCapability
  <1>2. entry \in [name: Capabilities, refs: SUBSET DOMAIN evidence]
    OBVIOUS
  <1> HIDE DEF entry
  <1>3. LearningTypeOK /\ capability \in Seq([name: Capabilities, refs: SUBSET DOMAIN evidence])
    BY DEF RegistriesInv, LearningTypeOK
  <1>4. /\ capability' \in Seq([name: Capabilities, refs: SUBSET DOMAIN evidence])
        /\ DOMAIN capability \subseteq DOMAIN capability'
        /\ \A i \in DOMAIN capability : capability'[i] = capability[i]
    BY <1>1, <1>2, <1>3, Appended
  <1>5. LearningTypeOK'
    BY <1>3, <1>4 DEF LearningTypeOK
  <1>6. GapsAreStudied'
    BY DEF RegistriesInv, GapsAreStudied
  <1>7. Keeps
    BY <1>4 DEF Keeps, CanResume, CapabilityValidated
  <1> QED BY <1>5, <1>6, <1>7 DEF RegistriesInv

\* Whatever is learned, evaluated, validated or proposed, what is known stays.
LEMMA LearnKeeps == ASSUME RegistriesInv, Learn PROVE RegistriesInv' /\ Keeps
  <1> USE DEF registryVars
  <1>1. LearningTypeOK
    BY DEF RegistriesInv
  <1>2. ASSUME NEW m \in Missions, ResumeReady(m) PROVE RegistriesInv' /\ Keeps
    <2>1. /\ mission \in [Missions -> [known: BOOLEAN, blocked: BOOLEAN, gaps: SUBSET Capabilities]]
          /\ mission' = [mission EXCEPT ![m].blocked = FALSE] /\ CanResume(m)
      BY <1>1, <1>2 DEF ResumeReady, LearningTypeOK
    <2>2. mission' \in [Missions -> [known: BOOLEAN, blocked: BOOLEAN, gaps: SUBSET Capabilities]]
      BY <2>1
    <2>3. \A k \in Missions : mission[k].blocked => mission'[k].blocked \/ CanResume(k)
      BY <2>1
    <2>4. UNCHANGED <<gap, objective, evidence, evaluation, capability, knowledge, candidate>>
      BY <1>2 DEF ResumeReady
    <2>5. GapsAreStudied' /\ Keeps
      BY <2>3, <2>4, SameGaps
    <2>6. LearningTypeOK'
      BY <1>1, <2>2, <2>4 DEF LearningTypeOK
    <2> QED BY <2>5, <2>6 DEF RegistriesInv
  <1>3. ASSUME NEW o \in DOMAIN objective, RecordEvidence(o) PROVE RegistriesInv' /\ Keeps
    <2>1. /\ evidence' = Append(evidence, o)
          /\ UNCHANGED <<mission, gap, objective, evaluation, capability, knowledge, candidate>>
      BY <1>3 DEF RecordEvidence
    <2>2. evidence' \in Seq(DOMAIN objective) /\ DOMAIN evidence \subseteq DOMAIN evidence'
      BY <1>1, <1>3, <2>1, Appended DEF LearningTypeOK
    <2>3. GapsAreStudied' /\ Keeps
      BY <2>1, SameGaps
    <2>4. LearningTypeOK'
      BY <1>1, <2>1, <2>2, Widened DEF LearningTypeOK
    <2> QED BY <2>3, <2>4 DEF RegistriesInv
  <1>4. ASSUME NEW o \in DOMAIN objective, NEW refs \in SUBSET DOMAIN evidence,
               NEW passed \in BOOLEAN, Evaluate(o, refs, passed)
        PROVE  RegistriesInv' /\ Keeps
    <2>1. /\ evaluation' = Append(evaluation, [objective |-> o, passed |-> passed, refs |-> refs])
          /\ UNCHANGED <<mission, gap, objective, evidence, capability, knowledge, candidate>>
      BY <1>4 DEF Evaluate
    <2>2. [objective |-> o, passed |-> passed, refs |-> refs]
            \in [objective: DOMAIN objective, passed: BOOLEAN, refs: SUBSET DOMAIN evidence]
      OBVIOUS
    <2>3. evaluation' \in Seq([objective: DOMAIN objective, passed: BOOLEAN,
                               refs: SUBSET DOMAIN evidence])
      BY <1>1, <2>1, <2>2, Appended DEF LearningTypeOK
    <2>4. GapsAreStudied' /\ Keeps
      BY <2>1, SameGaps
    <2>5. LearningTypeOK'
      BY <1>1, <2>1, <2>3 DEF LearningTypeOK
    <2> QED BY <2>4, <2>5 DEF RegistriesInv
  <1>5. ASSUME NEW m \in Missions, NEW c \in Capabilities, NEW e \in DOMAIN evaluation,
               NEW refs \in SUBSET DOMAIN evidence, ValidateLearning(m, c, e, refs)
        PROVE  RegistriesInv' /\ Keeps
    BY <1>5, CapabilityAdded DEF ValidateLearning
  <1>6. ASSUME NEW c \in Capabilities, NEW refs \in SUBSET DOMAIN evidence,
               ValidateDirectly(c, refs)
        PROVE  RegistriesInv' /\ Keeps
    BY <1>6, CapabilityAdded DEF ValidateDirectly
  <1>7. ASSUME NEW i \in DOMAIN capability, ProposeOpportunity(i) PROVE RegistriesInv' /\ Keeps
    <2>1. /\ UNCHANGED <<mission, gap, objective, evidence, evaluation, capability, knowledge>>
          /\ candidate' = candidate \union {i}
      BY <1>7 DEF ProposeOpportunity
    <2>2. LearningTypeOK'
      BY <1>1, <1>7, <2>1 DEF LearningTypeOK
    <2>3. GapsAreStudied' /\ Keeps
      BY <2>1, SameGaps
    <2> QED BY <2>2, <2>3 DEF RegistriesInv
  <1>8. ASSUME NEW verified \in BOOLEAN, ProjectAcademy(verified) PROVE RegistriesInv' /\ Keeps
    <2>1. /\ ProposeObjective({})
          /\ evidence' = Append(evidence, Len(objective'))
          /\ knowledge' = Append(knowledge, [validated |-> verified, ref |-> Len(evidence')])
          /\ UNCHANGED <<mission, gap, evaluation, capability, candidate>>
      BY <1>8 DEF ProjectAcademy, RecordKnowledge
    <2>2. /\ objective' \in Seq(SUBSET Capabilities)
          /\ Len(objective') = Len(objective) + 1 /\ Len(objective) \in Nat
          /\ DOMAIN objective \subseteq DOMAIN objective'
          /\ DOMAIN objective' = 1..Len(objective')
          /\ \A o \in DOMAIN objective : objective'[o] = objective[o]
      BY <2>1, ObjectiveAdded
    <2>3. Len(objective') \in DOMAIN objective' /\ evidence \in Seq(DOMAIN objective)
      BY <1>1, <2>2 DEF LearningTypeOK
    <2>4. /\ evidence' \in Seq(DOMAIN objective') /\ DOMAIN evidence \subseteq DOMAIN evidence'
          /\ Len(evidence') \in DOMAIN evidence'
      BY <2>1, <2>2, <2>3, Appended
    <2>5. [validated |-> verified, ref |-> Len(evidence')]
            \in [validated: BOOLEAN, ref: DOMAIN evidence']
      BY <2>4
    <2>6. knowledge \in Seq([validated: BOOLEAN, ref: DOMAIN evidence'])
      BY <1>1, <2>2, <2>4, Widened
    <2>7. knowledge' \in Seq([validated: BOOLEAN, ref: DOMAIN evidence'])
      BY <2>1, <2>5, <2>6, Appended
    <2>8. gap' \in [Capabilities -> 0..Len(objective')]
      <3>1. 0..Len(objective) \subseteq 0..Len(objective')
        BY <2>2
      <3> QED BY <1>1, <2>1, <3>1 DEF LearningTypeOK
    <2>9. LearningTypeOK'
      BY <1>1, <2>1, <2>2, <2>4, <2>7, <2>8, Widened DEF LearningTypeOK
    <2>10. GapsAreStudied'
      <3>1. ASSUME NEW c \in Capabilities, gap[c] # 0 PROVE gap[c] \in DOMAIN objective
        BY <1>1, <3>1, Entries DEF LearningTypeOK
      <3> QED BY <2>1, <2>2, <3>1 DEF RegistriesInv, GapsAreStudied
    <2>11. Keeps
      BY <2>1 DEF Keeps, CanResume, CapabilityValidated
    <2> QED BY <2>9, <2>10, <2>11 DEF RegistriesInv
  <1> QED BY <1>2, <1>3, <1>4, <1>5, <1>6, <1>7, <1>8 DEF Learn

\* A step that touches no registry, or only what is known of a mission.
LEMMA RegistriesUnchanged ==
  ASSUME RegistriesInv, UNCHANGED <<gap, registryVars, candidate>>,
         \/ UNCHANGED mission
         \/ \E m \in Missions : RegisterMission(m)
  PROVE  RegistriesInv'
  <1>1. UNCHANGED <<gap, objective, evidence, evaluation, capability, knowledge, candidate>>
    BY DEF registryVars
  <1>2. mission' \in [Missions -> [known: BOOLEAN, blocked: BOOLEAN, gaps: SUBSET Capabilities]]
    <2>1. mission \in [Missions -> [known: BOOLEAN, blocked: BOOLEAN, gaps: SUBSET Capabilities]]
      BY DEF RegistriesInv, LearningTypeOK
    <2>2. ASSUME NEW m \in Missions, RegisterMission(m)
          PROVE  mission' \in [Missions -> [known: BOOLEAN, blocked: BOOLEAN, gaps: SUBSET Capabilities]]
      <3>1. [known |-> TRUE, blocked |-> FALSE, gaps |-> {}]
              \in [known: BOOLEAN, blocked: BOOLEAN, gaps: SUBSET Capabilities]
        OBVIOUS
      <3> QED BY <2>1, <2>2, <3>1 DEF RegisterMission
    <2> QED BY <2>1, <2>2
  <1>3. LearningTypeOK'
    BY <1>1, <1>2 DEF RegistriesInv, LearningTypeOK
  <1> QED BY <1>1, <1>3 DEF RegistriesInv, GapsAreStudied

\* Empty registries, of a process that starts.
LEMMA RegistriesEmpty ==
  /\ LearningInit => RegistriesInv
  /\ LearningLost => RegistriesInv'
  <1>1. ASSUME NEW S PROVE <<>> \in Seq(S) /\ Len(<<>>) = 0
    BY EmptySeq
  <1>2. DOMAIN <<>> = {}
    OBVIOUS
  <1>3. LearningInit => RegistriesInv
    BY <1>1, <1>2 DEF LearningInit, Unregistered, RegistriesInv, LearningTypeOK, GapsAreStudied
  <1>4. LearningLost => RegistriesInv'
    BY <1>1, <1>2 DEF LearningLost, Unregistered, RegistriesInv, LearningTypeOK, GapsAreStudied
  <1> QED BY <1>3, <1>4

-----------------------------------------------------------------------------
(* The loop *)

Places == {"idle", "claimed", "escalate", "stage", "close", "complete",
           "announce", "fail", "dead"}
Outs == {"none", "awaiting_provider", "no_evidence", "unverified", "verified",
         "awaiting_research", "insufficient_evidence", "validated", "draft",
         "awaiting_evidence", "proposal", "awaiting_knowledge", "passed", "failed",
         "awaiting_measurement", "awaiting_innovation", "experiment_completed",
         "experiment_failed", "awaiting_execution", "awaiting_experiment", "candidate",
         "awaiting_validation", "awaiting_approval"}
Topics == {"mission.started", "mission.completed", "mission.blocked"}

WorkerState ==
  [at: Places, mission: Missions \union {None}, attempt: Nat, stage: Nat, out: Outs,
   todo: SUBSET Capabilities, state: {"proposed", "running", "blocked"}]

WorkerTypeOK ==
  /\ worker \in WorkerState
  /\ worker.at # "idle" => worker.mission \in Missions

Row == [status: {"queued", "running", "completed", "failed"},
        attempts: 0..MaxAttempts, owner: {"nobody", "here", "elsewhere"}]

\* Completed rows have results, and those of approvals were measured.
Rows ==
  /\ job \in [Missions -> Row]
  /\ result \in [Missions -> Results \union {"none", "error"}]
  /\ measured \subseteq Missions
  /\ \A m \in Missions :
       /\ job[m].status = "completed" => result[m] # "none"
       /\ result[m] = "awaiting_approval" => m \in measured

\* What was announced as completed is.
Announced ==
  /\ delivered \in [Missions -> SUBSET Topics]
  /\ \A m \in Missions :
       "mission.completed" \in delivered[m] => job[m].status = "completed"

\* A mission that is being escalated has study objectives for all it lacks, but
\* for what is still to do, and is blocked as soon as there is one.
Escalating ==
  At("escalate") =>
    LET m == worker.mission
    IN /\ worker.todo \subseteq Unknown(m) /\ Unknown(m) # {}
       /\ \A c \in Unknown(m) \ worker.todo : gap[c] # 0
       /\ worker.todo # Unknown(m) => mission[m].blocked \/ CanResume(m)

\* What this process escalated stays completed, so it is not claimed again.
EscalatedIsDone ==
  /\ escalated \subseteq Missions
  /\ \A m \in escalated : job[m].status = "completed"
  /\ At("claimed") => worker.mission \notin escalated

\* From the experiment on, a chain that will ask for an approval has passed it.
Promising(w) ==
  \/ w.at = "stage" /\ w.stage = 6 /\ w.out = "passed"
  \/ w.at = "stage" /\ w.stage = 7 /\ w.out = "experiment_completed"
  \/ w.at = "stage" /\ w.stage = 8 /\ w.out = "validated"
  \/ w.at \in {"close", "complete"} /\ w.out = "awaiting_approval"

Chain ==
  /\ At("stage") => worker.stage \in 1..8
  /\ At("close") \/ At("complete") => worker.out \in {"awaiting_validation", "awaiting_approval"}
  /\ Promising(worker) => worker.mission \in measured
  /\ At("announce") => job[worker.mission].status = "completed"

\* The inductive invariant.  That an escalated mission waits needs that its row
\* stays completed: else it would be claimed and registered again, which forgets
\* its block.
IInv ==
  /\ RegistriesInv /\ WorkerTypeOK /\ Rows /\ Announced
  /\ Escalating /\ EscalatedIsDone /\ EscalatedMissionWaits
  /\ Chain

\* The starting state.
LEMMA InitIInv == Init => IInv
  <1> SUFFICES ASSUME Init PROVE IInv
    OBVIOUS
  <1>1. RegistriesInv
    BY RegistriesEmpty DEF Init
  <1>2. WorkerTypeOK
    BY DEF Init, WorkerTypeOK, WorkerState, Idle, Places, Outs
  <1>3. Escalating /\ EscalatedIsDone /\ EscalatedMissionWaits /\ Chain
    BY DEF Init, Escalating, EscalatedIsDone, EscalatedMissionWaits, Chain, Promising, Idle, At
  <1>4. Rows
    <2>1. [status |-> "queued", attempts |-> 0, owner |-> "nobody"] \in Row
      BY MissionAssumption DEF Row
    <2> QED BY <2>1 DEF Init, Rows
  <1>5. Announced
    BY DEF Init, Announced
  <1> QED BY <1>1, <1>2, <1>3, <1>4, <1>5 DEF IInv

\* The two values at which a loop stops working on a mission.
LEMMA Stopped ==
  ASSUME WorkerTypeOK
  PROVE  /\ Idle \in WorkerState /\ Idle.at = "idle"
         /\ Failing \in WorkerState /\ Failing.at = "fail" /\ Failing.mission = worker.mission
  <1>1. "none" \in Outs /\ {"idle", "fail"} \subseteq Places
    BY DEF Outs, Places
  <1>2. Idle \in WorkerState /\ Idle.at = "idle"
    BY <1>1 DEF WorkerState, Idle
  <1>3. Failing \in WorkerState /\ Failing.at = "fail" /\ Failing.mission = worker.mission
    BY <1>1 DEF WorkerTypeOK, WorkerState, Failing
  <1> QED BY <1>2, <1>3

\* What missions that were escalated keep when learning goes on.
LEMMA WaitingKept ==
  ASSUME IInv, RegistriesInv', Keeps, escalated' \subseteq escalated
  PROVE  EscalatedMissionWaits'
  <1> SUFFICES ASSUME NEW m \in escalated'
               PROVE  /\ \A c \in Unknown(m) : gap'[c] # 0 /\ c \in objective'[gap'[c]]
                      /\ mission'[m].blocked \/ CanResume(m)'
    BY DEF EscalatedMissionWaits, Unknown
  <1>1. m \in escalated /\ m \in Missions /\ Unknown(m) \subseteq Capabilities
    BY LearningAssumption DEF IInv, EscalatedIsDone, Unknown
  <1>2. /\ \A c \in Unknown(m) : gap[c] # 0
        /\ mission[m].blocked \/ CanResume(m)
    BY <1>1 DEF IInv, EscalatedMissionWaits
  <1>3. \A c \in Unknown(m) : gap'[c] # 0 /\ c \in objective'[gap'[c]]
    BY <1>1, <1>2 DEF Keeps, RegistriesInv, GapsAreStudied
  <1>4. mission'[m].blocked \/ CanResume(m)'
    BY <1>1, <1>2 DEF Keeps
  <1> QED BY <1>3, <1>4

\* A step that touches no registry keeps them and what they promise.
LEMMA Untaught ==
  ASSUME IInv, UNCHANGED learningVars
  PROVE  RegistriesInv' /\ Keeps
  <1>1. UNCHANGED <<mission, gap, objective, evidence, evaluation, capability, knowledge, candidate>>
    BY DEF learningVars, registryVars
  <1>2. RegistriesInv'
    BY <1>1, RegistriesUnchanged DEF IInv, registryVars
  <1> QED BY <1>1, <1>2 DEF Keeps, CanResume, CapabilityValidated

\* A completed row stays completed.
DoneStays == \A k \in Missions : job[k].status = "completed" => job'[k].status = "completed"

\* A step of learning or of another process, beside the loop.
LEMMA LoopBeside ==
  ASSUME IInv, RegistriesInv', Keeps, Rows', Announced', DoneStays,
         measured \subseteq measured', worker' = worker, escalated' = escalated
  PROVE  IInv'
  <1>1. WorkerTypeOK'
    BY DEF IInv, WorkerTypeOK
  <1>2. At("escalate") => worker.mission \in Missions /\ Unknown(worker.mission) \subseteq Capabilities
    BY LearningAssumption DEF IInv, WorkerTypeOK, At, Unknown
  <1>3. Escalating'
    BY <1>2 DEF IInv, Escalating, At, Unknown, Keeps
  <1>4. EscalatedIsDone'
    BY DEF IInv, EscalatedIsDone, At, DoneStays
  <1>5. EscalatedMissionWaits'
    BY WaitingKept
  <1>6. Chain'
    BY DEF IInv, Chain, At, Promising, DoneStays, WorkerTypeOK
  <1> QED BY <1>1, <1>3, <1>4, <1>5, <1>6 DEF IInv

\* A loop that goes on to another place, where it neither escalates nor has just
\* claimed.
LEMMA LoopMoves ==
  ASSUME IInv, RegistriesInv', Keeps, Rows', Announced', DoneStays,
         WorkerTypeOK', worker'.at \notin {"escalate", "claimed"}, escalated' = escalated, Chain'
  PROVE  IInv'
  <1>1. Escalating'
    BY DEF Escalating, At
  <1>2. EscalatedIsDone'
    BY DEF IInv, EscalatedIsDone, At, DoneStays
  <1>3. EscalatedMissionWaits'
    BY WaitingKept
  <1> QED BY <1>1, <1>2, <1>3 DEF IInv

\* A loop that is done with its mission has nothing to promise of its chain.
LEMMA LoopStops ==
  ASSUME IInv, worker' \in {Idle, Failing} \/ worker' = [worker EXCEPT !.at = "dead"], ~At("idle")
  PROVE  WorkerTypeOK' /\ worker'.at \in {"idle", "fail", "dead"} /\ Chain'
  <1>1. CASE worker' \in {Idle, Failing}
    BY <1>1, Stopped DEF IInv, WorkerTypeOK, At, Chain, Promising
  <1>2. CASE worker' = [worker EXCEPT !.at = "dead"]
    BY <1>2 DEF IInv, WorkerTypeOK, WorkerState, Places, At, Chain, Promising
  <1> QED BY <1>1, <1>2

-----------------------------------------------------------------------------
(* The rows *)

\* A step that touches no row.
LEMMA SameRows ==
  ASSUME IInv, UNCHANGED <<job, result>>, measured \subseteq measured', measured' \subseteq Missions
  PROVE  /\ Rows' /\ DoneStays
         /\ delivered' = delivered => Announced'
  BY DEF IInv, Rows, Announced, DoneStays

\* A running row that is tried again or fails.
LEMMA RetriedRows ==
  ASSUME IInv, NEW m \in Missions, job[m].status = "running", Retried(m),
         UNCHANGED <<measured, delivered>>
  PROVE  Rows' /\ Announced' /\ DoneStays
  <1> DEFINE status == IF job[m].attempts < MaxAttempts THEN "queued" ELSE "failed"
             r == [job[m] EXCEPT !.owner = "nobody", !.status = status]
  <1>1. job \in [Missions -> Row] /\ job[m] \in Row
    BY DEF IInv, Rows
  <1>2. /\ job' = [job EXCEPT ![m] = r]
        /\ r \in Row /\ r.status # "completed"
    BY <1>1 DEF Retried, Row
  <1> HIDE DEF r
  <1>3. /\ job' \in [Missions -> Row] /\ job'[m].status # "completed"
        /\ \A k \in Missions \ {m} : job'[k] = job[k]
    BY <1>1, <1>2
  <1>4. result' = result \/ result' = [result EXCEPT ![m] = "error"]
    BY DEF Retried
  <1>5. /\ result' \in [Missions -> Results \union {"none", "error"}]
        /\ \A k \in Missions : result'[k] = result[k] \/ result'[k] = "error"
    <2>1. result \in [Missions -> Results \union {"none", "error"}]
      BY DEF IInv, Rows
    <2>2. CASE result' = result
      BY <2>1, <2>2
    <2>3. CASE result' = [result EXCEPT ![m] = "error"]
      BY <2>1, <2>3
    <2> QED BY <1>4, <2>2, <2>3
  <1>6. Rows'
    BY <1>3, <1>5 DEF IInv, Rows
  <1>7. Announced' /\ DoneStays
    BY <1>3 DEF IInv, Announced, DoneStays
  <1> QED BY <1>6, <1>7

\* A queued row that is claimed.
LEMMA ClaimedRows ==
  ASSUME IInv, NEW m \in Missions, NEW who \in {"here", "elsewhere"},
         job[m].status = "queued", job[m].attempts < MaxAttempts,
         job' = [job EXCEPT ![m] = [status |-> "running", attempts |-> @.attempts + 1, owner |-> who]],
         UNCHANGED <<result, measured, delivered>>
  PROVE  Rows' /\ Announced' /\ DoneStays
  <1> DEFINE r == [status |-> "running", attempts |-> job[m].attempts + 1, owner |-> who]
  <1>1. job \in [Missions -> Row] /\ job[m] \in Row
    BY DEF IInv, Rows
  <1>2. job[m].attempts + 1 \in 0..MaxAttempts
    BY <1>1, MissionAssumption DEF Row
  <1>3. r \in Row /\ r.status = "running" /\ job' = [job EXCEPT ![m] = r]
    BY <1>1, <1>2 DEF Row
  <1> HIDE DEF r
  <1>4. /\ job' \in [Missions -> Row] /\ job'[m].status = "running"
        /\ \A k \in Missions \ {m} : job'[k] = job[k]
    BY <1>1, <1>3
  <1> QED BY <1>4 DEF IInv, Rows, Announced, DoneStays

\* A row that is completed with a result.
LEMMA CompletedRows ==
  ASSUME IInv, NEW m \in Missions, NEW outcome \in Results,
         job' = [job EXCEPT ![m].status = "completed", ![m].owner = "nobody"],
         result' = [result EXCEPT ![m] = outcome],
         measured \subseteq measured', measured' \subseteq Missions,
         outcome = "awaiting_approval" => m \in measured', delivered' = delivered
  PROVE  Rows' /\ Announced' /\ DoneStays /\ job'[m].status = "completed"
  <1> DEFINE r == [job[m] EXCEPT !.status = "completed", !.owner = "nobody"]
  <1>1. job \in [Missions -> Row] /\ job[m] \in Row
    BY DEF IInv, Rows
  <1>2. r \in Row /\ r.status = "completed" /\ job' = [job EXCEPT ![m] = r]
    BY <1>1 DEF Row
  <1> HIDE DEF r
  <1>3. /\ job' \in [Missions -> Row] /\ job'[m].status = "completed"
        /\ \A k \in Missions \ {m} : job'[k] = job[k]
    BY <1>1, <1>2
  <1>4. outcome # "none"
    BY DEF Results
  <1>5. /\ result' \in [Missions -> Results \union {"none", "error"}]
        /\ result'[m] = outcome
        /\ \A k \in Missions \ {m} : result'[k] = result[k]
    BY DEF IInv, Rows
  <1>6. Rows'
    BY <1>3, <1>4, <1>5 DEF IInv, Rows
  <1> QED BY <1>3, <1>6 DEF IInv, Announced, DoneStays

\* store.complete as the loop calls it.
LEMMA CompleteRows ==
  ASSUME IInv, ~At("idle"), NEW outcome \in Results, Complete(outcome),
         outcome = "awaiting_approval" => worker.mission \in measured,
         UNCHANGED <<measured, delivered>>
  PROVE  Rows' /\ Announced' /\ DoneStays /\ job'[worker.mission].status = "completed"
  <1>1. worker.mission \in Missions /\ measured \subseteq Missions
    BY DEF IInv, WorkerTypeOK, Rows, At
  <1>2. CASE Owns(worker.mission)
    BY <1>1, <1>2, CompletedRows DEF Complete
  <1>3. CASE ~Owns(worker.mission)
    BY <1>1, <1>3, SameRows DEF Complete, jobVars
  <1> QED BY <1>2, <1>3

-----------------------------------------------------------------------------
(* The stages of the chain *)

\* What a stage makes is a status; and on the way from the experiment to an
\* approval each stage asks the one before.
LEMMA StageOutputs ==
  ASSUME NEW i \in 1..8, NEW before \in Outs, NEW out \in Outputs(Stages[i], before)
  PROVE  /\ out \in Outs
         /\ Stages[i] = "experiment" <=> i = 5
         /\ Stages[i] = "business" <=> i = 8
         /\ i = 6 /\ out = "experiment_completed" => before = "passed"
         /\ i = 7 /\ out = "validated" => before = "experiment_completed"
         /\ i = 8 => out \in {"awaiting_validation", "awaiting_approval"}
         /\ i = 8 /\ out = "awaiting_approval" => before = "validated"
  <1>1. /\ i = 1 => Stages[i] = "research"
        /\ i = 2 => Stages[i] = "academy"
        /\ i = 3 => Stages[i] = "knowledge"
        /\ i = 4 => Stages[i] = "innovation"
        /\ i = 5 => Stages[i] = "experiment"
        /\ i = 6 => Stages[i] = "evaluation"
        /\ i = 7 => Stages[i] = "opportunity"
        /\ i = 8 => Stages[i] = "business"
    BY DEF Stages
  <1>2. CASE i = 1
    BY <1>1, <1>2 DEF Outputs, Outs
  <1>3. CASE i = 2
    BY <1>1, <1>3 DEF Outputs, Outs, Academy
  <1>4. CASE i = 3
    BY <1>1, <1>4 DEF Outputs, Outs, Knowledge
  <1>5. CASE i = 4
    BY <1>1, <1>5 DEF Outputs, Outs, Innovation
  <1>6. CASE i = 5
    BY <1>1, <1>6 DEF Outputs, Outs, Experiment
  <1>7. CASE i = 6
    BY <1>1, <1>7 DEF Outputs, Outs, Evaluation
  <1>8. CASE i = 7
    BY <1>1, <1>8 DEF Outputs, Outs, Opportunity
  <1>9. CASE i = 8
    BY <1>1, <1>9 DEF Outputs, Outs, Business
  <1> QED BY <1>2, <1>3, <1>4, <1>5, <1>6, <1>7, <1>8, <1>9

-----------------------------------------------------------------------------
(* Every step *)

LEMMA NextIInv == IInv /\ [Next]_vars => IInv'
  <1> SUFFICES ASSUME IInv, [Next]_vars PROVE IInv'
    OBVIOUS
  <1>1. /\ worker \in WorkerState
        /\ ~At("idle") => worker.mission \in Missions
        /\ delivered \in [Missions -> SUBSET Topics]
        /\ job \in [Missions -> Row]
        /\ measured \subseteq Missions /\ escalated \subseteq Missions
        /\ RegistriesInv
    BY DEF IInv, WorkerTypeOK, Announced, Rows, EscalatedIsDone, At
  <1>2. UNCHANGED learningVars => RegistriesInv' /\ Keeps
    BY Untaught
  <1>3. \A place : At(place) <=> worker.at = place
    BY DEF At
  <1>4. ASSUME NEW m \in Missions, Claim(m) PROVE IInv'
    <2>1. /\ At("idle") /\ job[m].status = "queued" /\ job[m].attempts < MaxAttempts
          /\ job' = [job EXCEPT ![m] = [status |-> "running", attempts |-> @.attempts + 1,
                                        owner |-> "here"]]
          /\ worker' = [worker EXCEPT !.at = "claimed", !.mission = m,
                                      !.attempt = job[m].attempts + 1]
          /\ UNCHANGED <<learningVars, result, delivered, escalated, measured>>
      BY <1>4 DEF Claim, Quiet
    <2>2. Rows' /\ Announced' /\ DoneStays
      BY <2>1, ClaimedRows
    <2>3. RegistriesInv' /\ Keeps
      BY <1>2, <2>1
    <2>4. WorkerTypeOK'
      <3>1. job[m].attempts + 1 \in Nat
        BY <1>1, MissionAssumption DEF Row
      <3> QED BY <1>1, <2>1, <3>1 DEF WorkerTypeOK, WorkerState, Places
    <2>5. worker'.at = "claimed" /\ worker'.mission = m
      BY <1>1, <2>1 DEF WorkerState
    <2>6. EscalatedIsDone'
      BY <2>1, <2>2, <2>5 DEF IInv, EscalatedIsDone, DoneStays, At
    <2>7. Escalating' /\ Chain'
      BY <2>5 DEF Escalating, Chain, Promising, At
    <2>8. EscalatedMissionWaits'
      BY <2>1, <2>3, WaitingKept
    <2> QED BY <2>2, <2>3, <2>4, <2>6, <2>7, <2>8 DEF IInv
  <1>5. ASSUME Register PROVE IInv'
    <2> DEFINE m == worker.mission
    <2>1. /\ At("claimed") /\ m \in Missions /\ m \notin escalated
      BY <1>1, <1>3, <1>5 DEF Register, IInv, EscalatedIsDone
    <2>2. /\ RegisterMission(m)
          /\ worker' = IF Unknown(m) # {}
                       THEN [worker EXCEPT !.at = "escalate", !.todo = Unknown(m)]
                       ELSE [worker EXCEPT !.at = "stage", !.stage = 1, !.state = "running"]
          /\ delivered' = IF Unknown(m) # {} THEN delivered
                          ELSE [delivered EXCEPT ![m] = @ \union {"mission.started"}]
          /\ UNCHANGED <<gap, registryVars, candidate, job, result, escalated, measured>>
      BY <1>5 DEF Register, jobVars
    <2>3. RegistriesInv'
      BY <1>1, <2>1, <2>2, RegistriesUnchanged
    <2>4. Rows' /\ DoneStays
      BY <1>1, <2>2, SameRows
    <2>5. Announced'
      <3>1. CASE Unknown(m) # {}
        BY <2>2, <3>1 DEF IInv, Announced
      <3>2. CASE Unknown(m) = {}
        <4>1. /\ delivered' = [delivered EXCEPT ![m] = @ \union {"mission.started"}]
              /\ "mission.started" # "mission.completed" /\ "mission.started" \in Topics
          BY <2>2, <3>2 DEF Topics
        <4> HIDE DEF m
        <4>2. /\ delivered' \in [Missions -> SUBSET Topics]
              /\ \A k \in Missions : "mission.completed" \in delivered'[k]
                                       => "mission.completed" \in delivered[k]
          BY <1>1, <2>1, <4>1
        <4> QED BY <2>2, <4>2 DEF IInv, Announced
      <3> QED BY <3>1, <3>2
    <2>6. Unknown(m) \in SUBSET Capabilities
      BY <2>1, LearningAssumption DEF Unknown
    <2>7. worker' \in WorkerState /\ worker'.mission = m
      BY <1>1, <2>2, <2>6 DEF WorkerState, Places
    <2>8. WorkerTypeOK'
      BY <2>1, <2>7 DEF WorkerTypeOK
    <2>9. Escalating'
      <3>1. CASE Unknown(m) # {}
        <4>1. worker'.at = "escalate" /\ worker'.todo = Unknown(m)
          BY <1>1, <2>2, <3>1 DEF WorkerState
        <4> QED BY <2>7, <3>1, <4>1 DEF Escalating, Unknown
      <3>2. CASE Unknown(m) = {}
        BY <1>1, <2>2, <3>2 DEF Escalating, At, WorkerState
      <3> QED BY <3>1, <3>2
    <2>10. Chain'
      <3>1. CASE Unknown(m) # {}
        BY <1>1, <2>2, <3>1 DEF Chain, Promising, At, WorkerState
      <3>2. CASE Unknown(m) = {}
        BY <1>1, <2>2, <3>2 DEF Chain, Promising, At, WorkerState
      <3> QED BY <3>1, <3>2
    <2>11. EscalatedIsDone'
      <3>1. worker'.at # "claimed"
        BY <1>1, <2>2 DEF WorkerState
      <3> QED BY <2>2, <3>1 DEF IInv, EscalatedIsDone, At
    <2>12. EscalatedMissionWaits'
      <3>1. \A k \in Missions : CanResume(k)' <=> CanResume(k)
        BY <2>2 DEF CanResume, CapabilityValidated, registryVars
      <3>2. \A k \in escalated : mission'[k] = mission[k]
        BY <1>1, <2>1, <2>2 DEF RegisterMission, RegistriesInv, LearningTypeOK
      <3> QED BY <1>1, <2>2, <3>1, <3>2 DEF IInv, EscalatedMissionWaits, Unknown, registryVars
    <2> QED BY <2>3, <2>4, <2>5, <2>8, <2>9, <2>10, <2>11, <2>12 DEF IInv
  <1>6. ASSUME EscalateNext PROVE IInv'
    <2> DEFINE m == worker.mission
    <2>1. PICK c \in worker.todo : /\ BlockForCapability(m, c)
                                   /\ worker' = [worker EXCEPT !.todo = @ \ {c}]
      BY <1>6 DEF EscalateNext
    <2>2. /\ At("escalate") /\ m \in Missions
          /\ UNCHANGED <<evidence, evaluation, capability, knowledge, candidate, job, result,
                         delivered, escalated, measured>>
      BY <1>1, <1>3, <1>6 DEF EscalateNext, Quiet, jobVars
    <2>3. worker.todo \subseteq Unknown(m) /\ Unknown(m) # {} /\ worker.todo \subseteq Capabilities
      BY <1>1, <2>2 DEF IInv, Escalating, WorkerState
    <2>4. RegistriesInv' /\ Keeps /\ gap'[c] # 0 /\ mission'[m].blocked
      BY <1>1, <2>1, <2>2, <2>3, EscalationKeeps
    <2>5. Rows' /\ DoneStays /\ Announced'
      BY <1>1, <2>2, SameRows
    <2>6. /\ worker' \in WorkerState /\ worker'.at = "escalate" /\ worker'.mission = m
          /\ worker'.todo = worker.todo \ {c}
      BY <1>1, <1>3, <2>1, <2>2, <2>3 DEF WorkerState
    <2>7. WorkerTypeOK'
      BY <2>2, <2>6 DEF WorkerTypeOK
    <2>8. Unknown(m) \subseteq Capabilities
      BY <2>2, LearningAssumption DEF Unknown
    <2>9. Escalating'
      <3>1. \A d \in Unknown(m) \ worker.todo : gap[d] # 0
        BY <2>2 DEF IInv, Escalating
      <3>2. \A d \in Unknown(m) \ worker'.todo : gap'[d] # 0
        BY <2>4, <2>6, <2>8, <3>1 DEF Keeps
      <3> QED BY <2>3, <2>4, <2>6, <3>2 DEF Escalating, Unknown
    <2>10. Chain'
      BY <2>6 DEF Chain, Promising, At
    <2>11. EscalatedIsDone'
      BY <2>2, <2>6 DEF IInv, EscalatedIsDone, At
    <2>12. EscalatedMissionWaits'
      BY <2>2, <2>4, WaitingKept
    <2> QED BY <2>4, <2>5, <2>7, <2>9, <2>10, <2>11, <2>12 DEF IInv
  <1>7. ASSUME RunStage PROVE IInv'
    <2> DEFINE m == worker.mission
               i == worker.stage
    <2>1. PICK out \in Outputs(Stages[i], worker.out) :
            /\ worker' = [worker EXCEPT !.out = out, !.stage = @ + 1,
                            !.at = IF Stages[i] = "business" THEN "close" ELSE "stage"]
            /\ measured' = IF Stages[i] = "experiment" /\ out = "passed"
                           THEN measured \union {m} ELSE measured
      BY <1>7 DEF RunStage
    <2>2. /\ At("stage") /\ m \in Missions /\ i \in 1..8 /\ worker.out \in Outs
          /\ UNCHANGED <<learningVars, job, result, delivered, escalated>>
      BY <1>1, <1>3, <1>7 DEF RunStage, jobVars, IInv, Chain, WorkerState
    <2>3. /\ out \in Outs
          /\ Stages[i] = "experiment" <=> i = 5
          /\ Stages[i] = "business" <=> i = 8
          /\ i = 6 /\ out = "experiment_completed" => worker.out = "passed"
          /\ i = 7 /\ out = "validated" => worker.out = "experiment_completed"
          /\ i = 8 => out \in {"awaiting_validation", "awaiting_approval"}
          /\ i = 8 /\ out = "awaiting_approval" => worker.out = "validated"
      BY <2>1, <2>2, StageOutputs
    <2>4. /\ worker' \in WorkerState /\ worker'.mission = m
          /\ worker'.out = out /\ worker'.stage = i + 1
          /\ worker'.at = IF i = 8 THEN "close" ELSE "stage"
      <3> DEFINE place == IF i = 8 THEN "close" ELSE "stage"
      <3>1. place \in Places /\ i + 1 \in Nat
        BY <2>2 DEF Places
      <3>2. worker' = [worker EXCEPT !.out = out, !.stage = i + 1, !.at = place]
        BY <1>1, <2>1, <2>3 DEF WorkerState
      <3> HIDE DEF place, i
      <3>3. /\ worker' \in WorkerState /\ worker'.mission = worker.mission
            /\ worker'.out = out /\ worker'.stage = i + 1 /\ worker'.at = place
        BY <1>1, <2>3, <3>1, <3>2 DEF WorkerState
      <3> QED BY <3>3 DEF place
    <2>5. measured \subseteq measured' /\ measured' \subseteq Missions
      BY <1>1, <2>1, <2>2
    <2>6. Promising(worker) => m \in measured
      BY DEF IInv, Chain
    <2>7. Promising(worker') => m \in measured'
      <3>1. CASE i = 5
        BY <2>1, <2>3, <2>4, <3>1 DEF Promising
      <3>2. CASE i = 6
        BY <1>3, <2>2, <2>3, <2>4, <2>5, <2>6, <3>2 DEF Promising
      <3>3. CASE i = 7
        BY <1>3, <2>2, <2>3, <2>4, <2>5, <2>6, <3>3 DEF Promising
      <3>4. CASE i = 8
        BY <1>3, <2>2, <2>3, <2>4, <2>5, <2>6, <3>4 DEF Promising
      <3>5. CASE i \in 1..4
        BY <2>4, <3>5 DEF Promising
      <3> QED BY <2>2, <3>1, <3>2, <3>3, <3>4, <3>5
    <2>8. Chain'
      BY <2>2, <2>3, <2>4, <2>7 DEF Chain, At
    <2>9. WorkerTypeOK'
      BY <2>2, <2>4 DEF WorkerTypeOK
    <2>10. Rows' /\ DoneStays /\ Announced'
      BY <2>2, <2>5, SameRows
    <2>11. RegistriesInv' /\ Keeps
      BY <1>2, <2>2
    <2>12. worker'.at \notin {"escalate", "claimed"}
      BY <2>4
    <2> QED BY <2>2, <2>8, <2>9, <2>10, <2>11, <2>12, LoopMoves
  <1>8. ASSUME CloseMission PROVE IInv'
    <2>1. /\ At("close") /\ worker' = [worker EXCEPT !.at = "complete", !.state = "blocked"]
          /\ UNCHANGED <<learningVars, job, result, delivered, escalated, measured>>
      BY <1>8 DEF CloseMission, Quiet, jobVars
    <2>2. /\ worker' \in WorkerState /\ worker'.mission = worker.mission
          /\ worker'.out = worker.out /\ worker'.at = "complete"
      BY <1>1, <2>1 DEF WorkerState, Places
    <2>3. WorkerTypeOK' /\ Chain'
      BY <1>1, <1>3, <2>1, <2>2 DEF IInv, WorkerTypeOK, Chain, Promising, At
    <2>4. Rows' /\ DoneStays /\ Announced'
      BY <1>1, <2>1, SameRows
    <2> QED BY <1>2, <2>1, <2>2, <2>3, <2>4, LoopMoves
  <1>9. ASSUME CompleteChain PROVE IInv'
    <2>1. /\ At("complete") /\ Complete(worker.out)
          /\ worker' = [worker EXCEPT !.at = "announce"]
          /\ UNCHANGED <<learningVars, delivered, escalated, measured>>
      BY <1>9 DEF CompleteChain, Goto, Quiet
    <2>2. /\ worker.out \in Results
          /\ worker.out = "awaiting_approval" => worker.mission \in measured
      BY <1>3, <2>1 DEF IInv, Chain, Promising, Results
    <2>3. Rows' /\ Announced' /\ DoneStays /\ job'[worker.mission].status = "completed"
      BY <1>3, <2>1, <2>2, CompleteRows
    <2>4. worker' \in WorkerState /\ worker'.mission = worker.mission /\ worker'.at = "announce"
      BY <1>1, <2>1 DEF WorkerState, Places
    <2>5. WorkerTypeOK' /\ Chain'
      BY <1>1, <1>3, <2>1, <2>3, <2>4 DEF WorkerTypeOK, Chain, Promising, At
    <2> QED BY <1>2, <2>1, <2>3, <2>4, <2>5, LoopMoves
  <1>10. ASSUME CompleteLearning PROVE IInv'
    <2> DEFINE m == worker.mission
    <2>1. /\ At("escalate") /\ worker.todo = {} /\ Complete("learning_required")
          /\ escalated' = IF Owns(m) THEN escalated \union {m} ELSE escalated
          /\ worker' \in {Idle, Failing}
          /\ UNCHANGED <<learningVars, delivered, measured>>
      BY <1>10 DEF CompleteLearning
    <2>2. m \in Missions /\ ~At("idle")
      BY <1>1, <1>3, <2>1
    <2>3. "learning_required" \in Results /\ "learning_required" # "awaiting_approval"
      BY DEF Results
    <2>4. Rows' /\ Announced' /\ DoneStays /\ job'[m].status = "completed"
      BY <2>1, <2>2, <2>3, CompleteRows
    <2>5. WorkerTypeOK' /\ worker'.at \in {"idle", "fail", "dead"} /\ Chain'
      BY <2>1, <2>2, LoopStops
    <2>6. Escalating'
      BY <2>5 DEF Escalating, At
    <2>7. EscalatedIsDone'
      BY <1>1, <2>1, <2>2, <2>4, <2>5 DEF IInv, EscalatedIsDone, DoneStays, At
    <2>8. RegistriesInv' /\ Keeps
      BY <1>2, <2>1
    <2>9. /\ \A c \in Unknown(m) : gap[c] # 0
          /\ mission[m].blocked \/ CanResume(m)
      BY <2>1 DEF IInv, Escalating
    <2>10. EscalatedMissionWaits'
      <3> SUFFICES ASSUME NEW k \in escalated'
                   PROVE  /\ \A c \in Unknown(k) : gap'[c] # 0 /\ c \in objective'[gap'[c]]
                          /\ mission'[k].blocked \/ CanResume(k)'
        BY DEF EscalatedMissionWaits, Unknown
      <3>1. k \in Missions /\ (k \in escalated \/ k = m)
        BY <1>1, <2>1, <2>2
      <3>2. Unknown(k) \subseteq Capabilities
        BY <3>1, LearningAssumption DEF Unknown
      <3>3. /\ \A c \in Unknown(k) : gap[c] # 0
            /\ mission[k].blocked \/ CanResume(k)
        BY <2>9, <3>1 DEF IInv, EscalatedMissionWaits
      <3> QED BY <2>8, <3>1, <3>2, <3>3 DEF Keeps, RegistriesInv, GapsAreStudied
    <2> QED BY <2>4, <2>5, <2>6, <2>7, <2>8, <2>10 DEF IInv
  <1>11. ASSUME Announce PROVE IInv'
    <2> DEFINE m == worker.mission
    <2>1. /\ At("announce") /\ worker' \in {Idle, Failing}
          /\ delivered' = [delivered EXCEPT ![m] = @ \union {"mission.completed"}]
          /\ UNCHANGED <<learningVars, job, result, escalated, measured>>
      BY <1>11 DEF Announce, jobVars
    <2>2. m \in Missions /\ job[m].status = "completed" /\ ~At("idle")
      BY <1>1, <1>3, <2>1 DEF IInv, Chain
    <2>3. Rows' /\ DoneStays
      BY <1>1, <2>1, SameRows
    <2>4. Announced'
      BY <1>1, <2>1, <2>2 DEF IInv, Announced, Topics
    <2>5. WorkerTypeOK' /\ worker'.at \in {"idle", "fail", "dead"} /\ Chain'
      BY <2>1, <2>2, LoopStops
    <2> QED BY <1>2, <2>1, <2>3, <2>4, <2>5, LoopMoves
  <1>12. ASSUME ChainRaises PROVE IInv'
    <2> DEFINE m == worker.mission
    <2>1. /\ At("stage") \/ At("complete") \/ At("announce")
          /\ worker' \in {Idle, Failing}
          /\ UNCHANGED <<learningVars, job, result, escalated, measured>>
      BY <1>12 DEF ChainRaises, jobVars, Raised
    <2>2. PICK told \in SUBSET Topics :
            /\ delivered' = [delivered EXCEPT ![m] = @ \union told]
            /\ "mission.completed" \in told => At("announce")
      BY <1>12 DEF ChainRaises, Topics
    <2>3. At("announce") => job[m].status = "completed"
      BY DEF IInv, Chain
    <2>4. m \in Missions /\ ~At("idle")
      BY <1>1, <1>3, <2>1
    <2>5. Announced'
      BY <1>1, <2>1, <2>2, <2>3, <2>4 DEF IInv, Announced
    <2>6. Rows' /\ DoneStays
      BY <1>1, <2>1, SameRows
    <2>7. WorkerTypeOK' /\ worker'.at \in {"idle", "fail", "dead"} /\ Chain'
      BY <2>1, <2>4, LoopStops
    <2> QED BY <1>2, <2>1, <2>5, <2>6, <2>7, LoopMoves
  <1>13. ASSUME LearningRaises PROVE IInv'
    <2>1. /\ ~At("idle") /\ worker' \in {Idle, Failing}
          /\ UNCHANGED <<learningVars, job, result, delivered, escalated, measured>>
      BY <1>3, <1>13 DEF LearningRaises, Quiet, jobVars
    <2>2. Rows' /\ DoneStays /\ Announced'
      BY <1>1, <2>1, SameRows
    <2>3. WorkerTypeOK' /\ worker'.at \in {"idle", "fail", "dead"} /\ Chain'
      BY <2>1, LoopStops
    <2> QED BY <1>2, <2>1, <2>2, <2>3, LoopMoves
  <1>14. ASSUME Fail PROVE IInv'
    <2>1. /\ At("fail") /\ ~At("idle") /\ worker' \in {Idle, Failing}
          /\ worker.mission \in Missions /\ job[worker.mission].status = "running"
          /\ UNCHANGED <<learningVars, delivered, escalated, measured>>
      BY <1>1, <1>3, <1>14 DEF Fail, Quiet
    <2>2. Rows' /\ DoneStays /\ Announced'
      <3>1. CASE Retried(worker.mission)
        BY <2>1, <3>1, RetriedRows
      <3>2. CASE UNCHANGED <<job, result>>
        BY <1>1, <2>1, <3>2, SameRows
      <3> QED BY <1>14, <3>1, <3>2 DEF Fail, jobVars
    <2>3. WorkerTypeOK' /\ worker'.at \in {"idle", "fail", "dead"} /\ Chain'
      BY <2>1, LoopStops
    <2> QED BY <1>2, <2>1, <2>2, <2>3, LoopMoves
  <1>15. ASSUME LoopDies PROVE IInv'
    <2>1. /\ ~At("idle") /\ worker' = [worker EXCEPT !.at = "dead"]
          /\ UNCHANGED <<learningVars, job, result, delivered, escalated, measured>>
      BY <1>3, <1>15 DEF LoopDies, Goto, Quiet, jobVars
    <2>2. Rows' /\ DoneStays /\ Announced'
      BY <1>1, <2>1, SameRows
    <2>3. WorkerTypeOK' /\ worker'.at \in {"idle", "fail", "dead"} /\ Chain'
      BY <2>1, LoopStops
    <2> QED BY <1>2, <2>1, <2>2, <2>3, LoopMoves
  <1>16. ASSUME NEW m \in Missions, Recover(m) PROVE IInv'
    <2>1. /\ job[m].status = "running" /\ Retried(m) /\ worker' = worker
          /\ UNCHANGED <<learningVars, delivered, escalated, measured>>
      BY <1>16 DEF Recover, Quiet
    <2>2. Rows' /\ Announced' /\ DoneStays
      BY <2>1, RetriedRows
    <2> QED BY <1>2, <2>1, <2>2, LoopBeside
  <1>17. ASSUME NEW m \in Missions, ClaimElsewhere(m) PROVE IInv'
    <2>1. /\ job[m].status = "queued" /\ job[m].attempts < MaxAttempts /\ worker' = worker
          /\ job' = [job EXCEPT ![m] = [status |-> "running", attempts |-> @.attempts + 1,
                                        owner |-> "elsewhere"]]
          /\ UNCHANGED <<learningVars, result, delivered, escalated, measured>>
      BY <1>17 DEF ClaimElsewhere, Quiet
    <2>2. Rows' /\ Announced' /\ DoneStays
      BY <2>1, ClaimedRows
    <2> QED BY <1>2, <2>1, <2>2, LoopBeside
  <1>18. ASSUME NEW m \in Missions, CompleteElsewhere(m) PROVE IInv'
    <2>1. PICK outcome \in Results :
            /\ result' = [result EXCEPT ![m] = outcome]
            /\ measured' = IF outcome = "awaiting_approval" THEN measured \union {m} ELSE measured
      BY <1>18 DEF CompleteElsewhere, Results
    <2>2. /\ job' = [job EXCEPT ![m].status = "completed", ![m].owner = "nobody"]
          /\ worker' = worker
          /\ UNCHANGED <<learningVars, delivered, escalated>>
      BY <1>18 DEF CompleteElsewhere
    <2>3. /\ measured \subseteq measured' /\ measured' \subseteq Missions
          /\ outcome = "awaiting_approval" => m \in measured'
      BY <1>1, <2>1
    <2>4. Rows' /\ Announced' /\ DoneStays
      BY <2>1, <2>2, <2>3, CompletedRows
    <2> QED BY <1>2, <2>2, <2>3, <2>4, LoopBeside
  <1>19. ASSUME Restart PROVE IInv'
    <2>1. /\ worker' = Idle /\ delivered' = [m \in Missions |-> {}] /\ escalated' = {}
          /\ LearningLost /\ UNCHANGED <<job, result, measured>>
      BY <1>19 DEF Restart, jobVars
    <2>2. RegistriesInv'
      BY <2>1, RegistriesEmpty
    <2>3. Rows'
      BY <1>1, <2>1, SameRows
    <2>4. Announced' /\ EscalatedMissionWaits'
      BY <2>1 DEF Announced, EscalatedMissionWaits
    <2>5. Idle \in WorkerState /\ Idle.at = "idle"
      BY Stopped DEF IInv
    <2>6. WorkerTypeOK' /\ Escalating' /\ EscalatedIsDone' /\ Chain'
      BY <2>1, <2>5 DEF WorkerTypeOK, Escalating, EscalatedIsDone, Chain, Promising, At
    <2> QED BY <2>2, <2>3, <2>4, <2>6 DEF IInv
  <1>20. ASSUME Study PROVE IInv'
    <2>1. /\ Learn /\ worker' = worker
          /\ UNCHANGED <<job, result, delivered, escalated, measured>>
      BY <1>20 DEF Study, Quiet, jobVars
    <2>2. RegistriesInv' /\ Keeps
      BY <1>1, <2>1, LearnKeeps
    <2>3. Rows' /\ DoneStays /\ Announced'
      BY <1>1, <2>1, SameRows
    <2> QED BY <2>1, <2>2, <2>3, LoopBeside
  <1>21. ASSUME UNCHANGED vars PROVE IInv'
    <2>1. worker' = worker /\ UNCHANGED <<learningVars, job, result, delivered, escalated, measured>>
      BY <1>21 DEF vars, jobVars
    <2>2. Rows' /\ DoneStays /\ Announced'
      BY <1>1, <2>1, SameRows
    <2> QED BY <1>2, <2>1, <2>2, LoopBeside
  <1> QED
    BY <1>4, <1>5, <1>6, <1>7, <1>8, <1>9, <1>10, <1>11, <1>12, <1>13, <1>14, <1>15,
       <1>16, <1>17, <1>18, <1>19, <1>20, <1>21 DEF Next

-----------------------------------------------------------------------------

\* The registries, the rows, the loop and what it promised hold together in
\* every reachable state.
THEOREM InductiveInvariant == Spec => []IInv
  BY InitIInv, NextIInv, PTL DEF Spec

\* Missions, registries, rows and the fabric's process keep their types.
THEOREM TypeCorrect == Spec => []TypeOK
  <1>1. IInv => TypeOK
    BY DEF IInv, RegistriesInv, WorkerTypeOK, WorkerState, Places, Rows, Row, EscalatedIsDone, TypeOK
  <1> QED BY <1>1, InductiveInvariant, PTL

\* A mission this process completed as to be learnt waits for all it lacks
\* (autonomy_fabric.py, _capability_learning_result).
THEOREM EscalatedMissionsWait == Spec => []EscalatedMissionWaits
  <1>1. IInv => EscalatedMissionWaits
    BY DEF IInv
  <1> QED BY <1>1, InductiveInvariant, PTL

\* What is announced as completed is durable, and a result that asks for an
\* approval was measured (autonomy_fabric.py, run_claimed).
THEOREM AnnouncementsAreDurable == Spec => []AnnouncedIsDurable
  <1>1. IInv => AnnouncedIsDurable
    BY DEF IInv, Rows, Announced, AnnouncedIsDurable
  <1> QED BY <1>1, InductiveInvariant, PTL
=============================================================================
