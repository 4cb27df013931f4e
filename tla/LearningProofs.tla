--------------------------- MODULE LearningProofs ---------------------------
(***************************************************************************)
(* Proofs about what the system learns, for every value of the constants:  *)
(* no economic outcome is learned twice (EconomicLearning), what is taught *)
(* and kept of the revenue portfolio is authorized and recorded            *)
(* (RevenuePortfolio), and a change of the repository that is learnt as    *)
(* verified was approved, whole and earned (SelfImprovement).              *)
(***************************************************************************)
EXTENDS EconomicLearning, RevenuePortfolio, SelfImprovement, FiniteSetTheorems, TLAPS

-----------------------------------------------------------------------------
(* EconomicLearning *)

\* The emitted set and the lessons go together: what was emitted was learned.
EmittedIsLearned == \A s \in Signals : lessons[s] = IF s \in emitted THEN 1 ELSE 0

\* A recovered or retried job is a job.
LEMMA ReleasedType ==
  ASSUME job \in [Cycles -> Job], NEW c \in Cycles
  PROVE  Released(c) \in Job
  BY LearningAssumption DEF Released, Job, Ended

\* A job that is queued, claimed or ended leaves the table well typed.
LEMMA QueueType ==
  ASSUME job \in [Cycles -> Job], NEW c \in Cycles, Queue(c)
  PROVE  job' \in [Cycles -> Job]
  <1>1. [status |-> "queued", attempts |-> 0] \in Job
    BY LearningAssumption DEF Job
  <1> QED BY <1>1 DEF Queue

-----------------------------------------------------------------------------

\* Every step preserves the type invariant.
LEMMA NextType == TypeOK /\ [Next]_vars => TypeOK'
  <1> SUFFICES ASSUME TypeOK, [Next]_vars PROVE TypeOK'
    OBVIOUS
  <1>1. ASSUME NEW q \in Requests, WriteOutcome(q) PROVE TypeOK'
    <2>1. request[q] \in Refs \X Facts
      BY <1>1 DEF WriteOutcome, TypeOK, Signals
    <2>2. ledger' \in [Refs -> Facts \union {NoFacts}]
      BY <1>1, <2>1 DEF WriteOutcome, TypeOK
    <2> QED BY <1>1, <2>2 DEF WriteOutcome, TypeOK
  <1>2. ASSUME NEW q \in Requests, NEW s \in Signals, CheckOutcome(q, s) PROVE TypeOK'
    BY <1>2 DEF CheckOutcome, TypeOK
  <1>3. CASE SubmitObjective
    BY <1>3, QueueType DEF SubmitObjective, TypeOK, memory
  <1>4. CASE ComesDue
    BY <1>4 DEF ComesDue, TypeOK, memory
  <1>5. CASE EnqueueDue
    <2>1. job' \in [Cycles -> Job]
      BY <1>5, QueueType DEF EnqueueDue, TypeOK
    <2>2. left' \in 0..MaxJobsPerTick
      BY <1>5, LearningAssumption DEF EnqueueDue
    <2>3. due' \in BOOLEAN
      BY <1>5, Zenon DEF EnqueueDue, TypeOK
    <2> QED BY <1>5, <2>1, <2>2, <2>3 DEF EnqueueDue, TypeOK, memory
  <1>6. CASE ClaimCycle
    <2>1. PICK c \in Claimable :
            /\ job' = [job EXCEPT ![c] = [status |-> "running", attempts |-> @.attempts + 1]]
            /\ mine' = c
      BY <1>6 DEF ClaimCycle
    <2>2. c \in Cycles /\ job[c] \in Job /\ job[c].attempts < MaxAttempts
      BY <2>1 DEF Claimable, TypeOK
    <2>3. [status |-> "running", attempts |-> job[c].attempts + 1] \in Job
      BY <2>2, LearningAssumption DEF Job
    <2>4. job' \in [Cycles -> Job]
      BY <2>1, <2>2, <2>3 DEF TypeOK
    <2>5. left' \in 0..MaxJobsPerTick
      BY <1>6, LearningAssumption DEF ClaimCycle, TypeOK
    <2> QED BY <1>6, <2>1, <2>2, <2>4, <2>5 DEF ClaimCycle, TypeOK, memory
  <1>7. CASE EndTick
    BY <1>7 DEF EndTick, TypeOK, memory
  <1>8. CASE Learn
    <2>1. lessons' \in [Signals -> Nat]
      BY <1>8 DEF Learn, TypeOK
    <2>2. emitted' \subseteq Signals
      BY <1>8 DEF Learn, TypeOK, Fresh
    <2> QED BY <1>8, <2>1, <2>2 DEF Learn, TypeOK
  <1>9. CASE Report
    <2>1. Ended \in Job
      BY LearningAssumption DEF Ended, Job
    <2> QED BY <1>9, <2>1 DEF Report, TypeOK, memory
  <1>10. CASE CycleRaises
    <2>1. Released(mine) \in Job
      BY ReleasedType DEF TypeOK
    <2>2. faults' \in 0..MaxFaults
      BY <1>10, LearningAssumption DEF CycleRaises, TypeOK
    <2> QED BY <1>10, <2>1, <2>2 DEF CycleRaises, TypeOK, memory
  <1>11. CASE LeaseLost
    <2>1. faults' \in 0..MaxFaults
      BY <1>11, LearningAssumption DEF LeaseLost, TypeOK
    <2> QED BY <1>11, <2>1 DEF LeaseLost, TypeOK, memory
  <1>12. CASE Crash
    <2>1. crashes' \in 0..MaxCrashes
      BY <1>12, LearningAssumption DEF Crash, TypeOK
    <2> QED BY <1>12, <2>1 DEF Crash, TypeOK
  <1>13. CASE Start
    <2>1. job' \in [Cycles -> Job]
      BY <1>13, ReleasedType DEF Start, TypeOK
    <2> QED BY <1>13, <2>1 DEF Start, TypeOK, memory
  <1>14. CASE UNCHANGED vars
    BY <1>14 DEF vars, TypeOK
  <1> QED
    BY <1>1, <1>2, <1>3, <1>4, <1>5, <1>6, <1>7, <1>8, <1>9, <1>10, <1>11, <1>12, <1>13,
       <1>14 DEF Next

\* Every variable of the process and of its jobs keeps its type, whatever
\* requests, faults and deaths it meets.
THEOREM TypeCorrect == Spec => []TypeOK
  <1>1. Init => TypeOK
    <2>1. Ended \in Job
      BY LearningAssumption DEF Ended, Job
    <2> QED BY <2>1, LearningAssumption DEF Init, TypeOK, NoRequest
  <1> QED BY <1>1, NextType, PTL DEF Spec

-----------------------------------------------------------------------------

\* A step changes the lessons and the emitted set together, or not at all.
LEMMA NextLearned == TypeOK /\ EmittedIsLearned /\ [Next]_vars => EmittedIsLearned'
  <1> SUFFICES ASSUME TypeOK, EmittedIsLearned, [Next]_vars PROVE EmittedIsLearned'
    OBVIOUS
  <1>1. CASE Learn
    <2>1. Fresh \intersect emitted = {}
      BY DEF Fresh
    <2> QED BY <1>1, <2>1 DEF Learn, EmittedIsLearned
  <1>2. CASE Crash
    BY <1>2 DEF Crash, EmittedIsLearned
  <1>3. CASE UNCHANGED <<emitted, lessons>>
    BY <1>3 DEF EmittedIsLearned
  <1> QED
    BY <1>1, <1>2, <1>3
    DEF Next, CheckOutcome, WriteOutcome, SubmitObjective, ComesDue, EnqueueDue, ClaimCycle,
        EndTick, Report, CycleRaises, LeaseLost, Start, memory, vars

\* No outcome is learned twice in the life of a process: emit and the lessons
\* agree although cycles fail, lose their lease and are run again.
THEOREM OutcomesAreLearnedOnce == Spec => []LearnedOnce
  <1>1. Init => EmittedIsLearned
    BY DEF Init, EmittedIsLearned
  <1>2. EmittedIsLearned => LearnedOnce
    BY DEF EmittedIsLearned, LearnedOnce
  <1> QED BY <1>1, <1>2, TypeCorrect, NextLearned, PTL DEF Spec

-----------------------------------------------------------------------------

\* A request that has checked its reference still finds no entry, and what
\* was learned of a reference is its entry.
EntriesStay ==
  /\ \A q \in Requests : request[q] # NoRequest => ledger[request[q][1]] = NoFacts
  /\ \A s \in Signals : lessons[s] > 0 => ledger[s[1]] = s[2]

\* With one request at a time nothing comes between its check and its write.
LEMMA NextEntriesStay ==
  ASSUME NEW one, Requests = {one}, TypeOK, EmittedIsLearned, EntriesStay, [Next]_vars
  PROVE  EntriesStay'
  <1>1. CASE WriteOutcome(one)
    <2>1. /\ request[one] # NoRequest
          /\ ledger[request[one][1]] = NoFacts
          /\ ledger' = [ledger EXCEPT ![request[one][1]] = request[one][2]]
          /\ request' = [request EXCEPT ![one] = NoRequest]
          /\ lessons' = lessons
      BY <1>1 DEF WriteOutcome, EntriesStay
    <2>2. \A q \in Requests : request'[q] = NoRequest
      BY <2>1 DEF TypeOK
    <2>3. ASSUME NEW s \in Signals, lessons[s] > 0 PROVE ledger'[s[1]] = s[2]
      <3>1. s[1] \in Refs /\ s[2] \in Facts
        BY DEF Signals
      <3>2. ledger[s[1]] = s[2] /\ s[2] # NoFacts
        BY <2>3, <3>1, LearningAssumption DEF EntriesStay
      <3>3. s[1] # request[one][1]
        BY <2>1, <3>2
      <3> QED BY <2>1, <3>1, <3>2, <3>3 DEF TypeOK
    <2> QED BY <2>1, <2>2, <2>3 DEF EntriesStay
  <1>2. ASSUME NEW s \in Signals, CheckOutcome(one, s) PROVE EntriesStay'
    BY <1>2 DEF CheckOutcome, EntriesStay, TypeOK
  <1>3. CASE Learn
    <2>1. ASSUME NEW s \in Signals, lessons'[s] > 0 PROVE ledger[s[1]] = s[2]
      <3>1. lessons[s] > 0 \/ s \in Fresh
        BY <1>3, <2>1 DEF Learn, TypeOK
      <3> QED BY <3>1 DEF Fresh, EntriesStay
    <2> QED BY <1>3, <2>1 DEF Learn, EntriesStay
  <1>4. CASE Crash
    BY <1>4 DEF Crash, EntriesStay
  <1>5. CASE UNCHANGED memory
    BY <1>5 DEF memory, EntriesStay
  <1>6. \/ WriteOutcome(one) \/ \E s \in Signals : CheckOutcome(one, s)
        \/ Learn \/ Crash \/ UNCHANGED memory
    BY DEF Next, SubmitObjective, ComesDue, EnqueueDue, ClaimCycle, EndTick, Report,
           CycleRaises, LeaseLost, Start, memory, vars
  <1> QED BY <1>1, <1>2, <1>3, <1>4, <1>5, <1>6

\* A process that takes one request at a time learns one outcome of each
\* reference: the ledger's promise is lost to concurrent requests alone.
THEOREM OneRequestAtATimeKeepsReferences ==
  ASSUME NEW CONSTANT one, Requests = {one}
  PROVE  Spec => []OneOutcomePerReference
  <1>1. Init => EmittedIsLearned /\ EntriesStay
    BY DEF Init, EmittedIsLearned, EntriesStay
  <1>2. TypeOK /\ EmittedIsLearned /\ EntriesStay /\ [Next]_vars =>
          EmittedIsLearned' /\ EntriesStay'
    BY NextLearned, NextEntriesStay
  <1>3. EntriesStay => OneOutcomePerReference
    <2> SUFFICES ASSUME EntriesStay, NEW s \in Signals, NEW t \in Signals,
                        s[1] = t[1], lessons[s] > 0, lessons[t] > 0
                 PROVE  s = t
      BY DEF OneOutcomePerReference
    <2>1. s[2] = t[2]
      BY DEF EntriesStay
    <2> QED BY <2>1 DEF Signals
  <1> QED BY <1>1, <1>2, <1>3, TypeCorrect, PTL DEF Spec

-----------------------------------------------------------------------------
(* RevenuePortfolio: what holds of the portfolio and of what was told *)

PortfolioTypes ==
  /\ status \in [Sources -> SourceStatus \union {"absent"}]
  /\ realized \in [Sources -> Amounts \union {0}]
  /\ approved \subseteq everApproved
  /\ everApproved \subseteq Sources
  /\ replaced \subseteq Sources
  /\ inputs \in 0..MaxInputs
  /\ restarts \in 0..MaxRestarts

\* The portfolio keeps to its size.
PortfolioFits == Cardinality(Known) <= MaximumSources

\* What a source's row has behind it: an active source is authorized or came so,
\* its income is recorded or came with it, and one that was replaced is retired
\* unless it was put to use again.
SourceIsSound(s) ==
  /\ status[s] = "active" => s \in Trusted \union approved \union broughtActive
  /\ realized[s] > 0 => <<s, realized[s]>> \in recorded
  /\ s \in replaced => status[s] = "retired"

\* What a signal says was so at some time.
Honest(x) ==
  /\ x.productive => x.source \in MayProduce
  /\ x.observed > 0 => <<x.source, x.observed>> \in recorded

Reader == [at: {"idle", "reading", "create", "mark"}, todo: SUBSET Sources,
           source: Sources \union {None}, observed: Amounts \union {0},
           signals: SUBSET SourceSignals]

ReadersAreHonest ==
  /\ reader \in [Readers -> Reader]
  /\ \A r \in Readers :
       /\ reader[r].observed > 0 => <<reader[r].source, reader[r].observed>> \in recorded
       /\ \A x \in reader[r].signals : Honest(x)

LessonsAreHonest ==
  /\ published \subseteq SUBSET SourceSignals
  /\ knowledge \in Seq(SUBSET SourceSignals)
  /\ \A i \in DOMAIN knowledge : \A x \in knowledge[i] : Honest(x)

Context == [at: {"none", "open", "candidate", "validated", "rejected"},
            signals: SUBSET SourceSignals, credit: {"none", "raised", "kept", "lowered"}]

ContextsAreHonest ==
  /\ context \in [Experiments -> Context]
  /\ \A e \in Experiments :
       /\ \A x \in context[e].signals : Honest(x)
       /\ context[e].credit # "none" => Productive(context[e].signals) # {}

PortfolioInv ==
  /\ PortfolioTypes
  /\ PortfolioFits
  /\ \A s \in Sources : SourceIsSound(s)
  /\ ReadersAreHonest
  /\ LessonsAreHonest
  /\ ContextsAreHonest

-----------------------------------------------------------------------------
(* The owners' calls *)

\* Nothing is forgotten of approvals, of how sources came, and of income.
HistoryGrows ==
  /\ everApproved \subseteq everApproved'
  /\ broughtActive \subseteq broughtActive'
  /\ recorded \subseteq recorded'

\* An honest signal stays one.
LEMMA HonestStays ==
  ASSUME HistoryGrows
  PROVE  \A x : Honest(x) => Honest(x)'
  BY DEF HistoryGrows, Honest, MayProduce

\* What was read, taught and kept stands while the history grows.
LEMMA SignalsStay ==
  ASSUME ReadersAreHonest, LessonsAreHonest, ContextsAreHonest,
         UNCHANGED <<reader, knowledge, published, context>>, HistoryGrows
  PROVE  ReadersAreHonest' /\ LessonsAreHonest' /\ ContextsAreHonest'
  <1>1. \A x : Honest(x) => Honest(x)'
    BY HonestStays
  <1> QED BY <1>1 DEF HistoryGrows, ReadersAreHonest, LessonsAreHonest, ContextsAreHonest

\* The number of sources does not grow with their statuses.
LEMMA SameKnownFits ==
  ASSUME PortfolioFits, Known' = Known
  PROVE  PortfolioFits'
  BY DEF PortfolioFits

\* add and discover check the size first.
LEMMA AddFits ==
  ASSUME NEW s \in Sources,
         Cardinality(Known) < MaximumSources, Known' \subseteq Known \union {s}
  PROVE  PortfolioFits'
  <1>1. IsFiniteSet(Sources) /\ MaximumSources \in Nat
    BY PortfolioAssumption
  <1>2. IsFiniteSet(Known) /\ Cardinality(Known) \in Nat
    BY <1>1, FS_Subset, FS_CardinalityType DEF Known
  <1>3. /\ IsFiniteSet(Known \union {s})
        /\ Cardinality(Known \union {s}) <= Cardinality(Known) + 1
    <2>1. /\ IsFiniteSet(Known \union {s})
          /\ \/ Cardinality(Known \union {s}) = Cardinality(Known)
             \/ Cardinality(Known \union {s}) = Cardinality(Known) + 1
      BY <1>2, FS_AddElement, Zenon
    <2> QED BY <1>2, <2>1
  <1>4. PICK known : known = Known'
    OBVIOUS
  <1>5. IsFiniteSet(known) /\ Cardinality(known) <= Cardinality(Known \union {s})
    BY <1>3, <1>4, FS_Subset
  <1>6. Cardinality(known) \in Nat /\ Cardinality(Known \union {s}) \in Nat
    BY <1>3, <1>5, FS_CardinalityType
  <1>7. Cardinality(Known) + 1 <= MaximumSources
    BY <1>1, <1>2
  <1>8. Cardinality(known) <= MaximumSources
    BY <1>1, <1>2, <1>3, <1>5, <1>6, <1>7
  <1> QED BY <1>4, <1>8 DEF PortfolioFits

\* What an owner's call leaves alone, and what it counts.
LEMMA OwnerCalls ==
  ASSUME PortfolioInv, OwnerCall
  PROVE  /\ inputs' \in 0..MaxInputs
         /\ UNCHANGED <<reader, knowledge, published, context, restarts>>
  <1>1. /\ inputs < MaxInputs /\ inputs' = inputs + 1
        /\ UNCHANGED <<reader, knowledge, published, context, restarts>>
    BY DEF OwnerCall, Input, taught
  <1>2. inputs \in 0..MaxInputs /\ MaxInputs \in Nat
    BY PortfolioAssumption DEF PortfolioInv, PortfolioTypes
  <1> QED BY <1>1, <1>2

LEMMA AddKeeps ==
  ASSUME PortfolioInv, NEW s \in Sources, NEW made \in Brought \union {Discovered}, Add(s, made)
  PROVE  PortfolioInv'
  <1>1. /\ status[s] = "absent" /\ Cardinality(Known) < MaximumSources
        /\ status' = [status EXCEPT ![s] = made.status]
        /\ realized' = [realized EXCEPT ![s] = made.realized]
        /\ approved' = IF made.approved THEN approved \union {s} ELSE approved
        /\ everApproved' = IF made.approved THEN everApproved \union {s} ELSE everApproved
        /\ broughtActive' = IF made.status = "active" THEN broughtActive \union {s}
                                                      ELSE broughtActive
        /\ recorded' = recorded \union {<<s, made.realized>>}
        /\ OwnerCall
        /\ UNCHANGED replaced
    BY DEF Add, With
  <1>2. /\ inputs' \in 0..MaxInputs
        /\ UNCHANGED <<reader, knowledge, published, context, restarts>>
    BY <1>1, OwnerCalls
  <1>3. made.status \in SourceStatus /\ made.realized \in Amounts \union {0}
    BY PortfolioAssumption DEF Made, Discovered, SourceStatus
  <1>4. /\ status' \in [Sources -> SourceStatus \union {"absent"}]
        /\ realized' \in [Sources -> Amounts \union {0}]
        /\ status'[s] = made.status /\ realized'[s] = made.realized
        /\ \A u \in Sources : u # s => status'[u] = status[u] /\ realized'[u] = realized[u]
    BY <1>1, <1>3 DEF PortfolioInv, PortfolioTypes
  <1>5. PortfolioTypes'
    BY <1>1, <1>2, <1>4 DEF PortfolioInv, PortfolioTypes
  <1>6. PortfolioFits'
    <2>1. Known' \subseteq Known \union {s}
      BY <1>4 DEF Known
    <2> QED BY <1>1, <2>1, AddFits
  <1>7. ASSUME NEW u \in Sources PROVE SourceIsSound(u)'
    <2>1. SourceIsSound(u) /\ SourceIsSound(s)
      BY DEF PortfolioInv
    <2>2. CASE u = s
      BY <1>1, <1>4, <2>1, <2>2 DEF SourceIsSound
    <2>3. CASE u # s
      BY <1>1, <1>4, <2>1, <2>3 DEF SourceIsSound
    <2> QED BY <2>2, <2>3
  <1>8. HistoryGrows
    BY <1>1 DEF HistoryGrows
  <1> QED BY <1>2, <1>5, <1>6, <1>7, <1>8, SignalsStay DEF PortfolioInv

LEMMA ApproveKeeps ==
  ASSUME PortfolioInv, NEW s \in Sources, ApproveSource(s)
  PROVE  PortfolioInv'
  <1>1. /\ status[s] # "absent"
        /\ approved' = approved \union {s} /\ everApproved' = everApproved \union {s}
        /\ status' = [status EXCEPT ![s] = "ready"]
        /\ replaced' = replaced \ {s}
        /\ OwnerCall
        /\ UNCHANGED <<realized, broughtActive, recorded>>
    BY DEF ApproveSource, Known
  <1>2. /\ inputs' \in 0..MaxInputs
        /\ UNCHANGED <<reader, knowledge, published, context, restarts>>
    BY <1>1, OwnerCalls
  <1>3. /\ status' \in [Sources -> SourceStatus \union {"absent"}]
        /\ status'[s] = "ready"
        /\ \A u \in Sources : u # s => status'[u] = status[u]
    BY <1>1 DEF PortfolioInv, PortfolioTypes, SourceStatus
  <1>4. PortfolioTypes'
    BY <1>1, <1>2, <1>3 DEF PortfolioInv, PortfolioTypes
  <1>5. PortfolioFits'
    BY <1>1, <1>3, SameKnownFits DEF Known, PortfolioInv
  <1>6. \A u \in Sources : SourceIsSound(u)'
    BY <1>1, <1>3 DEF PortfolioInv, SourceIsSound
  <1>7. HistoryGrows
    BY <1>1 DEF HistoryGrows
  <1> QED BY <1>2, <1>4, <1>5, <1>6, <1>7, SignalsStay DEF PortfolioInv

LEMMA ActivateKeeps ==
  ASSUME PortfolioInv, NEW s \in Sources, Activate(s)
  PROVE  PortfolioInv'
  <1>1. /\ status[s] # "absent" /\ s \in Trusted \union approved
        /\ status' = [status EXCEPT ![s] = "active"]
        /\ replaced' = replaced \ {s}
        /\ OwnerCall
        /\ UNCHANGED <<realized, approved, everApproved, broughtActive, recorded>>
    BY DEF Activate, Authorized, Known
  <1>2. /\ inputs' \in 0..MaxInputs
        /\ UNCHANGED <<reader, knowledge, published, context, restarts>>
    BY <1>1, OwnerCalls
  <1>3. /\ status' \in [Sources -> SourceStatus \union {"absent"}]
        /\ status'[s] = "active"
        /\ \A u \in Sources : u # s => status'[u] = status[u]
    BY <1>1 DEF PortfolioInv, PortfolioTypes, SourceStatus
  <1>4. PortfolioTypes'
    BY <1>1, <1>2, <1>3 DEF PortfolioInv, PortfolioTypes
  <1>5. PortfolioFits'
    BY <1>1, <1>3, SameKnownFits DEF Known, PortfolioInv
  <1>6. \A u \in Sources : SourceIsSound(u)'
    BY <1>1, <1>3 DEF PortfolioInv, SourceIsSound
  <1>7. HistoryGrows
    BY <1>1 DEF HistoryGrows
  <1> QED BY <1>2, <1>4, <1>5, <1>6, <1>7, SignalsStay DEF PortfolioInv

\* Income goes with its record; only an active source degrades, and no active
\* source is one that was replaced and rests.
LEMMA RecordKeeps ==
  ASSUME PortfolioInv, NEW s \in Sources, NEW amount \in Amounts,
         RecordRealized(s, amount)
  PROVE  PortfolioInv'
  <1>1. /\ status[s] # "absent"
        /\ realized' = [realized EXCEPT ![s] = amount]
        /\ status' = [status EXCEPT ![s] =
                        IF status[s] = "active" /\ amount = 0 THEN "degraded" ELSE status[s]]
        /\ recorded' = recorded \union {<<s, amount>>}
        /\ OwnerCall
        /\ UNCHANGED <<approved, everApproved, broughtActive, replaced>>
    BY DEF RecordRealized, Known
  <1>2. /\ inputs' \in 0..MaxInputs
        /\ UNCHANGED <<reader, knowledge, published, context, restarts>>
    BY <1>1, OwnerCalls
  <1>3. /\ status' \in [Sources -> SourceStatus \union {"absent"}]
        /\ status'[s] = IF status[s] = "active" /\ amount = 0 THEN "degraded" ELSE status[s]
        /\ \A u \in Sources : u # s => status'[u] = status[u]
    BY <1>1 DEF PortfolioInv, PortfolioTypes, SourceStatus
  <1>4. /\ realized' \in [Sources -> Amounts \union {0}]
        /\ realized'[s] = amount
        /\ \A u \in Sources : u # s => realized'[u] = realized[u]
    BY <1>1 DEF PortfolioInv, PortfolioTypes
  <1>5. PortfolioTypes'
    BY <1>1, <1>2, <1>3, <1>4 DEF PortfolioInv, PortfolioTypes
  <1>6. PortfolioFits'
    BY <1>1, <1>3, SameKnownFits DEF Known, PortfolioInv
  <1>7. \A u \in Sources : SourceIsSound(u)'
    BY <1>1, <1>3, <1>4 DEF PortfolioInv, SourceIsSound
  <1>8. HistoryGrows
    BY <1>1 DEF HistoryGrows
  <1> QED BY <1>2, <1>5, <1>6, <1>7, <1>8, SignalsStay DEF PortfolioInv

\* The failed source is retired, and rests; a candidate that had itself been
\* replaced is in use again.
LEMMA ReplaceKeeps ==
  ASSUME PortfolioInv, NEW failed \in Sources,
         NEW candidate \in Sources, Replace(failed, candidate)
  PROVE  PortfolioInv'
  <1>1. /\ status[failed] \in {"degraded", "retired"}
        /\ status[candidate] \in {"ready", "active"}
        /\ candidate \in Trusted \union approved
        /\ status' = [status EXCEPT ![candidate] = "active", ![failed] = "retired"]
        /\ replaced' = (replaced \union {failed}) \ {candidate}
        /\ OwnerCall
        /\ UNCHANGED <<realized, approved, everApproved, broughtActive, recorded>>
    BY DEF Replace, NeedsReplacement, Viable, Authorized
  <1>2. /\ inputs' \in 0..MaxInputs
        /\ UNCHANGED <<reader, knowledge, published, context, restarts>>
    BY <1>1, OwnerCalls
  <1>3. /\ candidate # failed
        /\ status' \in [Sources -> SourceStatus \union {"absent"}]
        /\ status'[candidate] = "active" /\ status'[failed] = "retired"
        /\ \A u \in Sources : u \notin {candidate, failed} => status'[u] = status[u]
    BY <1>1 DEF PortfolioInv, PortfolioTypes, SourceStatus
  <1>4. PortfolioTypes'
    BY <1>1, <1>2, <1>3 DEF PortfolioInv, PortfolioTypes
  <1>5. PortfolioFits'
    BY <1>1, <1>3, SameKnownFits DEF Known, PortfolioInv
  <1>6. ASSUME NEW u \in Sources PROVE SourceIsSound(u)'
    <2>1. SourceIsSound(u)
      BY DEF PortfolioInv
    <2>2. CASE u = failed
      BY <1>1, <1>3, <2>1, <2>2 DEF SourceIsSound
    <2>3. CASE u = candidate
      BY <1>1, <1>3, <2>1, <2>3 DEF SourceIsSound
    <2>4. CASE u \notin {candidate, failed}
      BY <1>1, <1>3, <2>1, <2>4 DEF SourceIsSound
    <2> QED BY <2>2, <2>3, <2>4
  <1>7. HistoryGrows
    BY <1>1 DEF HistoryGrows
  <1> QED BY <1>2, <1>4, <1>5, <1>6, <1>7, SignalsStay DEF PortfolioInv

-----------------------------------------------------------------------------
(* The readers' steps *)

\* A reader's step leaves the portfolio and the history alone.
LEMMA ReadingKeeps ==
  ASSUME PortfolioInv, Reading, inputs' \in 0..MaxInputs
  PROVE  /\ PortfolioTypes' /\ PortfolioFits'
         /\ \A s \in Sources : SourceIsSound(s)'
         /\ \A x : Honest(x)' <=> Honest(x)
  <1>1. UNCHANGED <<status, realized, approved, restarts, everApproved, broughtActive, recorded,
                    replaced>>
    BY DEF Reading, portfolio, history
  <1>2. PortfolioTypes' /\ \A s \in Sources : SourceIsSound(s)'
    BY <1>1 DEF PortfolioInv, PortfolioTypes, SourceIsSound
  <1>3. PortfolioFits'
    BY <1>1, SameKnownFits DEF PortfolioInv, Known
  <1>4. \A x : Honest(x)' <=> Honest(x)
    BY <1>1 DEF Honest, MayProduce
  <1> QED BY <1>2, <1>3, <1>4

\* A reader that remembers what was recorded, and holds honest signals, leaves
\* the readers honest.
LEMMA ReaderKeeps ==
  ASSUME PortfolioInv, Reading, inputs' \in 0..MaxInputs,
         NEW r \in Readers, NEW row \in Reader, reader' = [reader EXCEPT ![r] = row],
         row.observed > 0 => <<row.source, row.observed>> \in recorded,
         \A x \in row.signals : Honest(x)
  PROVE  ReadersAreHonest'
  <1>1. /\ reader' \in [Readers -> Reader] /\ reader'[r] = row
        /\ \A q \in Readers : q # r => reader'[q] = reader[q]
    BY DEF PortfolioInv, ReadersAreHonest
  <1>2. recorded' = recorded
    BY DEF Reading, history
  <1>3. \A x : Honest(x)' <=> Honest(x)
    BY ReadingKeeps
  <1>4. ASSUME NEW q \in Readers
        PROVE  /\ reader'[q].observed > 0 =>
                    <<reader'[q].source, reader'[q].observed>> \in recorded'
               /\ \A x \in reader'[q].signals : Honest(x)'
    <2>1. CASE q = r
      BY <1>1, <1>2, <1>3, <2>1
    <2>2. CASE q # r
      BY <1>1, <1>2, <1>3, <2>2 DEF PortfolioInv, ReadersAreHonest
    <2> QED BY <2>1, <2>2
  <1> QED BY <1>1, <1>4 DEF ReadersAreHonest

\* A reader that has nothing to do is honest.
LEMMA IdleReader ==
  Idle \in Reader /\ ~(Idle.observed > 0) /\ Idle.signals = {}
  BY DEF Idle, Reader

\* A reader that only moves, or leaves, remembers no more than before.
LEMMA ReaderMoves ==
  ASSUME PortfolioInv, Reading, inputs' \in 0..MaxInputs,
         NEW r \in Readers,
         Leave(r) \/ Goto(r, "create") \/ Goto(r, "mark")
  PROVE  ReadersAreHonest'
  <1>1. /\ reader[r] \in Reader
        /\ reader[r].observed > 0 => <<reader[r].source, reader[r].observed>> \in recorded
        /\ \A x \in reader[r].signals : Honest(x)
    BY DEF PortfolioInv, ReadersAreHonest
  <1>2. CASE Leave(r)
    BY <1>2, IdleReader, ReaderKeeps DEF Leave
  <1>3. ASSUME NEW place \in {"create", "mark"}, Goto(r, place) PROVE ReadersAreHonest'
    <2> DEFINE row == [reader[r] EXCEPT !.at = place]
    <2>1. /\ row \in Reader /\ row.observed = reader[r].observed
          /\ row.source = reader[r].source /\ row.signals = reader[r].signals
      BY <1>1 DEF Reader
    <2>2. reader' = [reader EXCEPT ![r] = row]
      BY <1>3 DEF Goto
    <2> HIDE DEF row
    <2> QED BY <1>1, <2>1, <2>2, ReaderKeeps
  <1> QED BY <1>2, <1>3

LEMMA LessonsStay ==
  ASSUME PortfolioInv, Reading, inputs' \in 0..MaxInputs, UNCHANGED <<knowledge, published>>
  PROVE  LessonsAreHonest'
  <1>1. \A x : Honest(x)' <=> Honest(x)
    BY ReadingKeeps
  <1> QED BY <1>1 DEF PortfolioInv, LessonsAreHonest

LEMMA ContextsStay ==
  ASSUME PortfolioInv, Reading, inputs' \in 0..MaxInputs, UNCHANGED context
  PROVE  ContextsAreHonest'
  <1>1. \A x : Honest(x)' <=> Honest(x)
    BY ReadingKeeps
  <1> QED BY <1>1 DEF PortfolioInv, ContextsAreHonest

LEMMA SnapshotKeeps ==
  ASSUME PortfolioInv, NEW r \in Readers, Snapshot(r)
  PROVE  PortfolioInv'
  <1> DEFINE row == [reader[r] EXCEPT !.at = "reading", !.todo = Known]
  <1>1. /\ Reading /\ UNCHANGED <<knowledge, published, context>>
        /\ inputs < MaxInputs /\ inputs' = inputs + 1
        /\ reader' = [reader EXCEPT ![r] = row]
    BY DEF Snapshot, Input, taught
  <1>2. inputs' \in 0..MaxInputs
    BY <1>1, PortfolioAssumption DEF PortfolioInv, PortfolioTypes
  <1>3. /\ reader[r] \in Reader
        /\ reader[r].observed > 0 => <<reader[r].source, reader[r].observed>> \in recorded
        /\ \A x \in reader[r].signals : Honest(x)
    BY DEF PortfolioInv, ReadersAreHonest
  <1>4. Known \subseteq Sources
    BY DEF Known
  <1>5. /\ row \in Reader /\ row.observed = reader[r].observed
        /\ row.source = reader[r].source /\ row.signals = reader[r].signals
    BY <1>3, <1>4 DEF Reader
  <1> HIDE DEF row
  <1>6. ReadersAreHonest'
    BY <1>1, <1>2, <1>3, <1>5, ReaderKeeps
  <1> QED BY <1>1, <1>2, <1>6, ReadingKeeps, LessonsStay, ContextsStay DEF PortfolioInv

\* The reader remembers an income that is recorded, of the source it is at.
LEMMA ReadIncomeKeeps ==
  ASSUME PortfolioInv, NEW r \in Readers, ReadIncome(r)
  PROVE  PortfolioInv'
  <1>1. /\ Reading /\ UNCHANGED <<knowledge, published, context>>
        /\ inputs' \in 0..MaxInputs
    BY DEF ReadIncome, taught, PortfolioInv, PortfolioTypes
  <1>2. /\ reader[r] \in Reader
        /\ \A x \in reader[r].signals : Honest(x)
    BY DEF PortfolioInv, ReadersAreHonest
  <1>3. PICK s \in Sources :
          reader' = [reader EXCEPT ![r].source = s, ![r].observed = realized[s]]
    BY <1>2 DEF ReadIncome, Reader
  <1> DEFINE row == [reader[r] EXCEPT !.source = s, !.observed = realized[s]]
  <1>4. /\ realized[s] \in Amounts \union {0}
        /\ realized[s] > 0 => <<s, realized[s]>> \in recorded
    BY DEF PortfolioInv, PortfolioTypes, SourceIsSound
  <1>5. /\ row \in Reader /\ row.observed = realized[s]
        /\ row.source = s /\ row.signals = reader[r].signals
    BY <1>2, <1>4 DEF Reader
  <1>6. reader' = [reader EXCEPT ![r] = row]
    BY <1>3
  <1> HIDE DEF row
  <1>7. ReadersAreHonest'
    BY <1>1, <1>2, <1>4, <1>5, <1>6, ReaderKeeps
  <1> QED BY <1>1, <1>7, ReadingKeeps, LessonsStay, ContextsStay DEF PortfolioInv

\* The signal calls the source productive if it is active now, and tells the
\* income that was remembered.
LEMMA ReadStatusKeeps ==
  ASSUME PortfolioInv, NEW r \in Readers, ReadStatus(r)
  PROVE  PortfolioInv'
  <1>1. PICK s : s = reader[r].source
    OBVIOUS
  <1>2. PICK signal : signal = Signal(s, reader[r].observed)
    OBVIOUS
  <1>3. /\ Reading /\ UNCHANGED <<knowledge, published, context>>
        /\ inputs' \in 0..MaxInputs /\ s # None
        /\ reader' = [reader EXCEPT ![r].todo = @ \ {s}, ![r].source = None, ![r].observed = 0,
                                    ![r].signals = @ \union {signal}]
    BY <1>1, <1>2 DEF ReadStatus, taught, PortfolioInv, PortfolioTypes
  <1>4. /\ reader[r] \in Reader
        /\ reader[r].observed > 0 => <<s, reader[r].observed>> \in recorded
        /\ \A x \in reader[r].signals : Honest(x)
    BY <1>1 DEF PortfolioInv, ReadersAreHonest
  <1>5. s \in Sources
    BY <1>1, <1>3, <1>4 DEF Reader
  <1>6. signal \in SourceSignals /\ Honest(signal)
    <2>1. /\ signal = [source |-> s, observed |-> reader[r].observed,
                       productive |-> status[s] = "active" /\ reader[r].observed > 0]
          /\ reader[r].observed \in Amounts \union {0}
      BY <1>2, <1>4 DEF Signal, Reader
    <2>2. signal \in SourceSignals
      BY <1>5, <2>1 DEF SourceSignals
    <2>3. status[s] = "active" => s \in MayProduce
      BY <1>5 DEF PortfolioInv, PortfolioTypes, SourceIsSound, MayProduce
    <2>4. /\ signal.source = s /\ signal.observed = reader[r].observed
          /\ signal.productive => status[s] = "active"
      BY <2>1
    <2> QED BY <1>4, <2>2, <2>3, <2>4 DEF Honest
  <1> DEFINE row == [reader[r] EXCEPT !.todo = @ \ {s}, !.source = None, !.observed = 0,
                                      !.signals = @ \union {signal}]
  <1>7. /\ row \in Reader /\ ~(row.observed > 0)
        /\ row.signals = reader[r].signals \union {signal}
    <2>1. /\ row \in Reader /\ row.observed = 0
          /\ row.signals = reader[r].signals \union {signal}
      BY <1>4, <1>6 DEF Reader
    <2> HIDE DEF row
    <2> QED BY <2>1
  <1>8. reader' = [reader EXCEPT ![r] = row]
    BY <1>3
  <1> HIDE DEF row
  <1>9. ReadersAreHonest'
    BY <1>3, <1>4, <1>6, <1>7, <1>8, ReaderKeeps
  <1> QED BY <1>3, <1>9, ReadingKeeps, LessonsStay, ContextsStay DEF PortfolioInv

LEMMA CheckPublishedKeeps ==
  ASSUME PortfolioInv, NEW r \in Readers, CheckPublished(r)
  PROVE  PortfolioInv'
  <1>1. /\ Reading /\ UNCHANGED <<knowledge, published, context>>
        /\ inputs' \in 0..MaxInputs
        /\ Leave(r) \/ Goto(r, "create")
    BY DEF CheckPublished, taught, PortfolioInv, PortfolioTypes
  <1> QED BY <1>1, ReaderMoves, ReadingKeeps, LessonsStay, ContextsStay DEF PortfolioInv

\* The lesson is what the reader holds, and no more.
LEMMA CreateKnowledgeKeeps ==
  ASSUME PortfolioInv, NEW r \in Readers, CreateKnowledge(r)
  PROVE  PortfolioInv'
  <1>1. /\ Reading /\ UNCHANGED <<published, context>>
        /\ inputs' \in 0..MaxInputs
        /\ knowledge' = Append(knowledge, reader[r].signals)
        /\ Goto(r, "mark")
    BY DEF CreateKnowledge, PortfolioInv, PortfolioTypes
  <1>2. \A x : Honest(x)' <=> Honest(x)
    BY <1>1, ReadingKeeps
  <1>3. /\ knowledge \in Seq(SUBSET SourceSignals)
        /\ reader[r].signals \in SUBSET SourceSignals
        /\ \A x \in reader[r].signals : Honest(x)
        /\ \A i \in 1..Len(knowledge) : \A x \in knowledge[i] : Honest(x)
    <2>1. /\ knowledge \in Seq(SUBSET SourceSignals)
          /\ \A i \in DOMAIN knowledge : \A x \in knowledge[i] : Honest(x)
      BY DEF PortfolioInv, LessonsAreHonest
    <2>2. DOMAIN knowledge = 1..Len(knowledge)
      BY <2>1
    <2>3. /\ reader[r].signals \in SUBSET SourceSignals
          /\ \A x \in reader[r].signals : Honest(x)
      BY DEF PortfolioInv, ReadersAreHonest, Reader
    <2> QED BY <2>1, <2>2, <2>3
  <1>4. /\ knowledge' \in Seq(SUBSET SourceSignals)
        /\ Len(knowledge') = Len(knowledge) + 1
        /\ \A i \in 1..Len(knowledge) : knowledge'[i] = knowledge[i]
        /\ knowledge'[Len(knowledge) + 1] = reader[r].signals
    BY <1>1, <1>3
  <1>5. ASSUME NEW i \in DOMAIN knowledge', NEW x \in knowledge'[i] PROVE Honest(x)'
    <2>1. i \in 1..Len(knowledge) \/ i = Len(knowledge) + 1
      BY <1>3, <1>4
    <2> QED BY <1>2, <1>3, <1>4, <1>5, <2>1
  <1>6. LessonsAreHonest'
    BY <1>1, <1>4, <1>5 DEF PortfolioInv, LessonsAreHonest
  <1> QED BY <1>1, <1>6, ReaderMoves, ReadingKeeps, ContextsStay DEF PortfolioInv

LEMMA MarkPublishedKeeps ==
  ASSUME PortfolioInv, NEW r \in Readers, MarkPublished(r)
  PROVE  PortfolioInv'
  <1>1. /\ Reading /\ UNCHANGED <<knowledge, context>>
        /\ inputs' \in 0..MaxInputs
        /\ published' = published \union {reader[r].signals}
        /\ Leave(r)
    BY DEF MarkPublished, PortfolioInv, PortfolioTypes
  <1>2. \A x : Honest(x)' <=> Honest(x)
    BY <1>1, ReadingKeeps
  <1>3. reader[r].signals \in SUBSET SourceSignals
    BY DEF PortfolioInv, ReadersAreHonest, Reader
  <1>4. LessonsAreHonest'
    BY <1>1, <1>2, <1>3 DEF PortfolioInv, LessonsAreHonest
  <1> QED BY <1>1, <1>4, ReaderMoves, ReadingKeeps, ContextsStay DEF PortfolioInv

\* An experiment keeps what its cycle started with; nothing is credited yet.
LEMMA ProposeKeeps ==
  ASSUME PortfolioInv, NEW r \in Readers, NEW e \in Experiments,
         Propose(r, e)
  PROVE  PortfolioInv'
  <1>1. PICK at \in {"open", "candidate"} :
          context' = [context EXCEPT ![e] = [Open(reader[r].signals) EXCEPT !.at = at]]
    BY DEF Propose
  <1>2. /\ Reading /\ UNCHANGED <<knowledge, published>>
        /\ inputs' \in 0..MaxInputs /\ Leave(r)
    BY DEF Propose, taught, PortfolioInv, PortfolioTypes
  <1>3. /\ reader[r].signals \in SUBSET SourceSignals
        /\ \A x \in reader[r].signals : Honest(x)
    BY DEF PortfolioInv, ReadersAreHonest, Reader
  <1> DEFINE row == [Open(reader[r].signals) EXCEPT !.at = at]
  <1>4. row \in Context /\ row.signals = reader[r].signals /\ row.credit = "none"
    BY <1>3 DEF Open, Context
  <1> HIDE DEF row
  <1>5. /\ context' \in [Experiments -> Context] /\ context'[e] = row
        /\ \A d \in Experiments : d # e => context'[d] = context[d]
    BY <1>1, <1>4 DEF PortfolioInv, ContextsAreHonest, row
  <1>6. \A x : Honest(x)' <=> Honest(x)
    BY <1>2, ReadingKeeps
  <1>7. ContextsAreHonest'
    <2>1. ASSUME NEW d \in Experiments
          PROVE  /\ \A x \in context'[d].signals : Honest(x)'
                 /\ context'[d].credit # "none" => Productive(context'[d].signals) # {}
      <3>1. CASE d = e
        BY <1>3, <1>4, <1>5, <1>6, <3>1
      <3>2. CASE d # e
        BY <1>5, <1>6, <3>2 DEF PortfolioInv, ContextsAreHonest
      <3> QED BY <3>1, <3>2
    <2>2. (\A d \in Experiments :
             /\ \A x \in context[d].signals : Honest(x)
             /\ context[d].credit # "none" => Productive(context[d].signals) # {})'
      BY <2>1 DEF Productive
    <2> QED BY <1>5, <2>2 DEF ContextsAreHonest
  <1> QED BY <1>2, <1>7, ReaderMoves, ReadingKeeps, LessonsStay DEF PortfolioInv

LEMMA ProposeNothingKeeps ==
  ASSUME PortfolioInv, NEW r \in Readers, ProposeNothing(r)
  PROVE  PortfolioInv'
  <1>1. /\ Reading /\ UNCHANGED <<knowledge, published, context>>
        /\ inputs' \in 0..MaxInputs /\ Leave(r)
    BY DEF ProposeNothing, taught, PortfolioInv, PortfolioTypes
  <1> QED BY <1>1, ReaderMoves, ReadingKeeps, LessonsStay, ContextsStay DEF PortfolioInv

\* An opportunity is credited with what the cycle started with, and only if one
\* of its sources was productive.
LEMMA ContinueKeeps ==
  ASSUME PortfolioInv, NEW e \in Experiments, Continue(e)
  PROVE  PortfolioInv'
  <1>1. /\ UNCHANGED <<status, realized, approved, reader, knowledge, published,
                       inputs, restarts, everApproved, broughtActive, recorded, replaced>>
        /\ Reading
    BY DEF Continue, portfolio, taught, history, Reading
  <1>2. PICK at \in {"validated", "rejected"} :
          context' = [context EXCEPT ![e].at = at,
            ![e].credit = IF at = "validated" THEN Credit(context[e].signals) ELSE "none"]
    BY DEF Continue
  <1>3. PICK credit : credit = IF at = "validated" THEN Credit(context[e].signals) ELSE "none"
    OBVIOUS
  <1>4. /\ credit \in {"none", "raised", "kept", "lowered"}
        /\ credit # "none" => Productive(context[e].signals) # {}
    BY <1>3 DEF Credit
  <1> DEFINE row == [context[e] EXCEPT !.at = at, !.credit = credit]
  <1>5. /\ context[e] \in Context
        /\ \A x \in context[e].signals : Honest(x)
    BY DEF PortfolioInv, ContextsAreHonest
  <1>6. row \in Context /\ row.signals = context[e].signals /\ row.credit = credit
    BY <1>4, <1>5 DEF Context
  <1>7. context' = [context EXCEPT ![e] = row]
    BY <1>2, <1>3
  <1> HIDE DEF row
  <1>8. /\ context' \in [Experiments -> Context] /\ context'[e] = row
        /\ \A d \in Experiments : d # e => context'[d] = context[d]
    BY <1>6, <1>7 DEF PortfolioInv, ContextsAreHonest
  <1>9. inputs' \in 0..MaxInputs
    BY <1>1 DEF PortfolioInv, PortfolioTypes
  <1>10. \A x : Honest(x)' <=> Honest(x)
    BY <1>1, <1>9, ReadingKeeps
  <1>11. ContextsAreHonest'
    <2>1. ASSUME NEW d \in Experiments
          PROVE  /\ \A x \in context'[d].signals : Honest(x)'
                 /\ context'[d].credit # "none" => Productive(context'[d].signals) # {}
      <3>1. CASE d = e
        BY <1>4, <1>5, <1>6, <1>8, <1>10, <3>1
      <3>2. CASE d # e
        BY <1>8, <1>10, <3>2 DEF PortfolioInv, ContextsAreHonest
      <3> QED BY <3>1, <3>2
    <2>2. (\A d \in Experiments :
             /\ \A x \in context[d].signals : Honest(x)
             /\ context[d].credit # "none" => Productive(context[d].signals) # {})'
      BY <2>1 DEF Productive
    <2> QED BY <1>8, <2>2 DEF ContextsAreHonest
  <1>12. ReadersAreHonest'
    BY <1>1, <1>10 DEF PortfolioInv, ReadersAreHonest
  <1> QED BY <1>1, <1>9, <1>11, <1>12, ReadingKeeps, LessonsStay DEF PortfolioInv

-----------------------------------------------------------------------------
(* Restarts, and the theorems *)

\* An empty portfolio has nothing to answer for.
LEMMA EmptyIsSound ==
  ASSUME Empty, replaced = {}
  PROVE  /\ status \in [Sources -> SourceStatus \union {"absent"}]
         /\ realized \in [Sources -> Amounts \union {0}]
         /\ approved = {}
         /\ PortfolioFits
         /\ \A s \in Sources : SourceIsSound(s)
         /\ ReadersAreHonest /\ LessonsAreHonest
  <1>1. /\ status \in [Sources -> SourceStatus \union {"absent"}]
        /\ realized \in [Sources -> Amounts \union {0}]
        /\ approved = {}
    BY DEF Empty
  <1>2. PortfolioFits
    <2>1. Known = {}
      BY DEF Empty, Known
    <2>2. Cardinality({}) = 0 /\ MaximumSources \in Nat
      BY FS_EmptySet, PortfolioAssumption
    <2> QED BY <2>1, <2>2 DEF PortfolioFits
  <1>3. ASSUME NEW s \in Sources PROVE SourceIsSound(s)
    <2>1. status[s] = "absent" /\ ~(realized[s] > 0) /\ s \notin replaced
      BY DEF Empty
    <2> QED BY <2>1 DEF SourceIsSound
  <1>4. ReadersAreHonest
    BY IdleReader DEF Empty, ReadersAreHonest
  <1>5. LessonsAreHonest
    BY DEF Empty, LessonsAreHonest
  <1> QED BY <1>1, <1>2, <1>3, <1>4, <1>5

LEMMA PortfolioStarts ==
  ASSUME PortfolioInit
  PROVE  PortfolioInv
  <1>1. NoContext \in Context /\ NoContext.signals = {} /\ NoContext.credit = "none"
    BY DEF NoContext, Context
  <1>2. ContextsAreHonest
    BY <1>1 DEF PortfolioInit, ContextsAreHonest
  <1>3. PortfolioTypes
    BY EmptyIsSound, PortfolioAssumption DEF PortfolioInit, PortfolioTypes
  <1> QED BY <1>2, <1>3, EmptyIsSound DEF PortfolioInit, PortfolioInv

\* A restart forgets the portfolio, the readers and the lessons, and keeps the
\* contexts with the history.
LEMMA RestartKeeps ==
  ASSUME PortfolioInv, Restart
  PROVE  PortfolioInv'
  <1>1. /\ status' = [s \in Sources |-> "absent"]
        /\ realized' = [s \in Sources |-> 0]
        /\ approved' = {}
        /\ replaced' = {}
        /\ reader' = [r \in Readers |-> Idle]
        /\ knowledge' = <<>> /\ published' = {}
        /\ UNCHANGED <<context, inputs, everApproved, broughtActive, recorded>>
    BY DEF Restart
  <1>2. restarts' \in 0..MaxRestarts
    BY PortfolioAssumption DEF Restart, PortfolioInv, PortfolioTypes
  <1>3. PortfolioTypes'
    BY <1>1, <1>2 DEF PortfolioInv, PortfolioTypes
  <1>4. PortfolioFits'
    <2>1. Known' = {}
      BY <1>1 DEF Known
    <2>2. Cardinality({}) = 0 /\ MaximumSources \in Nat
      BY FS_EmptySet, PortfolioAssumption
    <2>3. Cardinality({}) <= MaximumSources
      BY <2>2
    <2> QED BY <2>1, <2>3 DEF PortfolioFits
  <1>5. ASSUME NEW s \in Sources PROVE SourceIsSound(s)'
    <2>1. status'[s] = "absent" /\ ~(realized'[s] > 0) /\ s \notin replaced'
      BY <1>1
    <2> QED BY <2>1 DEF SourceIsSound
  <1>6. ReadersAreHonest' /\ LessonsAreHonest'
    BY <1>1, IdleReader DEF ReadersAreHonest, LessonsAreHonest
  <1>7. ContextsAreHonest'
    <2>1. \A x : Honest(x) => Honest(x)'
      BY <1>1, HonestStays DEF HistoryGrows
    <2> QED BY <1>1, <2>1 DEF PortfolioInv, ContextsAreHonest
  <1> QED BY <1>3, <1>4, <1>5, <1>6, <1>7 DEF PortfolioInv

\* Every step keeps the invariant of the portfolio.
LEMMA PortfolioStep ==
  ASSUME PortfolioInv, [PortfolioNext]_(portfolioVars)
  PROVE  PortfolioInv'
  <1>1. CASE UNCHANGED portfolioVars
    <2>1. UNCHANGED <<status, realized, approved, reader, knowledge, published, context,
                      inputs, restarts, everApproved, broughtActive, recorded, replaced>>
      BY <1>1 DEF portfolioVars, portfolio, taught, history
    <2>2. PortfolioTypes' /\ \A s \in Sources : SourceIsSound(s)'
      BY <2>1 DEF PortfolioInv, PortfolioTypes, SourceIsSound
    <2>3. PortfolioFits'
      BY <2>1, SameKnownFits DEF PortfolioInv, Known
    <2>4. HistoryGrows
      BY <2>1 DEF HistoryGrows
    <2> QED BY <2>1, <2>2, <2>3, <2>4, SignalsStay DEF PortfolioInv
  <1>2. CASE PortfolioNext
    <2>1. ASSUME NEW s \in Sources,
                 \/ \E made \in Brought \union {Discovered} : Add(s, made)
                 \/ ApproveSource(s) \/ Activate(s)
                 \/ \E amount \in Amounts : RecordRealized(s, amount)
                 \/ \E candidate \in Sources : Replace(s, candidate)
          PROVE  PortfolioInv'
      BY <2>1, AddKeeps, ApproveKeeps, ActivateKeeps, RecordKeeps, ReplaceKeeps
    <2>2. ASSUME NEW r \in Readers,
                 \/ Snapshot(r) \/ ReadIncome(r) \/ ReadStatus(r)
                 \/ CheckPublished(r) \/ CreateKnowledge(r) \/ MarkPublished(r)
                 \/ ProposeNothing(r)
                 \/ \E e \in Experiments : Propose(r, e)
          PROVE  PortfolioInv'
      BY <2>2, SnapshotKeeps, ReadIncomeKeeps, ReadStatusKeeps, CheckPublishedKeeps,
         CreateKnowledgeKeeps, MarkPublishedKeeps, ProposeNothingKeeps, ProposeKeeps
    <2> QED BY <1>2, <2>1, <2>2, ContinueKeeps, RestartKeeps DEF PortfolioNext
  <1> QED BY <1>1, <1>2

\* The portfolio, its signals and what is kept of them are well typed, and the
\* portfolio never exceeds its maximum size.
THEOREM PortfolioTypeCorrect == PortfolioSpec => []PortfolioTypeOK
  <1>1. PortfolioInv => PortfolioTypeOK
    <2> SUFFICES ASSUME PortfolioInv PROVE PortfolioTypeOK
      OBVIOUS
    <2>1. ASSUME NEW r \in Readers
          PROVE  /\ reader[r].at \in {"idle", "reading", "create", "mark"}
                 /\ reader[r].todo \subseteq Sources
                 /\ reader[r].source \in Sources \union {None}
                 /\ reader[r].observed \in Amounts \union {0}
                 /\ reader[r].signals \subseteq SourceSignals
      BY DEF PortfolioInv, ReadersAreHonest, Reader
    <2>2. ASSUME NEW e \in Experiments
          PROVE  /\ context[e].at \in {"none", "open", "candidate", "validated", "rejected"}
                 /\ context[e].signals \subseteq SourceSignals
                 /\ context[e].credit \in {"none", "raised", "kept", "lowered"}
      BY DEF PortfolioInv, ContextsAreHonest, Context
    <2>3. published \subseteq SUBSET SourceSignals
      BY DEF PortfolioInv, LessonsAreHonest
    <2>4. ASSUME NEW i \in DOMAIN knowledge PROVE knowledge[i] \subseteq SourceSignals
      BY DEF PortfolioInv, LessonsAreHonest
    <2> QED BY <2>1, <2>2, <2>3, <2>4
            DEF PortfolioInv, PortfolioTypes, PortfolioFits, PortfolioTypeOK
  <1> QED BY <1>1, PortfolioStarts, PortfolioStep, PTL DEF PortfolioSpec

\* Whatever was told is honest.
LEMMA ToldIsHonest ==
  ASSUME PortfolioInv, NEW x \in Told
  PROVE  Honest(x)
  <1>1. \/ \E r \in Readers : x \in reader[r].signals
        \/ \E i \in DOMAIN knowledge : x \in knowledge[i]
        \/ \E e \in Experiments : x \in context[e].signals
    BY DEF Told
  <1> QED BY <1>1 DEF PortfolioInv, ReadersAreHonest, LessonsAreHonest, ContextsAreHonest

\* No feedback, lesson or credit rests on a source that became active in the
\* portfolio without the approval it needs.
THEOREM ProductiveSourcesAreAuthorized == PortfolioSpec => []ProductiveIsAuthorized
  <1>1. PortfolioInv => ProductiveIsAuthorized
    <2> SUFFICES ASSUME PortfolioInv PROVE ProductiveIsAuthorized
      OBVIOUS
    <2>1. ASSUME NEW x \in Told, x.productive
          PROVE  x.source \in MayProduce
      BY <2>1, ToldIsHonest DEF Honest
    <2>2. ASSUME NEW e \in Experiments, context[e].credit # "none"
          PROVE  \E s \in Productive(context[e].signals) : s \in MayProduce
      <3>1. Productive(context[e].signals) # {} /\ context[e] \in Context
        BY <2>2 DEF PortfolioInv, ContextsAreHonest
      <3>2. PICK x \in context[e].signals : x.productive
        BY <3>1 DEF Productive
      <3>3. x.source \in MayProduce
        BY <3>2 DEF PortfolioInv, ContextsAreHonest, Honest
      <3>4. x.source \in Productive(context[e].signals)
        BY <3>2 DEF Productive
      <3> QED BY <3>3, <3>4
    <2> QED BY <2>1, <2>2 DEF ProductiveIsAuthorized
  <1> QED BY <1>1, PortfolioStarts, PortfolioStep, PTL DEF PortfolioSpec

\* EconomicFeedback never tells of income that was not recorded for that source,
\* nor brought with it.
THEOREM ToldIncomeIsRecorded == PortfolioSpec => []IncomeIsRecorded
  <1>1. PortfolioInv => IncomeIsRecorded
    BY ToldIsHonest DEF Honest, IncomeIsRecorded
  <1> QED BY <1>1, PortfolioStarts, PortfolioStep, PTL DEF PortfolioSpec

\* A replaced source rests until an owner uses it again.
THEOREM ReplacedSourcesRest == PortfolioSpec => []ReplacedIsRetired
  <1>1. PortfolioInv => ReplacedIsRetired
    BY DEF PortfolioInv, PortfolioTypes, SourceIsSound, ReplacedIsRetired
  <1> QED BY <1>1, PortfolioStarts, PortfolioStep, PTL DEF PortfolioSpec

-----------------------------------------------------------------------------
(* SelfImprovement: what holds of a call *)

ImprovementTypes ==
  /\ ImprovementTypeOK
  /\ factory \in Composition
  /\ commits \in [Executions -> SUBSET Nat]

Verification == {"diagnose", "revalidate", "decide", "learn"}

\* The changes of a call that have been committed are the first ones of its set,
\* all of them once it is audited, and only a call that had the owner's approval
\* comes that far.
AppliesInOrder(e) ==
  /\ call[e].at \in {"none", "validate", "execute"} => call[e].next = 1 /\ commits[e] = {}
  /\ call[e].at = "apply" =>
       /\ call[e].granted
       /\ Len(call[e].set) \in 1..MaxFiles
       /\ call[e].next \in 1..(Len(call[e].set) + 1)
       /\ commits[e] = 1..(call[e].next - 1)
  /\ call[e].at \in Verification => e \in executed
  /\ e \in executed =>
       /\ call[e].granted
       /\ Len(call[e].set) \in 1..MaxFiles
       /\ commits[e] = 1..Len(call[e].set)
       /\ call[e].at \in Verification \union {"returned", "raised"}
  /\ lesson[e] = "verified" => e \in executed

\* What the two suites of checks have told of the factory's composition.
ChecksTell(e) ==
  /\ call[e].at \in {"revalidate", "decide", "learn"} /\ call[e].after = 0 =>
       factory.executor /\ factory.research
  /\ call[e].at \in {"decide", "learn"} /\ call[e].validated = "ok" => factory.autonomy
  /\ call[e].at = "learn" =>
       \/ call[e].status = "regression_detected"
       \/ call[e].status = "verified" /\ factory.executor /\ factory.autonomy /\ factory.research
  /\ lesson[e] = "verified" => factory.executor /\ factory.autonomy /\ factory.research

ImprovementInv ==
  /\ ImprovementTypes
  /\ \A e \in Executions : AppliesInOrder(e) /\ ChecksTell(e)

-----------------------------------------------------------------------------
(* The suites of checks *)

\* What Count counts, of a report with finitely many checks.
LEMMA CountIsNat ==
  ASSUME NEW report, IsFiniteSet(DOMAIN report), NEW answer
  PROVE  /\ Count(report, answer) \in Nat
         /\ Count(report, answer) = 0 => \A c \in DOMAIN report : report[c] # answer
  <1> DEFINE S == {c \in DOMAIN report : report[c] = answer}
  <1>1. IsFiniteSet(S)
    BY FS_Subset
  <1>2. Cardinality(S) \in Nat /\ (Cardinality(S) = 0 <=> S = {})
    BY <1>1, FS_CardinalityType, FS_EmptySet
  <1>3. Count(report, answer) = Cardinality(S)
    BY DEF Count
  <1>4. S = {} => \A c \in DOMAIN report : report[c] # answer
    OBVIOUS
  <1> QED BY <1>2, <1>3, <1>4

\* The reports of a factory have finitely many checks.
LEMMA ReportsAreFinite ==
  IsFiniteSet(DOMAIN Diagnosis) /\ IsFiniteSet(DOMAIN Validation)
  <1> DEFINE names == {"runtime", "canonical_composition", "experiment_execution",
                       "live_opportunity_readiness", "model_provider", "research_provider",
                       "knowledge_store", "health_registry"}
  <1>1. IsFiniteSet(names)
    <2>1. ASSUME NEW S, NEW x, IsFiniteSet(S) PROVE IsFiniteSet(S \union {x})
      BY <2>1, FS_AddElement
    <2> DEFINE f == {"runtime", "canonical_composition"}
               g == f \union {"experiment_execution"} \union {"live_opportunity_readiness"}
               h == g \union {"model_provider"} \union {"research_provider"}
    <2>2. IsFiniteSet({} \union {"runtime"} \union {"canonical_composition"})
      BY <2>1, FS_EmptySet
    <2>3. IsFiniteSet(f)
      BY <2>2
    <2>4. IsFiniteSet(g)
      BY <2>1, <2>3
    <2>5. IsFiniteSet(h)
      BY <2>1, <2>4
    <2>6. IsFiniteSet(h \union {"knowledge_store"} \union {"health_registry"})
      BY <2>1, <2>5
    <2>7. names = h \union {"knowledge_store"} \union {"health_registry"}
      OBVIOUS
    <2> QED BY <2>6, <2>7
  <1>2. DOMAIN Diagnosis \subseteq names /\ DOMAIN Validation \subseteq names
    BY DEF Diagnosis, Validation
  <1> QED BY <1>1, <1>2, FS_Subset

\* A diagnosis without a failure is one of a factory that has an executor and
\* researches; a validation without a degraded check, of one that is canonical.
LEMMA GoodReports ==
  ASSUME factory \in Composition, factory \in Compositions
  PROVE  /\ Count(Diagnosis, "failed") \in Nat
         /\ Count(Diagnosis, "failed") = 0 => factory.executor /\ factory.research
         /\ Overall(Validation) \in {"failed", "degraded", "ok"}
         /\ Overall(Validation) = "ok" => factory.autonomy
  <1>1. /\ Count(Diagnosis, "failed") \in Nat
        /\ Count(Diagnosis, "failed") = 0 =>
             \A c \in DOMAIN Diagnosis : Diagnosis[c] # "failed"
        /\ Count(Validation, "degraded") \in Nat
        /\ Count(Validation, "degraded") = 0 =>
             \A c \in DOMAIN Validation : Validation[c] # "degraded"
    BY ReportsAreFinite, CountIsNat
  <1>2. factory.development => factory.research
    BY ImprovementAssumption
  <1>3. Count(Diagnosis, "failed") = 0 => factory.executor /\ factory.research
    <2> SUFFICES ASSUME Count(Diagnosis, "failed") = 0
                 PROVE  factory.executor /\ factory.research
      OBVIOUS
    <2>1. /\ Diagnosis.experiment_execution # "failed"
          /\ Diagnosis.live_opportunity_readiness # "failed"
      BY <1>1 DEF Diagnosis
    <2> QED BY <1>2, <2>1 DEF Diagnosis, Readiness
  <1>4. Overall(Validation) = "ok" => factory.autonomy
    <2> SUFFICES ASSUME Overall(Validation) = "ok" PROVE factory.autonomy
      OBVIOUS
    <2>1. Count(Validation, "degraded") = 0
      BY <1>1 DEF Overall
    <2>2. Validation.canonical_composition # "degraded"
      BY <1>1, <2>1 DEF Validation
    <2> QED BY <2>2 DEF Validation, Provider
  <1>5. Overall(Validation) \in {"failed", "degraded", "ok"}
    BY DEF Overall
  <1> QED BY <1>1, <1>3, <1>4, <1>5

-----------------------------------------------------------------------------
(* The steps *)

\* A step of one call that leaves its row well typed keeps every type.
LEMMA CallTypes ==
  ASSUME ImprovementTypes, NEW e \in Executions, NEW row \in Call,
         row.set = call[e].set, call' = [call EXCEPT ![e] = row],
         UNCHANGED <<factory, down, plan, commits, executed, lesson, changes>>
  PROVE  ImprovementTypes'
  <1>1. /\ call' \in [Executions -> Call]
        /\ \A u \in Executions : call'[u].set = call[u].set
    BY DEF ImprovementTypes, ImprovementTypeOK
  <1>2. \A u \in Executions : commits'[u] \subseteq DOMAIN call'[u].set
    BY <1>1 DEF ImprovementTypes, ImprovementTypeOK
  <1> QED BY <1>1, <1>2 DEF ImprovementTypes, ImprovementTypeOK

\* A call that does not move keeps its part of the invariant.
LEMMA OtherCalls ==
  ASSUME NEW e, AppliesInOrder(e), ChecksTell(e), call'[e] = call[e], commits'[e] = commits[e],
         e \in executed' <=> e \in executed, lesson'[e] = lesson[e], factory' = factory
  PROVE  AppliesInOrder(e)' /\ ChecksTell(e)'
  BY DEF AppliesInOrder, ChecksTell

\* A call that only goes on, outside of its changes, keeps the invariant when the
\* place it reaches is right for what it has seen.
LEMMA CallGoesOn ==
  ASSUME ImprovementInv, NEW e \in Executions, NEW row \in Call,
         call' = [call EXCEPT ![e] = row],
         row.set = call[e].set, row.granted = call[e].granted, row.next = call[e].next,
         UNCHANGED <<factory, down, plan, commits, executed, lesson, changes>>,
         \/ row.at = "execute" /\ call[e].at = "validate"
         \/ row.at \in {"returned", "raised"}
         \/ row.at = "apply" /\ call[e].at = "execute" /\ call[e].granted
              /\ Len(call[e].set) \in 1..MaxFiles
         \/ row.at \in Verification /\ call[e].at \in Verification,
         ChecksTell(e)'
  PROVE  ImprovementInv'
  <1>1. ImprovementTypes'
    BY CallTypes DEF ImprovementInv
  <1>2. call'[e] = row /\ \A u \in Executions : u # e => call'[u] = call[u]
    BY DEF ImprovementInv, ImprovementTypes, ImprovementTypeOK
  <1>3. /\ call'[e].at = row.at /\ call'[e].set = call[e].set
        /\ call'[e].granted = call[e].granted /\ call'[e].next = call[e].next
        /\ commits'[e] = commits[e] /\ lesson'[e] = lesson[e]
        /\ e \in executed' <=> e \in executed
    BY <1>2
  <1>4. AppliesInOrder(e)'
    <2>1. CASE row.at = "apply"
      <3>1. call[e].next = 1 /\ commits[e] = {} /\ e \notin executed
        BY <2>1 DEF ImprovementInv, AppliesInOrder, Verification
      <3>2. 1..(1 - 1) = {} /\ 1 \in 1..(Len(call[e].set) + 1)
        BY <2>1 DEF Verification
      <3> QED BY <1>3, <2>1, <3>1, <3>2 DEF ImprovementInv, AppliesInOrder, Verification
    <2>2. CASE row.at # "apply"
      BY <1>3, <2>2 DEF ImprovementInv, AppliesInOrder, Verification
    <2> QED BY <2>1, <2>2
  <1>5. \A u \in Executions : u # e => AppliesInOrder(u)' /\ ChecksTell(u)'
    BY <1>2, OtherCalls DEF ImprovementInv
  <1> QED BY <1>1, <1>4, <1>5 DEF ImprovementInv

\* A call that leaves has learnt nothing more.
LEMMA GoneCalls ==
  ASSUME ImprovementInv, NEW e \in Executions, NEW row \in Call,
         call' = [call EXCEPT ![e] = row], row.at \in {"returned", "raised", "execute", "apply"},
         row.set = call[e].set, row.granted = call[e].granted, row.next = call[e].next,
         UNCHANGED <<factory, down, plan, commits, executed, lesson, changes>>
  PROVE  ChecksTell(e)'
  <1>1. call'[e] = row
    BY DEF ImprovementInv, ImprovementTypes, ImprovementTypeOK
  <1> QED BY <1>1 DEF ImprovementInv, ChecksTell

Places == {"none", "validate", "execute", "apply", "diagnose", "revalidate", "decide",
           "learn", "returned", "raised"}

\* What of a call's row a step leaves as it was.
SameGrant(e, row) ==
  row.set = call[e].set /\ row.granted = call[e].granted /\ row.next = call[e].next
SameFindings(e, row) ==
  row.after = call[e].after /\ row.validated = call[e].validated /\ row.status = call[e].status

\* A call that steps on has a new place.
LEMMA StepRow ==
  ASSUME ImprovementTypes, NEW e \in Executions, NEW where \in Places, Step(e, where)
  PROVE  \E row \in Call :
           /\ call' = [call EXCEPT ![e] = row]
           /\ row.at = where /\ SameGrant(e, row) /\ SameFindings(e, row)
  <1> DEFINE row == [call[e] EXCEPT !.at = where]
  <1>1. call[e] \in Call
    BY DEF ImprovementTypes, ImprovementTypeOK
  <1>2. row \in Call /\ row.at = where /\ SameGrant(e, row) /\ SameFindings(e, row)
    BY <1>1 DEF Call, Places, SameGrant, SameFindings
  <1>3. call' = [call EXCEPT ![e] = row]
    BY DEF Step
  <1> QED BY <1>2, <1>3

\* A call that returns has its answer.
LEMMA ReturnRow ==
  ASSUME ImprovementTypes, NEW e \in Executions, NEW answer \in Answers,
         Return(e, answer)
  PROVE  \E row \in Call :
           call' = [call EXCEPT ![e] = row] /\ row.at = "returned" /\ SameGrant(e, row)
  <1> DEFINE row == [call[e] EXCEPT !.at = "returned", !.status = answer]
  <1>1. call[e] \in Call
    BY DEF ImprovementTypes, ImprovementTypeOK
  <1>2. row \in Call /\ row.at = "returned" /\ SameGrant(e, row)
    BY <1>1 DEF Call, SameGrant
  <1>3. call' = [call EXCEPT ![e] = row]
    BY DEF Return
  <1> QED BY <1>2, <1>3

\* An execution that is not applied leaves nothing behind but its commits.
LEMMA NotAppliedLeaves ==
  ASSUME ImprovementInv, NEW e \in Executions, NEW answer \in Answers,
         NotApplied(e, answer),
         UNCHANGED <<factory, down, plan, commits, executed, lesson, changes>>
  PROVE  ImprovementInv'
  <1>1. PICK row \in Call :
          call' = [call EXCEPT ![e] = row] /\ row.at \in {"returned", "raised"}
          /\ SameGrant(e, row)
    BY StepRow, ReturnRow DEF NotApplied, ImprovementInv, Places
  <1> QED BY <1>1, GoneCalls, CallGoesOn DEF SameGrant

LEMMA StepGoesOn ==
  ASSUME ImprovementInv, NEW e \in Executions, NEW where \in Places, Step(e, where),
         UNCHANGED <<factory, down, plan, commits, executed, lesson, changes>>,
         \/ where = "execute" /\ call[e].at = "validate"
         \/ where = "raised"
         \/ where = "apply" /\ call[e].at = "execute" /\ call[e].granted
              /\ Len(call[e].set) \in 1..MaxFiles
  PROVE  ImprovementInv'
  <1>1. PICK row \in Call :
          call' = [call EXCEPT ![e] = row] /\ row.at = where /\ SameGrant(e, row)
    BY StepRow DEF ImprovementInv
  <1> QED BY <1>1, GoneCalls, CallGoesOn DEF SameGrant

LEMMA BeginKeeps ==
  ASSUME ImprovementInv, NEW e \in Executions, Begin(e)
  PROVE  ImprovementInv'
  <1>1. PICK whole \in BOOLEAN, consent \in BOOLEAN, set \in ChangeSets :
          call' = [call EXCEPT ![e] =
            [NoCall EXCEPT !.at = IF whole THEN "validate" ELSE "execute",
                              !.whole = whole, !.set = set,
                              !.granted = consent /\ plan = "approved",
                              !.before = IF whole THEN Count(Diagnosis, "failed") ELSE 0]]
    BY DEF Begin
  <1> DEFINE before == IF whole THEN Count(Diagnosis, "failed") ELSE 0
             granted == consent /\ plan = "approved"
             row == [NoCall EXCEPT !.at = IF whole THEN "validate" ELSE "execute",
                                      !.whole = whole, !.set = set, !.granted = granted,
                                      !.before = before]
  <1>2. call[e].at = "none" /\ UNCHANGED <<factory, down, plan, commits, executed, lesson, changes>>
    BY DEF Begin, At
  <1>3. before \in Nat
    BY GoodReports DEF ImprovementInv, ImprovementTypes, ImprovementTypeOK
  <1>4. granted \in BOOLEAN
    OBVIOUS
  <1> HIDE DEF before, granted
  <1>5. /\ row \in Call /\ row.at \in {"validate", "execute"} /\ row.next = 1
    BY <1>3, <1>4 DEF NoCall, Call, Answers
  <1>6. call' = [call EXCEPT ![e] = row]
    BY <1>1 DEF before, granted
  <1> HIDE DEF row
  <1>7. /\ call' \in [Executions -> Call] /\ call'[e] = row
        /\ \A u \in Executions : u # e => call'[u] = call[u]
    BY <1>5, <1>6 DEF ImprovementInv, ImprovementTypes, ImprovementTypeOK
  <1>8. commits[e] = {} /\ e \notin executed /\ lesson[e] # "verified"
    BY <1>2 DEF ImprovementInv, AppliesInOrder, Verification
  <1>9. ImprovementTypes'
    <2>1. \A u \in Executions : commits'[u] \subseteq DOMAIN call'[u].set
      BY <1>2, <1>7, <1>8 DEF ImprovementInv, ImprovementTypes, ImprovementTypeOK
    <2> QED BY <1>2, <1>7, <2>1 DEF ImprovementInv, ImprovementTypes, ImprovementTypeOK
  <1>10. AppliesInOrder(e)' /\ ChecksTell(e)'
    BY <1>2, <1>5, <1>7, <1>8 DEF AppliesInOrder, ChecksTell, Verification
  <1>11. \A u \in Executions : u # e => AppliesInOrder(u)' /\ ChecksTell(u)'
    BY <1>2, <1>7, OtherCalls DEF ImprovementInv
  <1> QED BY <1>9, <1>10, <1>11 DEF ImprovementInv

\* The owner's decisions and the dependencies touch no call.
LEMMA OwnerKeeps ==
  ASSUME ImprovementInv,
         Prepare \/ Approve \/ DependencyChanges
  PROVE  ImprovementInv'
  <1>1. UNCHANGED <<factory, call, commits, executed, lesson>>
    BY DEF Prepare, Approve, DependencyChanges
  <1>2. plan' \in {"none", "awaiting_approval", "approved", "rejected"}
    BY DEF Prepare, Approve, DependencyChanges, ImprovementInv, ImprovementTypes,
           ImprovementTypeOK
  <1>3. changes' \in 0..MaxChanges
    BY ImprovementAssumption DEF Prepare, Approve, DependencyChanges, ImprovementInv, ImprovementTypes,
           ImprovementTypeOK
  <1>4. down' \subseteq {"store", "model"}
    <2>1. down \subseteq {"store", "model"}
      BY DEF ImprovementInv, ImprovementTypes, ImprovementTypeOK
    <2>2. CASE DependencyChanges
      <3>1. PICK d \in {"store", "model"} :
              down' = IF d \in down THEN down \ {d} ELSE down \union {d}
        BY <2>2, Zenon DEF DependencyChanges
      <3> QED BY <2>1, <3>1
    <2> QED BY <2>1, <2>2 DEF Prepare, Approve
  <1>5. ImprovementTypes'
    BY <1>1, <1>2, <1>3, <1>4 DEF ImprovementInv, ImprovementTypes, ImprovementTypeOK
  <1>6. \A u \in Executions : AppliesInOrder(u)' /\ ChecksTell(u)'
    BY <1>1, OtherCalls DEF ImprovementInv
  <1> QED BY <1>5, <1>6 DEF ImprovementInv

LEMMA ValidateKeeps ==
  ASSUME ImprovementInv, NEW e \in Executions, Validate(e)
  PROVE  ImprovementInv'
  <1>1. PICK where \in {"execute", "raised"} : Step(e, where)
    BY DEF Validate
  <1>2. /\ call[e].at = "validate"
        /\ UNCHANGED <<factory, down, plan, commits, executed, lesson, changes>>
    BY DEF Validate, At
  <1> QED BY <1>1, <1>2, StepGoesOn DEF Places

LEMMA ExecuteKeeps ==
  ASSUME ImprovementInv, NEW e \in Executions, Execute(e)
  PROVE  ImprovementInv'
  <1>1. /\ call[e].at = "execute"
        /\ UNCHANGED <<factory, down, plan, commits, executed, lesson, changes>>
    BY DEF Execute, At
  <1>2. \/ \E answer \in Answers : NotApplied(e, answer)
        \/ call[e].granted /\ Len(call[e].set) \in 1..MaxFiles /\ Step(e, "apply")
    BY DEF Execute, Answers
  <1> QED BY <1>1, <1>2, NotAppliedLeaves, StepGoesOn DEF Places

\* The next change of the set is committed.
LEMMA ApplyChangeKeeps ==
  ASSUME ImprovementInv, NEW e \in Executions, ApplyChange(e)
  PROVE  ImprovementInv'
  <1> DEFINE next == call[e].next
             row == [call[e] EXCEPT !.next = next + 1]
  <1>1. /\ call[e].at = "apply" /\ next <= Len(call[e].set)
        /\ commits' = [commits EXCEPT ![e] = @ \union {next}]
        /\ call' = [call EXCEPT ![e] = row]
        /\ UNCHANGED <<factory, down, plan, executed, lesson, changes>>
    BY DEF ApplyChange, At
  <1>2. /\ call[e] \in Call /\ commits[e] \subseteq Nat
        /\ call[e].set \in Seq(Changes) /\ next \in Nat
    <2>1. call[e] \in Call /\ commits[e] \subseteq Nat
      BY DEF ImprovementInv, ImprovementTypes, ImprovementTypeOK
    <2>2. call[e].set \in ChangeSets \union {<<>>} /\ next \in Nat
      BY <2>1 DEF Call
    <2>3. <<>> \in Seq(Changes) /\ ChangeSets \subseteq Seq(Changes)
      BY ImprovementAssumption
    <2> QED BY <2>1, <2>2, <2>3
  <1>3. /\ row \in Call /\ row.next = next + 1 /\ row.at = call[e].at
        /\ row.set = call[e].set /\ row.granted = call[e].granted
    BY <1>2 DEF Call
  <1> HIDE DEF row
  <1>4. /\ call' \in [Executions -> Call] /\ call'[e] = row
        /\ \A u \in Executions : u # e => call'[u] = call[u] /\ commits'[u] = commits[u]
        /\ commits'[e] = commits[e] \union {next}
        /\ commits' \in [Executions -> SUBSET Nat]
    BY <1>1, <1>2, <1>3 DEF ImprovementInv, ImprovementTypes, ImprovementTypeOK
  <1>5. /\ call[e].granted
        /\ Len(call[e].set) \in 1..MaxFiles
        /\ next \in 1..Len(call[e].set)
        /\ commits[e] = 1..(next - 1)
        /\ e \notin executed /\ lesson[e] # "verified"
    <2>1. /\ call[e].granted /\ Len(call[e].set) \in 1..MaxFiles
          /\ next \in 1..(Len(call[e].set) + 1) /\ commits[e] = 1..(next - 1)
          /\ e \notin executed /\ lesson[e] # "verified"
      BY <1>1 DEF ImprovementInv, AppliesInOrder, Verification
    <2>2. Len(call[e].set) \in Nat
      BY <1>2
    <2> QED BY <1>1, <2>1, <2>2
  <1>6. commits'[e] = 1..next
    BY <1>2, <1>4, <1>5
  <1>7. ImprovementTypes'
    <2>1. commits'[e] \subseteq DOMAIN call'[e].set
      <3>1. DOMAIN call[e].set = 1..Len(call[e].set) /\ Len(call[e].set) \in Nat
        BY <1>2
      <3> QED BY <1>3, <1>4, <1>5, <1>6, <3>1
    <2>2. \A u \in Executions : commits'[u] \subseteq DOMAIN call'[u].set
      BY <1>4, <2>1 DEF ImprovementInv, ImprovementTypes, ImprovementTypeOK
    <2> QED BY <1>1, <1>4, <2>2 DEF ImprovementInv, ImprovementTypes, ImprovementTypeOK
  <1>8. AppliesInOrder(e)'
    <2>1. /\ call'[e].at = "apply" /\ call'[e].granted /\ call'[e].set = call[e].set
          /\ call'[e].next = next + 1
          /\ commits'[e] = 1..(call'[e].next - 1)
          /\ e \notin executed' /\ lesson'[e] # "verified"
      <3>1. call'[e].next - 1 = next
        BY <1>2, <1>3, <1>4
      <3> QED BY <1>1, <1>3, <1>4, <1>5, <1>6, <3>1
    <2>2. call'[e].next \in 1..(Len(call'[e].set) + 1) /\ Len(call'[e].set) \in 1..MaxFiles
      BY <1>2, <1>5, <2>1
    <2> QED BY <2>1, <2>2 DEF AppliesInOrder, Verification
  <1>9. ChecksTell(e)'
    BY <1>1, <1>3, <1>4, <1>5 DEF ChecksTell
  <1>10. \A u \in Executions : u # e => AppliesInOrder(u)' /\ ChecksTell(u)'
    BY <1>1, <1>4, OtherCalls DEF ImprovementInv
  <1> QED BY <1>7, <1>8, <1>9, <1>10 DEF ImprovementInv

\* All the changes are committed when the execution is audited.
LEMMA AppliedKeeps ==
  ASSUME ImprovementInv, NEW e \in Executions, Applied(e)
  PROVE  ImprovementInv'
  <1>1. /\ call[e].at = "apply" /\ call[e].next > Len(call[e].set)
        /\ UNCHANGED <<factory, down, plan, commits, lesson, changes>>
    BY DEF Applied, At
  <1>2. CASE Step(e, "raised") /\ UNCHANGED executed
    BY <1>1, <1>2, StepGoesOn DEF Places
  <1>3. CASE /\ executed' = executed \union {e}
             /\ IF call[e].whole THEN Step(e, "diagnose") ELSE Return(e, "applied")
    <2>1. PICK row \in Call :
            /\ call' = [call EXCEPT ![e] = row] /\ SameGrant(e, row)
            /\ row.at \in {"diagnose", "returned"}
      <3>1. "applied" \in Answers /\ "diagnose" \in Places
        BY DEF Answers, Places
      <3> QED BY <1>3, <3>1, StepRow, ReturnRow DEF ImprovementInv
    <2>2. /\ call' \in [Executions -> Call] /\ call'[e] = row
          /\ \A u \in Executions : u # e => call'[u] = call[u]
      BY <2>1 DEF ImprovementInv, ImprovementTypes, ImprovementTypeOK
    <2>3. /\ call[e].granted /\ Len(call[e].set) \in 1..MaxFiles
          /\ commits[e] = 1..Len(call[e].set)
      <3>1. /\ call[e].granted /\ Len(call[e].set) \in 1..MaxFiles
            /\ call[e].next \in 1..(Len(call[e].set) + 1)
            /\ commits[e] = 1..(call[e].next - 1)
        BY <1>1 DEF ImprovementInv, AppliesInOrder
      <3>2. Len(call[e].set) \in Nat /\ call[e].next \in Nat
        BY ImprovementAssumption DEF ImprovementInv, ImprovementTypes, ImprovementTypeOK, Call
      <3>3. call[e].next - 1 = Len(call[e].set)
        BY <1>1, <3>1, <3>2
      <3> QED BY <3>1, <3>3
    <2>4. ImprovementTypes'
      <3>1. \A u \in Executions : commits'[u] \subseteq DOMAIN call'[u].set
        BY <1>1, <2>1, <2>2 DEF ImprovementInv, ImprovementTypes, ImprovementTypeOK, SameGrant
      <3> QED BY <1>1, <1>3, <2>2, <3>1 DEF ImprovementInv, ImprovementTypes, ImprovementTypeOK
    <2>5. AppliesInOrder(e)'
      BY <1>1, <1>3, <2>1, <2>2, <2>3 DEF AppliesInOrder, Verification, SameGrant
    <2>6. ChecksTell(e)'
      BY <1>1, <2>1, <2>2 DEF ImprovementInv, ChecksTell
    <2>7. \A u \in Executions : u # e => AppliesInOrder(u)' /\ ChecksTell(u)'
      BY <1>1, <1>3, <2>2, OtherCalls DEF ImprovementInv
    <2> QED BY <2>4, <2>5, <2>6, <2>7 DEF ImprovementInv
  <1> QED BY <1>2, <1>3 DEF Applied

LEMMA ChangeFailsKeeps ==
  ASSUME ImprovementInv, NEW e \in Executions, ChangeFails(e)
  PROVE  ImprovementInv'
  <1>1. "failed" \in Answers
    BY DEF Answers
  <1> QED BY <1>1, NotAppliedLeaves DEF ChangeFails, Halt

\* The second diagnosis tells of an executor and of research.
LEMMA DiagnoseKeeps ==
  ASSUME ImprovementInv, NEW e \in Executions, Diagnose(e)
  PROVE  ImprovementInv'
  <1> DEFINE failed == Count(Diagnosis, "failed")
             row == [call[e] EXCEPT !.at = "revalidate", !.after = failed]
  <1>1. /\ call[e].at = "diagnose"
        /\ UNCHANGED <<factory, down, plan, commits, executed, lesson, changes>>
        /\ call' = [call EXCEPT ![e] = row]
    BY DEF Diagnose, At
  <1>2. failed \in Nat /\ (failed = 0 => factory.executor /\ factory.research)
    BY GoodReports DEF ImprovementInv, ImprovementTypes, ImprovementTypeOK
  <1> HIDE DEF failed
  <1>3. row \in Call /\ row.at = "revalidate" /\ row.after = failed /\ SameGrant(e, row)
    <2>1. call[e] \in Call
      BY DEF ImprovementInv, ImprovementTypes, ImprovementTypeOK
    <2> QED BY <1>2, <2>1 DEF Call, SameGrant
  <1> HIDE DEF row
  <1>4. call'[e] = row
    BY <1>1 DEF ImprovementInv, ImprovementTypes, ImprovementTypeOK
  <1>5. ChecksTell(e)'
    BY <1>1, <1>2, <1>3, <1>4 DEF ImprovementInv, ChecksTell
  <1> QED BY <1>1, <1>3, <1>5, CallGoesOn DEF SameGrant, Verification

\* The second validation tells of the composition.
LEMMA RevalidateKeeps ==
  ASSUME ImprovementInv, NEW e \in Executions, Revalidate(e)
  PROVE  ImprovementInv'
  <1> DEFINE overall == Overall(Validation)
             where == IF Audits THEN "decide" ELSE "raised"
             row == [call[e] EXCEPT !.at = where, !.validated = overall]
  <1>1. /\ call[e].at = "revalidate"
        /\ UNCHANGED <<factory, down, plan, commits, executed, lesson, changes>>
        /\ call' = [call EXCEPT ![e] = row]
    BY DEF Revalidate, At
  <1>2. overall \in {"failed", "degraded", "ok"} /\ (overall = "ok" => factory.autonomy)
    BY GoodReports DEF ImprovementInv, ImprovementTypes, ImprovementTypeOK
  <1>3. where \in {"decide", "raised"}
    OBVIOUS
  <1> HIDE DEF overall, where
  <1>4. /\ row \in Call /\ row.at = where /\ row.validated = overall
        /\ row.after = call[e].after /\ SameGrant(e, row)
    <2>1. call[e] \in Call
      BY DEF ImprovementInv, ImprovementTypes, ImprovementTypeOK
    <2> QED BY <1>2, <1>3, <2>1 DEF Call, SameGrant
  <1> HIDE DEF row
  <1>5. call'[e] = row
    BY <1>1 DEF ImprovementInv, ImprovementTypes, ImprovementTypeOK
  <1>6. ChecksTell(e)'
    BY <1>1, <1>2, <1>3, <1>4, <1>5 DEF ImprovementInv, ChecksTell
  <1> QED BY <1>1, <1>3, <1>4, <1>6, CallGoesOn DEF SameGrant, Verification

\* A cycle that is reported as verified has passed both.
LEMMA DecideKeeps ==
  ASSUME ImprovementInv, NEW e \in Executions, Decide(e)
  PROVE  ImprovementInv'
  <1> DEFINE passed == ~Regression(e) /\ call[e].validated = "ok"
             where == IF Audits THEN "learn" ELSE "raised"
             answer == IF passed THEN "verified" ELSE "regression_detected"
             row == [call[e] EXCEPT !.at = where, !.status = answer]
  <1>1. /\ call[e].at = "decide"
        /\ UNCHANGED <<factory, down, plan, commits, executed, lesson, changes>>
        /\ call' = [call EXCEPT ![e] = row]
    BY DEF Decide, At
  <1>2. call[e].after \in Nat
    BY DEF ImprovementInv, ImprovementTypes, ImprovementTypeOK, Call
  <1>3. passed => factory.executor /\ factory.autonomy /\ factory.research
    <2>1. passed => call[e].after = 0 /\ call[e].validated = "ok"
      BY <1>2 DEF Regression
    <2> QED BY <1>1, <2>1 DEF ImprovementInv, ChecksTell
  <1>4. where \in {"learn", "raised"}
    OBVIOUS
  <1>5. \/ answer = "verified" /\ factory.executor /\ factory.autonomy /\ factory.research
        \/ answer = "regression_detected"
    BY <1>3
  <1> HIDE DEF where, answer
  <1>6. /\ row \in Call /\ row.at = where /\ row.status = answer
        /\ row.after = call[e].after /\ row.validated = call[e].validated
        /\ SameGrant(e, row)
    <2>1. answer \in Answers
      BY <1>5 DEF Answers
    <2>2. call[e] \in Call
      BY DEF ImprovementInv, ImprovementTypes, ImprovementTypeOK
    <2> QED BY <1>4, <2>1, <2>2 DEF Call, SameGrant
  <1> HIDE DEF row
  <1>7. call'[e] = row
    BY <1>1 DEF ImprovementInv, ImprovementTypes, ImprovementTypeOK
  <1>8. ChecksTell(e)'
    BY <1>1, <1>4, <1>5, <1>6, <1>7 DEF ImprovementInv, ChecksTell
  <1> QED BY <1>1, <1>4, <1>6, <1>8, CallGoesOn DEF SameGrant, Verification

\* The knowledge item says what the cycle was reported as.
LEMMA LearnKeeps ==
  ASSUME ImprovementInv, NEW e \in Executions, LearnOutcome(e)
  PROVE  ImprovementInv'
  <1>1. /\ call[e].at = "learn"
        /\ UNCHANGED <<factory, down, plan, commits, executed, changes>>
    BY DEF LearnOutcome, At
  <1>2. CASE Step(e, "raised") /\ UNCHANGED lesson
    BY <1>1, <1>2, StepGoesOn DEF Places
  <1>3. CASE Step(e, "returned") /\ lesson' = [lesson EXCEPT ![e] = call[e].status]
    <2>1. PICK row \in Call :
            call' = [call EXCEPT ![e] = row] /\ row.at = "returned" /\ SameGrant(e, row)
      BY <1>3, StepRow DEF ImprovementInv, Places
    <2>2. /\ call' \in [Executions -> Call] /\ call'[e] = row
          /\ \A u \in Executions : u # e => call'[u] = call[u]
      BY <2>1 DEF ImprovementInv, ImprovementTypes, ImprovementTypeOK
    <2>3. /\ e \in executed
          /\ \/ call[e].status = "regression_detected"
             \/ /\ call[e].status = "verified"
                /\ factory.executor /\ factory.autonomy /\ factory.research
      BY <1>1 DEF ImprovementInv, AppliesInOrder, ChecksTell, Verification
    <2>4. /\ lesson' \in [Executions -> {"none", "verified", "regression_detected"}]
          /\ lesson'[e] = call[e].status
          /\ \A u \in Executions : u # e => lesson'[u] = lesson[u]
      BY <1>3, <2>3 DEF ImprovementInv, ImprovementTypes, ImprovementTypeOK
    <2>5. ImprovementTypes'
      <3>1. \A u \in Executions : commits'[u] \subseteq DOMAIN call'[u].set
        BY <1>1, <2>1, <2>2 DEF ImprovementInv, ImprovementTypes, ImprovementTypeOK, SameGrant
      <3> QED BY <1>1, <2>2, <2>4, <3>1 DEF ImprovementInv, ImprovementTypes, ImprovementTypeOK
    <2>6. AppliesInOrder(e)'
      BY <1>1, <2>1, <2>2, <2>3, <2>4
      DEF ImprovementInv, AppliesInOrder, Verification, SameGrant
    <2>7. ChecksTell(e)'
      BY <1>1, <2>1, <2>2, <2>3, <2>4 DEF ChecksTell
    <2>8. \A u \in Executions : u # e => AppliesInOrder(u)' /\ ChecksTell(u)'
      BY <1>1, <2>2, <2>4, OtherCalls DEF ImprovementInv
    <2> QED BY <2>5, <2>6, <2>7, <2>8 DEF ImprovementInv
  <1> QED BY <1>2, <1>3 DEF LearnOutcome

\* Every step keeps the invariant of the calls.
LEMMA ImprovementStep ==
  ASSUME ImprovementInv, [ImprovementNext]_(improvementVars)
  PROVE  ImprovementInv'
  <1>1. CASE UNCHANGED improvementVars
    BY <1>1, OtherCalls DEF improvementVars, ImprovementInv, ImprovementTypes, ImprovementTypeOK
  <1>2. CASE ImprovementNext
    BY <1>2, OwnerKeeps, BeginKeeps, ValidateKeeps, ExecuteKeeps, ApplyChangeKeeps,
       ChangeFailsKeeps, AppliedKeeps, DiagnoseKeeps, RevalidateKeeps, DecideKeeps, LearnKeeps
    DEF ImprovementNext
  <1> QED BY <1>1, <1>2

LEMMA ImprovementStarts ==
  ASSUME ImprovementInit
  PROVE  ImprovementInv
  <1>1. NoCall \in Call
    BY DEF NoCall, Call, Answers
  <1>2. ImprovementTypes
    BY <1>1, ImprovementAssumption DEF ImprovementInit, ImprovementTypes, ImprovementTypeOK
  <1>3. ASSUME NEW e \in Executions PROVE AppliesInOrder(e) /\ ChecksTell(e)
    BY DEF ImprovementInit, NoCall, AppliesInOrder, ChecksTell, Verification
  <1> QED BY <1>2, <1>3 DEF ImprovementInv

\* Calls, commits and lessons keep their types: no call commits a change that is
\* not in its set.
THEOREM ImprovementTypeCorrect == ImprovementSpec => []ImprovementTypeOK
  <1>1. ImprovementInv => ImprovementTypeOK
    BY DEF ImprovementInv, ImprovementTypes
  <1> QED BY <1>1, ImprovementStarts, ImprovementStep, PTL DEF ImprovementSpec

\* What SystemDeveloper audits as executed has committed each change of its set,
\* whatever other calls do and wherever an adapter or the store fails.
THEOREM AuditedChangesAreWhole == ImprovementSpec => []AuditedIsWhole
  <1>1. ImprovementInv => AuditedIsWhole
    <2> SUFFICES ASSUME ImprovementInv, NEW e \in executed
                 PROVE  commits[e] = DOMAIN call[e].set /\ commits[e] # {}
      BY DEF AuditedIsWhole
    <2>1. e \in Executions
      BY DEF ImprovementInv, ImprovementTypes, ImprovementTypeOK
    <2>2. Len(call[e].set) \in 1..MaxFiles /\ commits[e] = 1..Len(call[e].set)
      BY <2>1 DEF ImprovementInv, AppliesInOrder
    <2>3. DOMAIN call[e].set = 1..Len(call[e].set) /\ Len(call[e].set) \in Nat
      BY <2>1, ImprovementAssumption DEF ImprovementInv, ImprovementTypes, ImprovementTypeOK, Call
    <2>4. 1 \in 1..Len(call[e].set)
      BY <2>2, <2>3, ImprovementAssumption
    <2> QED BY <2>2, <2>3, <2>4
  <1> QED BY <1>1, ImprovementStarts, ImprovementStep, PTL DEF ImprovementSpec

\* A verified lesson was approved, applied and audited as a whole in a factory
\* that both suites found able to run and to research.
THEOREM VerifiedLessonsAreEarned == ImprovementSpec => []VerifiedIsEarned
  <1>1. ImprovementInv => VerifiedIsEarned
    BY DEF ImprovementInv, AppliesInOrder, ChecksTell, VerifiedIsEarned
  <1> QED BY <1>1, ImprovementStarts, ImprovementStep, PTL DEF ImprovementSpec
=============================================================================
