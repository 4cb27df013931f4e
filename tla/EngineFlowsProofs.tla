-------------------------- MODULE EngineFlowsProofs --------------------------
(***************************************************************************)
(* What holds of the ways through the engines for any numbers of loops,    *)
(* requests and pipelines, and any crashes between their steps: what is    *)
(* durable rests on what is durable, a restart forgets nothing, and the    *)
(* lineage of what a pipeline ends with is its run.                        *)
(***************************************************************************)
EXTENDS EngineFlows, FiniteSetTheorems, TLAPS

\* What the locals of an actor hold at the places where they are used.
LocalOK(a, place, locals) ==
  /\ place \in {"stage", "row", "items", "opportunities", "keep", "engines", "register",
                "record", "collect", "query", "evaluate", "advance"} => locals.call \in Calls
  /\ a \in Loops /\ place \in {"stage", "row", "items", "opportunities"} => locals.stage \in 1..9
  /\ a \in Pipelines /\ place = "advance" => locals.stage \in 1..8

LocalsOK == \A a \in Actors : LocalOK(a, pc[a], work[a])

\* A loop is past a stage of its cycle.
Past(l, i) ==
  \/ pc[l] = "stage" /\ work[l].stage > i
  \/ pc[l] \in {"row", "items", "opportunities"} /\ work[l].stage >= i

\* What a loop's store has of its cycle, and what of it is durable.
LoopInv(l) ==
  /\ \A n \in mem[l].experiments : Lesson(n) \in mem[l].knowledge \union repository
  /\ pc[l] = "load" => mem[l].experiments = {}
  /\ pc[l] = "items" => mem[l].knowledge \subseteq repository \union work[l].todo
  /\ pc[l] = "opportunities" => mem[l].knowledge \subseteq repository
  /\ Past(l, 4) /\ Learnt(work[l].found) => Lesson(Call(l)) \in mem[l].knowledge
  /\ Past(l, 6) /\ Learnt(work[l].found) => Call(l) \in mem[l].experiments

\* What a request has made durable, or found there.
RequestInv(h) ==
  /\ pc[h] = "register" => Learnt(work[h].found)
  /\ pc[h] \in {"engines", "register"} /\ Learnt(work[h].found) => Sources(Call(h)) \subseteq repository
  /\ pc[h] \in {"record", "collect", "query", "evaluate"} => table[Call(h)] # "absent"
  /\ pc[h] = "collect" => work[h].object # "absent"

Loading == {"load", "search", "loadExperiments"}

\* The dictionaries, as long as no other loop has written them.
AloneInv(l) ==
  writers \subseteq {l} =>
    /\ disk.opportunities \subseteq disk.experiments
    /\ mem[l].opportunities \subseteq mem[l].experiments
    /\ pc[l] \notin Loading => disk.opportunities \subseteq mem[l].experiments
    /\ pc[l] \in {"opportunities", "loadOpportunities"} => disk.experiments = mem[l].experiments
    /\ pc[l] \in Loading => mem[l].opportunities = {}

\* The inductive invariant.  A loop that loads may have experiments without their
\* lessons, when another loop wrote in between; but then the lessons are durable.
IInv ==
  /\ TypeOK /\ LocalsOK
  /\ \A l \in Loops : LoopInv(l)
  /\ \A h \in Handlers : RequestInv(h)
  /\ ExperimentRestsOnKnowledge
  /\ stored \subseteq repository
  /\ \A l \in Loops : AloneInv(l)
  /\ writers = {} => disk.opportunities = {}
  /\ IsFiniteSet(writers)

-----------------------------------------------------------------------------
(* One actor's step *)

\* A step of one actor leaves the locals of the others alone.
LEMMA Locals ==
  ASSUME TypeOK, LocalsOK, NEW a \in Actors, NEW place \in Places, NEW locals \in Work,
         pc' = [pc EXCEPT ![a] = place], work' = [work EXCEPT ![a] = locals],
         LocalOK(a, place, locals)
  PROVE  /\ pc' \in [Actors -> Places] /\ work' \in [Actors -> Work] /\ LocalsOK'
         /\ pc'[a] = place /\ work'[a] = locals
         /\ \A b \in Actors \ {a} : pc'[b] = pc[b] /\ work'[b] = work[b]
  <1>1. pc \in [Actors -> Places] /\ work \in [Actors -> Work]
    BY DEF TypeOK
  <1>2. /\ pc' \in [Actors -> Places] /\ work' \in [Actors -> Work]
        /\ pc'[a] = place /\ work'[a] = locals
        /\ \A b \in Actors \ {a} : pc'[b] = pc[b] /\ work'[b] = work[b]
    BY <1>1
  <1>3. ASSUME NEW b \in Actors PROVE LocalOK(b, pc'[b], work'[b])
    <2>1. CASE b = a
      BY <1>2, <2>1
    <2>2. CASE b # a
      BY <1>2, <2>2 DEF LocalsOK
    <2> QED BY <2>1, <2>2
  <1> QED BY <1>2, <1>3 DEF LocalsOK, LocalOK

\* The others' locals, and the stores of other loops.
Beside(a) ==
  /\ \A b \in Actors \ {a} : pc'[b] = pc[b] /\ work'[b] = work[b]
  /\ \A l \in Loops \ {a} : mem'[l] = mem[l]

\* Nothing that is durable is taken back.
Grows ==
  /\ repository \subseteq repository'
  /\ \A n \in Calls : table[n] # "absent" => table'[n] # "absent"

\* What a step leaves the loops that it is no step of.
LEMMA OtherLoops ==
  ASSUME IInv, NEW a \in Actors, Beside(a), Grows, NEW l \in Loops \ {a}
  PROVE  LoopInv(l)'
  BY DEF IInv, Beside, Grows, LoopInv, Past, Actors, Call

\* ... and the requests.
LEMMA OtherRequests ==
  ASSUME IInv, NEW a \in Actors, Beside(a), Grows, NEW h \in Handlers \ {a}
  PROVE  RequestInv(h)'
  <1>1. /\ pc'[h] = pc[h] /\ work'[h] = work[h]
        /\ pc[h] \in {"record", "collect", "query", "evaluate"} => work[h].call \in Calls
    BY DEF IInv, Beside, Actors, LocalsOK, LocalOK
  <1> QED BY <1>1 DEF IInv, Grows, RequestInv, Call

\* ... and the dictionaries of a loop that alone has written them.
LEMMA OtherWriters ==
  ASSUME IInv, NEW a \in Actors, Beside(a), UNCHANGED <<disk, writers>>, NEW l \in Loops \ {a}
  PROVE  AloneInv(l)'
  BY DEF IInv, Beside, AloneInv, Actors

\* A step of a request or a pipeline: what it must show.
LEMMA RequestStep ==
  ASSUME IInv, NEW a \in Handlers \union Pipelines, Beside(a), Grows,
         UNCHANGED <<disk, mem, writers>>, TypeOK', LocalsOK',
         a \in Handlers => RequestInv(a)', stored' \subseteq repository',
         \A n \in Calls : table'[n] # "absent" => Sources(n) \subseteq repository'
  PROVE  IInv'
  <1>1. a \in Actors /\ a \notin Loops
    BY FlowsAssumption DEF Actors
  <1>2. \A l \in Loops : LoopInv(l)' /\ AloneInv(l)'
    BY <1>1, OtherLoops, OtherWriters
  <1>3. \A h \in Handlers : RequestInv(h)'
    BY <1>1, OtherRequests
  <1>4. ExperimentRestsOnKnowledge'
    BY DEF IInv, ExperimentRestsOnKnowledge, Grows
  <1> QED BY <1>2, <1>3, <1>4 DEF IInv

\* A step of a loop: what it must show.
LEMMA LoopStep ==
  ASSUME IInv, NEW l \in Loops, Beside(l), repository \subseteq repository', table' = table,
         TypeOK', LocalsOK', LoopInv(l)', AloneInv(l)',
         \/ UNCHANGED <<disk, writers>>
         \/ writers' = writers \union {l},
         stored' \subseteq repository',
         \A n \in disk'.experiments : Lesson(n) \in repository'
  PROVE  IInv'
  <1>1. l \in Actors /\ l \notin Handlers /\ Grows
    BY FlowsAssumption DEF Actors, Grows
  <1>2. ASSUME NEW k \in Loops PROVE LoopInv(k)'
    BY <1>1, OtherLoops
  <1>3. ASSUME NEW k \in Loops PROVE AloneInv(k)'
    <2>1. CASE UNCHANGED <<disk, writers>>
      BY <1>1, <2>1, OtherWriters
    <2>2. CASE writers' = writers \union {l}
      BY <2>2 DEF AloneInv
    <2> QED BY <2>1, <2>2
  <1>4. \A h \in Handlers : RequestInv(h)'
    BY <1>1, OtherRequests
  <1>5. ExperimentRestsOnKnowledge'
    BY DEF IInv, ExperimentRestsOnKnowledge
  <1>6. writers' = {} => disk'.opportunities = {}
    BY DEF IInv
  <1>7. IsFiniteSet(writers')
    BY FS_AddElement DEF IInv
  <1> QED BY <1>2, <1>3, <1>4, <1>5, <1>6, <1>7 DEF IInv

-----------------------------------------------------------------------------
(* What the steps of a loop do to its store *)

\* The index of a stage, for the three that add to the store.
StageIs(l, i) == work[l].stage = i /\ Learnt(work[l].found)

LEMMA StageAdds ==
  ASSUME TypeOK, NEW l \in Loops, work[l].call \in Calls, work[l].stage \in 1..9,
         NEW adds, adds = Adds(Stages[work[l].stage], Call(l), work[l].found)
  PROVE  /\ adds \in EngineState
         /\ adds.knowledge = IF StageIs(l, 4) THEN {Lesson(Call(l))} ELSE {}
         /\ adds.experiments = IF StageIs(l, 6) THEN {Call(l)} ELSE {}
         /\ adds.opportunities = IF StageIs(l, 8) THEN {Call(l)} ELSE {}
  <1> DEFINE s == work[l].stage
  <1>1. /\ Stages[s] = "knowledge" <=> s = 4
        /\ Stages[s] = "experiment" <=> s = 6
        /\ Stages[s] = "opportunity" <=> s = 8
    BY DEF Stages
  <1>2. Lesson(Call(l)) \in Items /\ Call(l) \in Calls
    BY DEF Lesson, Items, Call
  <1>3. /\ adds.knowledge = IF StageIs(l, 4) THEN {Lesson(Call(l))} ELSE {}
        /\ adds.experiments = IF StageIs(l, 6) THEN {Call(l)} ELSE {}
        /\ adds.opportunities = IF StageIs(l, 8) THEN {Call(l)} ELSE {}
    BY <1>1 DEF Adds, StageIs
  <1>4. adds \in EngineState
    BY <1>2 DEF Adds, EngineState
  <1> QED BY <1>3, <1>4

LEMMA StageEffect ==
  ASSUME TypeOK, NEW l \in Loops, work[l].call \in Calls, work[l].stage \in 1..9, Stage(l)
  PROVE  /\ mem' \in [Loops -> EngineState]
         /\ \A k \in Loops \ {l} : mem'[k] = mem[k]
         /\ mem'[l].knowledge = mem[l].knowledge \union (IF StageIs(l, 4) THEN {Lesson(Call(l))} ELSE {})
         /\ mem'[l].experiments = mem[l].experiments \union (IF StageIs(l, 6) THEN {Call(l)} ELSE {})
         /\ mem'[l].opportunities = mem[l].opportunities \union (IF StageIs(l, 8) THEN {Call(l)} ELSE {})
  <1> DEFINE adds == Adds(Stages[work[l].stage], Call(l), work[l].found)
             after == [d \in DOMAIN NoState |-> mem[l][d] \union adds[d]]
  <1>1. /\ adds \in EngineState
        /\ adds.knowledge = IF StageIs(l, 4) THEN {Lesson(Call(l))} ELSE {}
        /\ adds.experiments = IF StageIs(l, 6) THEN {Call(l)} ELSE {}
        /\ adds.opportunities = IF StageIs(l, 8) THEN {Call(l)} ELSE {}
    BY StageAdds
  <1>2. mem \in [Loops -> EngineState]
    BY DEF TypeOK
  <1>3. mem' = [mem EXCEPT ![l] = after]
    BY DEF Stage
  <1> HIDE DEF adds
  <1>4. DOMAIN NoState = {"knowledge", "experiments", "opportunities"}
    BY DEF NoState
  <1>5. /\ after.knowledge = mem[l].knowledge \union adds.knowledge
        /\ after.experiments = mem[l].experiments \union adds.experiments
        /\ after.opportunities = mem[l].opportunities \union adds.opportunities
    BY <1>4
  <1>6. after = [knowledge |-> mem[l].knowledge \union adds.knowledge,
                 experiments |-> mem[l].experiments \union adds.experiments,
                 opportunities |-> mem[l].opportunities \union adds.opportunities]
    <2> DEFINE record == [knowledge |-> mem[l].knowledge \union adds.knowledge,
                          experiments |-> mem[l].experiments \union adds.experiments,
                          opportunities |-> mem[l].opportunities \union adds.opportunities]
    <2>1. DOMAIN record = {"knowledge", "experiments", "opportunities"}
      OBVIOUS
    <2>2. \A d \in DOMAIN record : record[d] = mem[l][d] \union adds[d]
      OBVIOUS
    <2>3. record = [d \in DOMAIN record |-> record[d]]
      OBVIOUS
    <2> HIDE DEF record
    <2> QED BY <1>4, <2>1, <2>2, <2>3
  <1>7. after \in EngineState
    BY <1>1, <1>2, <1>6 DEF EngineState
  <1> HIDE DEF after
  <1> QED BY <1>1, <1>2, <1>3, <1>5, <1>7

\* A dictionary that is loaded.
LEMMA LoadEffect ==
  ASSUME TypeOK, NEW l \in Loops, NEW from, NEW to,
         NEW d \in {"knowledge", "experiments", "opportunities"},
         NEW value, value \in (IF d = "knowledge" THEN SUBSET Items ELSE SUBSET Calls),
         Load(l, from, to, d, value)
  PROVE  /\ mem' \in [Loops -> EngineState]
         /\ \A k \in Loops \ {l} : mem'[k] = mem[k]
         /\ mem'[l].knowledge = IF d = "knowledge" THEN value ELSE mem[l].knowledge
         /\ mem'[l].experiments = IF d = "experiments" THEN value ELSE mem[l].experiments
         /\ mem'[l].opportunities = IF d = "opportunities" THEN value ELSE mem[l].opportunities
  <1>1. mem \in [Loops -> EngineState]
    BY DEF TypeOK
  <1>2. mem' = [mem EXCEPT ![l] = [mem[l] EXCEPT ![d] = value]]
    BY DEF Load
  <1>3. [mem[l] EXCEPT ![d] = value] \in EngineState
    BY <1>1 DEF EngineState
  <1> QED BY <1>1, <1>2, <1>3 DEF EngineState

\* A dictionary that is written.
LEMMA WritesEffect ==
  ASSUME TypeOK, NEW l \in Loops, NEW d \in {"knowledge", "experiments", "opportunities"}, Writes(l, d)
  PROVE  /\ disk' \in EngineState
         /\ disk'.knowledge = IF d = "knowledge" THEN mem[l].knowledge ELSE disk.knowledge
         /\ disk'.experiments = IF d = "experiments" THEN mem[l].experiments ELSE disk.experiments
         /\ disk'.opportunities = IF d = "opportunities" THEN mem[l].opportunities ELSE disk.opportunities
         /\ writers' = writers \union {l} /\ writers' \subseteq Loops
         /\ UNCHANGED <<repository, mem, table, obs, ledger, calls, executions, crashes>>
  BY DEF TypeOK, EngineState, Writes

-----------------------------------------------------------------------------
(* The steps of a loop *)

\* A call that begins, whoever begins it.
LEMMA Begins ==
  ASSUME IInv, NEW a \in Actors, NEW place \in {"stage", "keep", "advance"}, NEW found \in Findings,
         Begin(a, place, found)
  PROVE  /\ pc' \in [Actors -> Places] /\ work' \in [Actors -> Work] /\ LocalsOK'
         /\ pc'[a] = place /\ work'[a].stage = 1 /\ work'[a].call \in Calls /\ work'[a].found = found
         /\ \A b \in Actors \ {a} : pc'[b] = pc[b] /\ work'[b] = work[b]
         /\ calls' \in 0..MaxCalls
         /\ UNCHANGED <<executions, stored, writers, crashes>>
  <1> DEFINE locals == [NoWork EXCEPT !.call = calls + 1, !.found = found, !.stage = 1]
  <1>1. calls + 1 \in Calls /\ calls + 1 \in 0..MaxCalls
    BY FlowsAssumption DEF Begin, IInv, TypeOK, Calls
  <1>2. NoWork \in Work /\ calls + 1 \in 0..MaxCalls /\ 1 \in 0..9
    BY <1>1, FlowsAssumption DEF NoWork, Work, Findings
  <1>3. locals \in Work /\ locals.call = calls + 1 /\ locals.found = found /\ locals.stage = 1
    BY <1>2 DEF Work
  <1>4. LocalOK(a, place, locals)
    BY <1>1, <1>3 DEF LocalOK
  <1>5. place \in Places
    BY DEF Places
  <1>6. /\ pc' \in [Actors -> Places] /\ work' \in [Actors -> Work] /\ LocalsOK'
        /\ pc'[a] = place /\ work'[a] = locals
        /\ \A b \in Actors \ {a} : pc'[b] = pc[b] /\ work'[b] = work[b]
    <2>1. pc' = [pc EXCEPT ![a] = place] /\ work' = [work EXCEPT ![a] = locals]
      BY DEF Begin, Goto
    <2> HIDE DEF locals
    <2> QED BY <2>1, <1>3, <1>4, <1>5, Locals DEF IInv
  <1> HIDE DEF locals
  <1> QED BY <1>1, <1>3, <1>6 DEF Begin

\* A call that ends.
LEMMA Returns ==
  ASSUME IInv, NEW a \in Actors, Return(a)
  PROVE  /\ pc' \in [Actors -> Places] /\ work' \in [Actors -> Work] /\ LocalsOK'
         /\ pc'[a] = "idle" /\ work'[a] = NoWork
         /\ \A b \in Actors \ {a} : pc'[b] = pc[b] /\ work'[b] = work[b]
  <1>1. NoWork \in Work /\ "idle" \in Places
    BY FlowsAssumption DEF NoWork, Work, Places, Findings
  <1>2. LocalOK(a, "idle", NoWork)
    BY DEF LocalOK
  <1> QED BY <1>1, <1>2, Locals DEF IInv, Return, Goto

\* A step to another place, the locals staying as they are.
LEMMA Goes ==
  ASSUME IInv, NEW a \in Actors, NEW place \in Places, Goto(a, place), work' = work,
         LocalOK(a, place, work[a])
  PROVE  /\ pc' \in [Actors -> Places] /\ work' \in [Actors -> Work] /\ LocalsOK'
         /\ pc'[a] = place /\ work'[a] = work[a]
         /\ \A b \in Actors \ {a} : pc'[b] = pc[b] /\ work'[b] = work[b]
  <1>1. work \in [Actors -> Work]
    BY DEF IInv, TypeOK
  <1>2. work[a] \in Work /\ work' = [work EXCEPT ![a] = work[a]]
    BY <1>1
  <1> QED BY <1>2, Locals DEF IInv, Goto

\* A change of the locals, at the same place or another.
LEMMA Changes ==
  ASSUME IInv, NEW a \in Actors, NEW locals \in Work, work' = [work EXCEPT ![a] = locals],
         NEW place \in Places, pc' = [pc EXCEPT ![a] = place],
         LocalOK(a, place, locals)
  PROVE  /\ pc' \in [Actors -> Places] /\ work' \in [Actors -> Work] /\ LocalsOK'
         /\ pc'[a] = place /\ work'[a] = locals
         /\ \A b \in Actors \ {a} : pc'[b] = pc[b] /\ work'[b] = work[b]
  BY Locals DEF IInv

\* The rest of the types, of what a step leaves or changes.
DataOK ==
  /\ repository \subseteq Items /\ stored \subseteq Items
  /\ disk \in EngineState
  /\ table \in [Calls -> {"absent", "proposed", "awaiting"} \union Final]
  /\ obs \in [Calls -> SUBSET Kinds]
  /\ mem \in [Loops -> EngineState]
  /\ ledger \in [Pipelines -> SUBSET Record]
  /\ calls \in 0..MaxCalls /\ executions \in 0..MaxExecutions /\ crashes \in 0..MaxCrashes
  /\ writers \subseteq Loops

LEMMA TypeParts == TypeOK <=> DataOK /\ pc \in [Actors -> Places] /\ work \in [Actors -> Work]
  BY DEF TypeOK, DataOK

LEMMA StartCycleKeeps ==
  ASSUME IInv, NEW l \in Loops, StartCycle(l)
  PROVE  IInv'
  <1>1. l \in Actors
    BY DEF Actors
  <1>2. PICK found \in TavilyFindings : Begin(l, "stage", found)
    BY DEF StartCycle
  <1>3. UNCHANGED <<repository, disk, mem, table, obs, ledger, executions, stored, writers, crashes>>
    BY <1>2 DEF StartCycle, Begin, store
  <1>4. found \in Findings /\ pc[l] = "idle"
    BY <1>2 DEF TavilyFindings, Findings, Begin
  <1>5. /\ pc' \in [Actors -> Places] /\ work' \in [Actors -> Work] /\ LocalsOK'
        /\ pc'[l] = "stage" /\ work'[l].stage = 1
        /\ \A b \in Actors \ {l} : pc'[b] = pc[b] /\ work'[b] = work[b]
        /\ calls' \in 0..MaxCalls
    BY <1>1, <1>2, <1>4, Begins
  <1>6. TypeOK'
    BY <1>3, <1>5 DEF IInv, TypeOK
  <1>7. LoopInv(l)'
    BY <1>3, <1>5 DEF IInv, LoopInv, Past
  <1>8. AloneInv(l)'
    BY <1>3, <1>4, <1>5 DEF IInv, AloneInv, Loading
  <1>9. stored' \subseteq repository' /\ \A n \in disk'.experiments : Lesson(n) \in repository'
    BY <1>3 DEF IInv, ExperimentRestsOnKnowledge
  <1>10. Beside(l)
    BY <1>3, <1>5 DEF Beside
  <1> QED BY <1>3, <1>5, <1>6, <1>7, <1>8, <1>9, <1>10, LoopStep

LEMMA StageKeeps ==
  ASSUME IInv, NEW l \in Loops, Stage(l)
  PROVE  IInv'
  <1>1. l \in Actors /\ pc[l] = "stage"
    BY DEF Actors, Stage
  <1>2. /\ UNCHANGED <<repository, disk, table, obs, ledger, work, calls, executions, stored, writers, crashes>>
        /\ Goto(l, "row")
    BY DEF Stage, history
  <1>3. work[l].call \in Calls /\ work[l].stage \in 1..9 /\ LocalOK(l, "row", work[l])
    BY <1>1 DEF IInv, LocalsOK, LocalOK
  <1>4. /\ pc' \in [Actors -> Places] /\ work' \in [Actors -> Work] /\ LocalsOK'
        /\ pc'[l] = "row" /\ work'[l] = work[l]
        /\ \A b \in Actors \ {l} : pc'[b] = pc[b] /\ work'[b] = work[b]
    BY <1>1, <1>2, <1>3, Goes DEF Places
  <1>5. /\ mem' \in [Loops -> EngineState]
        /\ \A k \in Loops \ {l} : mem'[k] = mem[k]
        /\ mem'[l].knowledge = mem[l].knowledge \union (IF StageIs(l, 4) THEN {Lesson(Call(l))} ELSE {})
        /\ mem'[l].experiments = mem[l].experiments \union (IF StageIs(l, 6) THEN {Call(l)} ELSE {})
        /\ mem'[l].opportunities = mem[l].opportunities \union (IF StageIs(l, 8) THEN {Call(l)} ELSE {})
    BY <1>3, StageEffect DEF IInv
  <1>6. TypeOK'
    BY <1>2, <1>4, <1>5 DEF IInv, TypeOK
  <1>7. LoopInv(l)'
    <2>1. LoopInv(l)
      BY DEF IInv
    <2>2. Past(l, 4)' => Past(l, 4) \/ work[l].stage = 4
      BY <1>1, <1>3, <1>4 DEF Past
    <2>3. Past(l, 6)' => Past(l, 6) \/ work[l].stage = 6
      BY <1>1, <1>3, <1>4 DEF Past
    <2>4. \A n \in mem'[l].experiments : Lesson(n) \in mem'[l].knowledge \union repository'
      <3>1. StageIs(l, 6) => Past(l, 4) /\ Learnt(work[l].found)
        BY <1>1 DEF StageIs, Past
      <3> QED BY <1>2, <1>5, <2>1, <3>1 DEF LoopInv
    <2>5. Past(l, 4)' /\ Learnt(work'[l].found) => Lesson(Call(l)) \in mem'[l].knowledge
      BY <1>4, <1>5, <2>1, <2>2 DEF LoopInv, StageIs
    <2>6. Past(l, 6)' /\ Learnt(work'[l].found) => Call(l) \in mem'[l].experiments
      BY <1>4, <1>5, <2>1, <2>3 DEF LoopInv, StageIs
    <2>7. Call(l)' = Call(l)
      BY <1>4 DEF Call
    <2> QED BY <1>4, <2>4, <2>5, <2>6, <2>7 DEF LoopInv, Learnt
  <1>8. AloneInv(l)'
    <2>1. StageIs(l, 8) => Call(l) \in mem[l].experiments
      BY <1>1, <1>3 DEF IInv, LoopInv, Past, StageIs
    <2> QED BY <1>1, <1>2, <1>4, <1>5, <2>1 DEF IInv, AloneInv, Loading
  <1>9. stored' \subseteq repository' /\ \A n \in disk'.experiments : Lesson(n) \in repository'
    BY <1>2 DEF IInv, ExperimentRestsOnKnowledge
  <1>10. Beside(l)
    BY <1>4, <1>5 DEF Beside
  <1> QED BY <1>2, <1>4, <1>6, <1>7, <1>8, <1>9, <1>10, LoopStep

LEMMA StageRaisesKeeps ==
  ASSUME IInv, NEW l \in Loops, StageRaises(l)
  PROVE  IInv'
  <1>1. l \in Actors /\ pc[l] = "stage"
    BY DEF Actors, StageRaises
  <1>2. /\ UNCHANGED <<repository, disk, mem, table, obs, ledger, calls, executions, stored, writers, crashes>>
        /\ Return(l)
    BY DEF StageRaises, store, history
  <1>3. /\ pc' \in [Actors -> Places] /\ work' \in [Actors -> Work] /\ LocalsOK'
        /\ pc'[l] = "idle" /\ work'[l] = NoWork
        /\ \A b \in Actors \ {l} : pc'[b] = pc[b] /\ work'[b] = work[b]
    BY <1>1, <1>2, Returns
  <1>4. TypeOK'
    BY <1>2, <1>3 DEF IInv, TypeOK
  <1>5. LoopInv(l)'
    BY <1>2, <1>3 DEF IInv, LoopInv, Past
  <1>6. AloneInv(l)'
    BY <1>1, <1>2, <1>3 DEF IInv, AloneInv, Loading
  <1>7. stored' \subseteq repository' /\ \A n \in disk'.experiments : Lesson(n) \in repository'
    BY <1>2 DEF IInv, ExperimentRestsOnKnowledge
  <1>8. Beside(l)
    BY <1>2, <1>3 DEF Beside
  <1> QED BY <1>2, <1>3, <1>4, <1>5, <1>6, <1>7, <1>8, LoopStep

LEMMA WriteKnowledgeKeeps ==
  ASSUME IInv, NEW l \in Loops, WriteKnowledge(l)
  PROVE  IInv'
  <1>1. l \in Actors /\ pc[l] = "row" /\ UNCHANGED stored
    BY DEF Actors, WriteKnowledge
  <1>2. /\ disk' \in EngineState
        /\ disk'.experiments = disk.experiments /\ disk'.opportunities = disk.opportunities
        /\ writers' = writers \union {l} /\ writers' \subseteq Loops
        /\ UNCHANGED <<repository, mem, table, obs, ledger, calls, executions, crashes>>
    BY WritesEffect DEF WriteKnowledge, IInv
  <1> DEFINE locals == [work[l] EXCEPT !.todo = mem[l].knowledge]
  <1>3. /\ locals \in Work /\ locals.todo = mem[l].knowledge
        /\ locals.call = work[l].call /\ locals.stage = work[l].stage /\ locals.found = work[l].found
    BY <1>1 DEF IInv, TypeOK, EngineState, Work
  <1>4. LocalOK(l, pc[l], work[l])
    BY <1>1 DEF IInv, LocalsOK
  <1>5. LocalOK(l, "items", locals)
    <2> HIDE DEF locals
    <2> QED BY <1>1, <1>3, <1>4 DEF LocalOK
  <1>6. /\ pc' \in [Actors -> Places] /\ work' \in [Actors -> Work] /\ LocalsOK'
        /\ pc'[l] = "items" /\ work'[l] = locals
        /\ \A b \in Actors \ {l} : pc'[b] = pc[b] /\ work'[b] = work[b]
    <2>1. pc' = [pc EXCEPT ![l] = "items"] /\ work' = [work EXCEPT ![l] = locals]
      BY DEF WriteKnowledge, Goto
    <2> HIDE DEF locals
    <2> QED BY <1>1, <1>3, <1>5, <2>1, Changes DEF Places
  <1> HIDE DEF locals
  <1>7. TypeOK'
    BY <1>1, <1>2, <1>6 DEF IInv, TypeOK
  <1>8. LoopInv(l)'
    <2>1. Past(l, 4)' => Past(l, 4)
      BY <1>1, <1>3, <1>6 DEF Past
    <2>2. Past(l, 6)' => Past(l, 6)
      BY <1>1, <1>3, <1>6 DEF Past
    <2>3. Call(l)' = Call(l) /\ work'[l].found = work[l].found /\ work'[l].todo = mem[l].knowledge
      BY <1>3, <1>6 DEF Call
    <2> QED BY <1>2, <1>6, <2>1, <2>2, <2>3 DEF IInv, LoopInv
  <1>9. AloneInv(l)'
    BY <1>1, <1>2, <1>6 DEF IInv, AloneInv, Loading
  <1>10. stored' \subseteq repository' /\ \A n \in disk'.experiments : Lesson(n) \in repository'
    BY <1>1, <1>2 DEF IInv, ExperimentRestsOnKnowledge
  <1>11. Beside(l)
    BY <1>2, <1>6 DEF Beside
  <1> QED BY <1>2, <1>6, <1>7, <1>8, <1>9, <1>10, <1>11, LoopStep

LEMMA PutItemKeeps ==
  ASSUME IInv, NEW l \in Loops, PutItem(l)
  PROVE  IInv'
  <1>1. l \in Actors /\ pc[l] = "items"
    BY DEF Actors, PutItem
  <1>2. PICK i \in work[l].todo :
          /\ repository' = repository \union {i}
          /\ work' = [work EXCEPT ![l] = [work[l] EXCEPT !.todo = work[l].todo \ {i}]]
    BY DEF PutItem
  <1>3. UNCHANGED <<disk, mem, table, obs, ledger, pc, calls, executions, stored, writers, crashes>>
    BY DEF PutItem, history
  <1> DEFINE locals == [work[l] EXCEPT !.todo = work[l].todo \ {i}]
  <1>4. work[l] \in Work /\ i \in Items /\ pc \in [Actors -> Places]
    BY <1>1, <1>2 DEF IInv, TypeOK, Work
  <1>5. /\ locals \in Work /\ locals.todo = work[l].todo \ {i}
        /\ locals.call = work[l].call /\ locals.stage = work[l].stage /\ locals.found = work[l].found
    BY <1>4 DEF Work
  <1>6. LocalOK(l, pc[l], work[l])
    BY <1>1 DEF IInv, LocalsOK
  <1>7. LocalOK(l, "items", locals)
    <2> HIDE DEF locals
    <2> QED BY <1>1, <1>5, <1>6 DEF LocalOK
  <1>8. /\ pc' \in [Actors -> Places] /\ work' \in [Actors -> Work] /\ LocalsOK'
        /\ pc'[l] = "items" /\ work'[l] = locals
        /\ \A b \in Actors \ {l} : pc'[b] = pc[b] /\ work'[b] = work[b]
    <2>1. pc' = [pc EXCEPT ![l] = "items"] /\ work' = [work EXCEPT ![l] = locals]
      BY <1>1, <1>2, <1>3, <1>4
    <2> HIDE DEF locals
    <2> QED BY <1>1, <1>5, <1>7, <2>1, Changes DEF Places
  <1> HIDE DEF locals
  <1>9. TypeOK'
    BY <1>2, <1>3, <1>4, <1>8 DEF IInv, TypeOK
  <1>10. LoopInv(l)'
    <2>1. Past(l, 4)' => Past(l, 4)
      BY <1>1, <1>5, <1>8 DEF Past
    <2>2. Past(l, 6)' => Past(l, 6)
      BY <1>1, <1>5, <1>8 DEF Past
    <2>3. Call(l)' = Call(l) /\ work'[l].found = work[l].found
      BY <1>5, <1>8 DEF Call
    <2>4. repository' \union work'[l].todo = repository \union work[l].todo
      BY <1>2, <1>5, <1>8
    <2> QED BY <1>1, <1>2, <1>3, <1>8, <2>1, <2>2, <2>3, <2>4 DEF IInv, LoopInv
  <1>11. AloneInv(l)'
    BY <1>3 DEF IInv, AloneInv, Loading
  <1>12. stored' \subseteq repository' /\ \A n \in disk'.experiments : Lesson(n) \in repository'
    BY <1>2, <1>3 DEF IInv, ExperimentRestsOnKnowledge
  <1>13. Beside(l) /\ repository \subseteq repository'
    BY <1>2, <1>3, <1>8 DEF Beside
  <1> QED BY <1>3, <1>8, <1>9, <1>10, <1>11, <1>12, <1>13, LoopStep

LEMMA WriteExperimentsKeeps ==
  ASSUME IInv, NEW l \in Loops, WriteExperiments(l)
  PROVE  IInv'
  <1>1. l \in Actors /\ pc[l] = "items" /\ work[l].todo = {} /\ UNCHANGED <<work, stored>>
        /\ Goto(l, "opportunities")
    BY DEF Actors, WriteExperiments
  <1>2. /\ disk' \in EngineState
        /\ disk'.experiments = mem[l].experiments /\ disk'.opportunities = disk.opportunities
        /\ writers' = writers \union {l} /\ writers' \subseteq Loops
        /\ UNCHANGED <<repository, mem, table, obs, ledger, calls, executions, crashes>>
    BY WritesEffect DEF WriteExperiments, IInv
  <1>3. LocalOK(l, "opportunities", work[l])
    BY <1>1 DEF IInv, LocalsOK, LocalOK
  <1>4. /\ pc' \in [Actors -> Places] /\ work' \in [Actors -> Work] /\ LocalsOK'
        /\ pc'[l] = "opportunities" /\ work'[l] = work[l]
        /\ \A b \in Actors \ {l} : pc'[b] = pc[b] /\ work'[b] = work[b]
    BY <1>1, <1>3, Goes DEF Places
  <1>5. TypeOK'
    BY <1>1, <1>2, <1>4 DEF IInv, TypeOK
  <1>6. mem[l].knowledge \subseteq repository
    BY <1>1 DEF IInv, LoopInv
  <1>7. LoopInv(l)'
    <2>1. Past(l, 4)' => Past(l, 4)
      BY <1>1, <1>4 DEF Past
    <2>2. Past(l, 6)' => Past(l, 6)
      BY <1>1, <1>4 DEF Past
    <2> QED BY <1>1, <1>2, <1>4, <1>6, <2>1, <2>2 DEF IInv, LoopInv, Call
  <1>8. AloneInv(l)'
    BY <1>1, <1>2, <1>4 DEF IInv, AloneInv, Loading
  <1>9. stored' \subseteq repository' /\ \A n \in disk'.experiments : Lesson(n) \in repository'
    BY <1>1, <1>2, <1>6 DEF IInv, LoopInv
  <1>10. Beside(l)
    BY <1>2, <1>4 DEF Beside
  <1> QED BY <1>2, <1>4, <1>5, <1>7, <1>8, <1>9, <1>10, LoopStep

LEMMA WriteOpportunitiesKeeps ==
  ASSUME IInv, NEW l \in Loops, WriteOpportunities(l)
  PROVE  IInv'
  <1>1. l \in Actors /\ pc[l] = "opportunities" /\ stored' = stored \union mem[l].knowledge
    BY DEF Actors, WriteOpportunities
  <1>2. /\ disk' \in EngineState
        /\ disk'.experiments = disk.experiments /\ disk'.opportunities = mem[l].opportunities
        /\ writers' = writers \union {l} /\ writers' \subseteq Loops
        /\ UNCHANGED <<repository, mem, table, obs, ledger, calls, executions, crashes>>
    BY WritesEffect DEF WriteOpportunities, IInv
  <1>3. /\ work[l] \in Work /\ LocalOK(l, "opportunities", work[l])
        /\ mem[l].knowledge \subseteq Items /\ mem[l].knowledge \subseteq repository
    BY <1>1 DEF IInv, LocalsOK, LocalOK, TypeOK, EngineState, LoopInv
  <1>4. /\ pc' \in [Actors -> Places] /\ work' \in [Actors -> Work] /\ LocalsOK'
        /\ \A b \in Actors \ {l} : pc'[b] = pc[b] /\ work'[b] = work[b]
        /\ \/ pc'[l] = "idle"
           \/ /\ pc'[l] = "stage" /\ work'[l].stage = work[l].stage + 1
              /\ work'[l].call = work[l].call /\ work'[l].found = work[l].found
    <2>1. CASE work[l].stage = Len(Stages)
      <3>1. Return(l)
        BY <2>1 DEF WriteOpportunities
      <3> QED BY <1>1, <3>1, Returns
    <2>2. CASE work[l].stage # Len(Stages)
      <3> DEFINE locals == [work[l] EXCEPT !.stage = work[l].stage + 1]
      <3>1. pc' = [pc EXCEPT ![l] = "stage"] /\ work' = [work EXCEPT ![l] = locals]
        BY <2>2 DEF WriteOpportunities, Goto
      <3>2. work[l].stage + 1 \in 1..9 /\ work[l].call \in Calls
        BY <1>3, <2>2 DEF LocalOK, Stages
      <3>3. /\ locals \in Work /\ locals.stage = work[l].stage + 1
            /\ locals.call = work[l].call /\ locals.found = work[l].found
        BY <1>3, <3>2 DEF Work
      <3> HIDE DEF locals
      <3>4. LocalOK(l, "stage", locals)
        BY <3>2, <3>3, FlowsAssumption DEF LocalOK
      <3> QED BY <1>1, <3>1, <3>3, <3>4, Changes DEF Places
    <2> QED BY <2>1, <2>2
  <1>5. TypeOK'
    BY <1>1, <1>2, <1>3, <1>4 DEF IInv, TypeOK
  <1>6. LoopInv(l)'
    <2>1. CASE pc'[l] = "idle"
      BY <1>2, <2>1 DEF IInv, LoopInv, Past
    <2>2. CASE /\ pc'[l] = "stage" /\ work'[l].stage = work[l].stage + 1
               /\ work'[l].call = work[l].call /\ work'[l].found = work[l].found
      <3>1. work[l].stage \in 1..9
        BY <1>1, <1>3 DEF LocalOK
      <3>2. Past(l, 4)' => Past(l, 4)
        BY <1>1, <2>2, <3>1 DEF Past
      <3>3. Past(l, 6)' => Past(l, 6)
        BY <1>1, <2>2, <3>1 DEF Past
      <3> QED BY <1>2, <2>2, <3>2, <3>3 DEF IInv, LoopInv, Call
    <2> QED BY <1>4, <2>1, <2>2
  <1>7. AloneInv(l)'
    BY <1>1, <1>2, <1>4 DEF IInv, AloneInv, Loading
  <1>8. stored' \subseteq repository' /\ \A n \in disk'.experiments : Lesson(n) \in repository'
    BY <1>1, <1>2, <1>3 DEF IInv, ExperimentRestsOnKnowledge
  <1>9. Beside(l)
    BY <1>2, <1>4 DEF Beside
  <1> QED BY <1>2, <1>4, <1>5, <1>6, <1>7, <1>8, <1>9, LoopStep

\* A step of the loading of a store; LoadKeeps says what is left to show of it.
LEMMA LoadKeeps ==
  ASSUME IInv, NEW l \in Loops, NEW from, NEW to \in Places,
         to \in {"idle", "search", "loadExperiments", "loadOpportunities"},
         NEW d \in {"knowledge", "experiments", "opportunities"},
         NEW value, value \in (IF d = "knowledge" THEN SUBSET Items ELSE SUBSET Calls),
         Load(l, from, to, d, value),
         d = "knowledge" => \A n \in mem[l].experiments : Lesson(n) \in value \union repository,
         d = "experiments" => \A n \in value : Lesson(n) \in repository,
         AloneInv(l)'
  PROVE  IInv'
  <1>1. l \in Actors
    BY DEF Actors
  <1>2. /\ UNCHANGED <<repository, disk, table, obs, ledger, work, calls, executions, stored, writers, crashes>>
        /\ Goto(l, to)
    BY DEF Load, history
  <1>3. LocalOK(l, to, work[l])
    BY DEF LocalOK
  <1>4. /\ pc' \in [Actors -> Places] /\ work' \in [Actors -> Work] /\ LocalsOK'
        /\ pc'[l] = to /\ work'[l] = work[l]
        /\ \A b \in Actors \ {l} : pc'[b] = pc[b] /\ work'[b] = work[b]
    BY <1>1, <1>2, <1>3, Goes
  <1>5. /\ mem' \in [Loops -> EngineState]
        /\ \A k \in Loops \ {l} : mem'[k] = mem[k]
        /\ mem'[l].knowledge = IF d = "knowledge" THEN value ELSE mem[l].knowledge
        /\ mem'[l].experiments = IF d = "experiments" THEN value ELSE mem[l].experiments
    BY LoadEffect DEF IInv
  <1>6. TypeOK'
    BY <1>2, <1>4, <1>5 DEF IInv, TypeOK
  <1>7. LoopInv(l)'
    <2>1. ~Past(l, 4)' /\ ~Past(l, 6)'
      BY <1>4 DEF Past
    <2>2. \A n \in mem'[l].experiments : Lesson(n) \in mem'[l].knowledge \union repository'
      BY <1>2, <1>5 DEF IInv, LoopInv
    <2> QED BY <1>4, <2>1, <2>2 DEF LoopInv
  <1>8. stored' \subseteq repository' /\ \A n \in disk'.experiments : Lesson(n) \in repository'
    BY <1>2 DEF IInv, ExperimentRestsOnKnowledge
  <1>9. Beside(l)
    BY <1>4, <1>5 DEF Beside
  <1> QED BY <1>2, <1>4, <1>6, <1>7, <1>8, <1>9, LoopStep

\* The dictionaries when the whole row of one of them is read.
LEMMA LoadAlone ==
  ASSUME IInv, NEW l \in Loops
  PROVE  /\ LoadKnowledge(l) => AloneInv(l)'
         /\ SearchRepository(l) => AloneInv(l)'
         /\ LoadExperiments(l) => AloneInv(l)'
         /\ LoadOpportunities(l) => AloneInv(l)'
  <1>1. TypeOK /\ AloneInv(l) /\ l \in Actors /\ pc \in [Actors -> Places]
    BY DEF IInv, TypeOK, Actors
  <1>2. disk.knowledge \subseteq Items /\ disk.experiments \subseteq Calls /\ disk.opportunities \subseteq Calls
    BY DEF IInv, TypeOK, EngineState
  <1>3. Merged(l) \subseteq Items
    BY DEF IInv, TypeOK, EngineState, Merged
  <1>4. ASSUME LoadKnowledge(l) PROVE AloneInv(l)'
    <2>1. Load(l, "load", "search", "knowledge", disk.knowledge)
      BY <1>4 DEF LoadKnowledge
    <2>2. pc[l] = "load" /\ pc'[l] = "search" /\ UNCHANGED <<disk, writers>>
      BY <1>1, <2>1 DEF Load, Goto, history
    <2>3. mem'[l].experiments = mem[l].experiments /\ mem'[l].opportunities = mem[l].opportunities
      BY <1>1, <1>2, <2>1, LoadEffect
    <2> QED BY <1>1, <2>2, <2>3 DEF AloneInv, Loading
  <1>5. ASSUME SearchRepository(l) PROVE AloneInv(l)'
    <2>1. Load(l, "search", "loadExperiments", "knowledge", Merged(l))
      BY <1>5 DEF SearchRepository
    <2>2. pc[l] = "search" /\ pc'[l] = "loadExperiments" /\ UNCHANGED <<disk, writers>>
      BY <1>1, <2>1 DEF Load, Goto, history
    <2>3. mem'[l].experiments = mem[l].experiments /\ mem'[l].opportunities = mem[l].opportunities
      BY <1>1, <1>3, <2>1, LoadEffect
    <2> QED BY <1>1, <2>2, <2>3 DEF AloneInv, Loading
  <1>6. ASSUME LoadExperiments(l) PROVE AloneInv(l)'
    <2>1. Load(l, "loadExperiments", "loadOpportunities", "experiments", disk.experiments)
      BY <1>6 DEF LoadExperiments
    <2>2. pc[l] = "loadExperiments" /\ pc'[l] = "loadOpportunities" /\ UNCHANGED <<disk, writers>>
      BY <1>1, <2>1 DEF Load, Goto, history
    <2>3. mem'[l].experiments = disk.experiments /\ mem'[l].opportunities = mem[l].opportunities
      BY <1>1, <1>2, <2>1, LoadEffect
    <2> QED BY <1>1, <2>2, <2>3 DEF AloneInv, Loading
  <1>7. ASSUME LoadOpportunities(l) PROVE AloneInv(l)'
    <2>1. Load(l, "loadOpportunities", "idle", "opportunities", disk.opportunities)
      BY <1>7 DEF LoadOpportunities
    <2>2. pc[l] = "loadOpportunities" /\ pc'[l] = "idle" /\ UNCHANGED <<disk, writers>>
      BY <1>1, <2>1 DEF Load, Goto, history
    <2>3. mem'[l].experiments = mem[l].experiments /\ mem'[l].opportunities = disk.opportunities
      BY <1>1, <1>2, <2>1, LoadEffect
    <2> QED BY <1>1, <2>2, <2>3 DEF AloneInv, Loading
  <1> QED BY <1>4, <1>5, <1>6, <1>7

LEMMA LoadsKeep ==
  ASSUME IInv, NEW l \in Loops,
         LoadKnowledge(l) \/ SearchRepository(l) \/ LoadExperiments(l) \/ LoadOpportunities(l)
  PROVE  IInv'
  <1>1. AloneInv(l)'
    BY LoadAlone
  <1>2. disk.knowledge \subseteq Items /\ disk.experiments \subseteq Calls /\ disk.opportunities \subseteq Calls
    BY DEF IInv, TypeOK, EngineState
  <1>3. Merged(l) \subseteq Items /\ LoopInv(l)
    BY DEF IInv, TypeOK, EngineState, Merged
  <1>4. CASE LoadKnowledge(l)
    <2>1. pc[l] = "load"
      BY <1>4 DEF LoadKnowledge, Load
    <2> QED BY <1>1, <1>2, <1>3, <1>4, <2>1, LoadKeeps DEF LoadKnowledge, LoopInv, Places
  <1>5. CASE SearchRepository(l)
    <2>1. \A n \in mem[l].experiments : Lesson(n) \in Merged(l) \union repository
      BY <1>3 DEF LoopInv, Merged
    <2> QED BY <1>1, <1>3, <1>5, <2>1, LoadKeeps DEF SearchRepository, Places
  <1>6. CASE LoadExperiments(l)
    <2>1. \A n \in disk.experiments : Lesson(n) \in repository
      BY DEF IInv, ExperimentRestsOnKnowledge
    <2> QED BY <1>1, <1>2, <1>6, <2>1, LoadKeeps DEF LoadExperiments, Places
  <1>7. CASE LoadOpportunities(l)
    BY <1>1, <1>2, <1>7, LoadKeeps DEF LoadOpportunities, Places
  <1> QED BY <1>4, <1>5, <1>6, <1>7

-----------------------------------------------------------------------------
(* The steps of a request *)

\* A step that makes nothing durable but, at most, an observation.
LEMMA QuietStep ==
  ASSUME IInv, NEW a \in Handlers \union Pipelines,
         UNCHANGED <<repository, disk, mem, table, stored, writers>>,
         pc' \in [Actors -> Places], work' \in [Actors -> Work], LocalsOK',
         \A b \in Actors \ {a} : pc'[b] = pc[b] /\ work'[b] = work[b],
         obs' \in [Calls -> SUBSET Kinds], ledger' \in [Pipelines -> SUBSET Record],
         calls' \in 0..MaxCalls, executions' \in 0..MaxExecutions, crashes' \in 0..MaxCrashes,
         a \in Handlers => RequestInv(a)'
  PROVE  IInv'
  <1>1. TypeOK'
    BY DEF IInv, TypeOK
  <1>2. Beside(a) /\ Grows
    BY DEF Beside, Grows
  <1>3. stored' \subseteq repository' /\ \A n \in Calls : table'[n] # "absent" => Sources(n) \subseteq repository'
    BY DEF IInv, ExperimentRestsOnKnowledge
  <1> QED BY <1>1, <1>2, <1>3, RequestStep

\* register_experiment: the row is there, and a result is kept.
LEMMA RegisteredEffect ==
  ASSUME TypeOK, NEW e \in Calls, NEW status \in {"proposed", "awaiting"} \union Final,
         table' = Registered(e, status)
  PROVE  /\ table' \in [Calls -> {"absent", "proposed", "awaiting"} \union Final]
         /\ table'[e] # "absent"
         /\ \A n \in Calls \ {e} : table'[n] = table[n]
         /\ \A n \in Calls : table[n] \in Final => table'[n] = table[n]
  BY DEF TypeOK, Registered, Final

\* A step that registers the experiment of its request, and ends or goes on.
LEMMA RegisterStep ==
  ASSUME IInv, NEW h \in Handlers, NEW status \in {"proposed", "awaiting"} \union Final,
         work[h].call \in Calls,
         table' = Registered(Call(h), status), Sources(Call(h)) \subseteq repository,
         UNCHANGED <<repository, disk, mem, obs, ledger, calls, executions, stored, writers, crashes>>,
         pc' \in [Actors -> Places], work' \in [Actors -> Work], LocalsOK',
         \A b \in Actors \ {h} : pc'[b] = pc[b] /\ work'[b] = work[b],
         RequestInv(h)'
  PROVE  IInv'
  <1>1. Call(h) \in Calls
    BY DEF Call
  <1>2. /\ table' \in [Calls -> {"absent", "proposed", "awaiting"} \union Final]
        /\ table'[Call(h)] # "absent"
        /\ \A n \in Calls \ {Call(h)} : table'[n] = table[n]
    BY <1>1, RegisteredEffect DEF IInv
  <1>3. TypeOK'
    BY <1>2 DEF IInv, TypeOK
  <1>4. Beside(h) /\ Grows
    BY <1>2 DEF Beside, Grows
  <1>5. stored' \subseteq repository'
    BY DEF IInv
  <1>6. \A n \in Calls : table'[n] # "absent" => Sources(n) \subseteq repository'
    BY <1>2 DEF IInv, ExperimentRestsOnKnowledge
  <1> QED BY <1>3, <1>4, <1>5, <1>6, RequestStep

LEMMA ResearchKeeps ==
  ASSUME IInv, NEW h \in Handlers, Research(h)
  PROVE  IInv'
  <1>1. h \in Actors
    BY DEF Actors
  <1>2. PICK found \in TavilyFindings : Begin(h, "keep", found)
    BY DEF Research
  <1>3. found \in Findings
    BY DEF TavilyFindings, Findings
  <1>4. UNCHANGED <<repository, disk, mem, table, obs, ledger, executions, stored, writers, crashes>>
    BY <1>2 DEF Research, Begin, store
  <1>5. /\ pc' \in [Actors -> Places] /\ work' \in [Actors -> Work] /\ LocalsOK'
        /\ pc'[h] = "keep"
        /\ \A b \in Actors \ {h} : pc'[b] = pc[b] /\ work'[b] = work[b]
        /\ calls' \in 0..MaxCalls
    BY <1>1, <1>2, <1>3, Begins
  <1>6. RequestInv(h)'
    BY <1>5 DEF RequestInv
  <1> QED BY <1>4, <1>5, <1>6, QuietStep DEF IInv, TypeOK

LEMMA KeepSourceKeeps ==
  ASSUME IInv, NEW h \in Handlers, KeepSource(h)
  PROVE  IInv'
  <1>1. h \in Actors /\ pc[h] = "keep"
    BY DEF Actors, KeepSource
  <1>2. UNCHANGED <<disk, mem, table, obs, ledger, pc, work, calls, executions, stored, writers, crashes>>
    BY DEF KeepSource, history
  <1>3. Call(h) \in Calls
    BY <1>1 DEF IInv, LocalsOK, LocalOK, Call
  <1>4. PICK i \in StillToKeep(Call(h)) : repository' = repository \union {i}
    BY DEF KeepSource
  <1>5. i \in Items
    BY <1>3, <1>4 DEF StillToKeep, Sources, Items
  <1>6. TypeOK' /\ LocalsOK'
    BY <1>2, <1>4, <1>5 DEF IInv, TypeOK, LocalsOK, LocalOK
  <1>7. Beside(h) /\ Grows
    BY <1>2, <1>4 DEF Beside, Grows
  <1>8. stored' \subseteq repository' /\ \A n \in Calls : table'[n] # "absent" => Sources(n) \subseteq repository'
    BY <1>2, <1>4 DEF IInv, ExperimentRestsOnKnowledge
  <1>9. RequestInv(h)'
    BY <1>1, <1>2 DEF RequestInv
  <1> QED BY <1>2, <1>6, <1>7, <1>8, <1>9, RequestStep

LEMMA ResearchReturnsKeeps ==
  ASSUME IInv, NEW h \in Handlers, ResearchReturns(h)
  PROVE  IInv'
  <1>1. h \in Actors /\ pc[h] = "keep" /\ Goto(h, "engines")
    BY DEF Actors, ResearchReturns
  <1>2. UNCHANGED <<repository, disk, mem, table, obs, ledger, work, calls, executions, writers, crashes>>
    BY DEF ResearchReturns, store
  <1>3. LocalOK(h, "engines", work[h])
    BY <1>1, FlowsAssumption DEF IInv, LocalsOK, LocalOK
  <1>4. /\ pc' \in [Actors -> Places] /\ work' \in [Actors -> Work] /\ LocalsOK'
        /\ pc'[h] = "engines" /\ work'[h] = work[h]
        /\ \A b \in Actors \ {h} : pc'[b] = pc[b] /\ work'[b] = work[b]
    BY <1>1, <1>2, <1>3, Goes DEF Places
  <1>5. Learnt(work[h].found) => Sources(Call(h)) \subseteq repository
    BY DEF ResearchReturns, StillToKeep
  <1>6. stored' \subseteq repository' /\ repository \subseteq Items
    BY <1>2, <1>5 DEF ResearchReturns, IInv, TypeOK
  <1>7. TypeOK'
    BY <1>2, <1>4, <1>6 DEF IInv, TypeOK
  <1>8. Beside(h) /\ Grows
    BY <1>2, <1>4 DEF Beside, Grows
  <1>9. \A n \in Calls : table'[n] # "absent" => Sources(n) \subseteq repository'
    BY <1>2 DEF IInv, ExperimentRestsOnKnowledge
  <1>10. RequestInv(h)'
    BY <1>2, <1>4, <1>5 DEF RequestInv, Call
  <1> QED BY <1>2, <1>4, <1>6, <1>7, <1>8, <1>9, <1>10, RequestStep

LEMMA EnginesReturnKeeps ==
  ASSUME IInv, NEW h \in Handlers, EnginesReturn(h)
  PROVE  IInv'
  <1>1. h \in Actors /\ pc[h] = "engines" /\ Learnt(work[h].found) /\ Goto(h, "register")
    BY DEF Actors, EnginesReturn
  <1>2. UNCHANGED <<repository, disk, mem, table, obs, ledger, work, calls, executions, stored, writers, crashes>>
    BY DEF EnginesReturn, store, history
  <1>3. LocalOK(h, "register", work[h])
    BY <1>1, FlowsAssumption DEF IInv, LocalsOK, LocalOK
  <1>4. /\ pc' \in [Actors -> Places] /\ work' \in [Actors -> Work] /\ LocalsOK'
        /\ pc'[h] = "register" /\ work'[h] = work[h]
        /\ \A b \in Actors \ {h} : pc'[b] = pc[b] /\ work'[b] = work[b]
    BY <1>1, <1>2, <1>3, Goes DEF Places
  <1>5. RequestInv(h)
    BY DEF IInv
  <1>6. RequestInv(h)'
    BY <1>1, <1>2, <1>4, <1>5 DEF RequestInv, Call
  <1> QED BY <1>2, <1>4, <1>6, QuietStep DEF IInv, TypeOK

LEMMA EnginesRaiseKeeps ==
  ASSUME IInv, NEW h \in Handlers, EnginesRaise(h)
  PROVE  IInv'
  <1>1. h \in Actors /\ Return(h)
    BY DEF Actors, EnginesRaise
  <1>2. UNCHANGED <<repository, disk, mem, table, obs, ledger, calls, executions, stored, writers, crashes>>
    BY DEF EnginesRaise, store, history
  <1>3. /\ pc' \in [Actors -> Places] /\ work' \in [Actors -> Work] /\ LocalsOK'
        /\ pc'[h] = "idle"
        /\ \A b \in Actors \ {h} : pc'[b] = pc[b] /\ work'[b] = work[b]
    BY <1>1, Returns
  <1>4. RequestInv(h)'
    BY <1>3 DEF RequestInv
  <1> QED BY <1>2, <1>3, <1>4, QuietStep DEF IInv, TypeOK

LEMMA RegisterExperimentKeeps ==
  ASSUME IInv, NEW h \in Handlers, RegisterExperiment(h)
  PROVE  IInv'
  <1>1. /\ h \in Actors /\ pc[h] = "register" /\ Return(h)
        /\ table' = Registered(Call(h), "proposed")
    BY DEF Actors, RegisterExperiment
  <1>2. UNCHANGED <<repository, disk, mem, obs, ledger, calls, executions, stored, writers, crashes>>
    BY DEF RegisterExperiment, store, history
  <1>3. work[h].call \in Calls /\ Sources(Call(h)) \subseteq repository
    BY <1>1 DEF IInv, RequestInv, LocalsOK, LocalOK
  <1>4. /\ pc' \in [Actors -> Places] /\ work' \in [Actors -> Work] /\ LocalsOK'
        /\ pc'[h] = "idle"
        /\ \A b \in Actors \ {h} : pc'[b] = pc[b] /\ work'[b] = work[b]
    BY <1>1, Returns
  <1>5. RequestInv(h)'
    BY <1>4 DEF RequestInv
  <1> QED BY <1>1, <1>2, <1>3, <1>4, <1>5, RegisterStep

LEMMA ExecuteKeeps ==
  ASSUME IInv, NEW h \in Handlers, Execute(h)
  PROVE  IInv'
  <1>1. h \in Actors /\ Goto(h, "record") /\ executions < MaxExecutions /\ executions' = executions + 1
    BY DEF Actors, Execute
  <1>2. UNCHANGED <<repository, disk, mem, table, obs, ledger, calls, stored, writers, crashes>>
    BY DEF Execute, store
  <1>3. PICK e \in Calls, kinds \in SUBSET Kinds :
          /\ table[e] # "absent"
          /\ work' = [work EXCEPT ![h] = [NoWork EXCEPT !.call = e, !.kinds = kinds]]
    BY DEF Execute
  <1> DEFINE locals == [NoWork EXCEPT !.call = e, !.kinds = kinds]
  <1>4. NoWork \in Work /\ e \in 0..MaxCalls
    BY FlowsAssumption DEF NoWork, Work, Findings, Calls
  <1>5. locals \in Work /\ locals.call = e
    BY <1>4 DEF Work
  <1>6. LocalOK(h, "record", locals)
    <2> HIDE DEF locals
    <2> QED BY <1>5, FlowsAssumption DEF LocalOK
  <1>7. /\ pc' \in [Actors -> Places] /\ work' \in [Actors -> Work] /\ LocalsOK'
        /\ pc'[h] = "record" /\ work'[h] = locals
        /\ \A b \in Actors \ {h} : pc'[b] = pc[b] /\ work'[b] = work[b]
    <2>1. pc' = [pc EXCEPT ![h] = "record"] /\ work' = [work EXCEPT ![h] = locals]
      BY <1>1, <1>3 DEF Goto
    <2> HIDE DEF locals
    <2> QED BY <1>1, <1>5, <1>6, <2>1, Changes DEF Places
  <1> HIDE DEF locals
  <1>8. RequestInv(h)'
    BY <1>2, <1>3, <1>5, <1>7 DEF RequestInv, Call
  <1>9. executions' \in 0..MaxExecutions
    BY <1>1, FlowsAssumption DEF IInv, TypeOK
  <1> QED BY <1>2, <1>7, <1>8, <1>9, QuietStep DEF IInv, TypeOK

LEMMA RecordObservationKeeps ==
  ASSUME IInv, NEW h \in Handlers, RecordObservation(h)
  PROVE  IInv'
  <1>1. h \in Actors /\ pc[h] = "record"
    BY DEF Actors, RecordObservation
  <1>2. UNCHANGED <<repository, disk, mem, table, ledger, pc, calls, executions, stored, writers, crashes>>
    BY DEF RecordObservation, store, history
  <1>3. PICK k \in work[h].kinds :
          /\ obs' = [obs EXCEPT ![Call(h)] = obs[Call(h)] \union {k}]
          /\ work' = [work EXCEPT ![h] = [work[h] EXCEPT !.kinds = work[h].kinds \ {k}]]
    BY DEF RecordObservation
  <1> DEFINE locals == [work[h] EXCEPT !.kinds = work[h].kinds \ {k}]
  <1>4. work[h] \in Work /\ k \in Kinds /\ pc \in [Actors -> Places]
    BY <1>1, <1>3 DEF IInv, TypeOK, Work
  <1>5. locals \in Work /\ locals.call = work[h].call
    BY <1>4 DEF Work
  <1>6. work[h].call \in Calls /\ table[Call(h)] # "absent"
    BY <1>1 DEF IInv, LocalsOK, LocalOK, RequestInv
  <1>7. LocalOK(h, "record", locals)
    <2> HIDE DEF locals
    <2> QED BY <1>5, <1>6, FlowsAssumption DEF LocalOK
  <1>8. /\ pc' \in [Actors -> Places] /\ work' \in [Actors -> Work] /\ LocalsOK'
        /\ pc'[h] = "record" /\ work'[h] = locals
        /\ \A b \in Actors \ {h} : pc'[b] = pc[b] /\ work'[b] = work[b]
    <2>1. pc' = [pc EXCEPT ![h] = "record"] /\ work' = [work EXCEPT ![h] = locals]
      BY <1>1, <1>2, <1>3, <1>4
    <2> HIDE DEF locals
    <2> QED BY <1>1, <1>5, <1>7, <2>1, Changes DEF Places
  <1> HIDE DEF locals
  <1>9. RequestInv(h)'
    BY <1>2, <1>5, <1>6, <1>8 DEF RequestInv, Call
  <1>10. obs' \in [Calls -> SUBSET Kinds]
    BY <1>3, <1>4, <1>6 DEF IInv, TypeOK, Call
  <1> QED BY <1>2, <1>8, <1>9, <1>10, QuietStep DEF IInv, TypeOK

LEMMA FetchKeeps ==
  ASSUME IInv, NEW h \in Handlers, Fetch(h)
  PROVE  IInv'
  <1>1. h \in Actors /\ pc[h] = "record"
    BY DEF Actors, Fetch
  <1>2. UNCHANGED <<repository, disk, mem, table, obs, ledger, calls, executions, stored, writers, crashes>>
    BY DEF Fetch, store, history
  <1>3. /\ work[h].call \in Calls /\ work[h] \in Work
        /\ Call(h) \in Calls /\ table[Call(h)] # "absent"
    BY <1>1 DEF IInv, LocalsOK, LocalOK, RequestInv, TypeOK, Call
  <1>4. CASE table[Call(h)] \in Final
    <2>1. Return(h)
      BY <1>4 DEF Fetch
    <2>2. /\ pc' \in [Actors -> Places] /\ work' \in [Actors -> Work] /\ LocalsOK'
          /\ pc'[h] = "idle"
          /\ \A b \in Actors \ {h} : pc'[b] = pc[b] /\ work'[b] = work[b]
      BY <1>1, <2>1, Returns
    <2>3. RequestInv(h)'
      BY <2>2 DEF RequestInv
    <2> QED BY <1>2, <2>2, <2>3, QuietStep DEF IInv, TypeOK
  <1>5. CASE table[Call(h)] \notin Final
    <2> DEFINE locals == [work[h] EXCEPT !.object = table[Call(h)]]
    <2>1. pc' = [pc EXCEPT ![h] = "collect"] /\ work' = [work EXCEPT ![h] = locals]
      BY <1>5 DEF Fetch, Goto
    <2>2. table[Call(h)] \in {"absent", "proposed", "awaiting"} \union Final
      BY <1>3 DEF IInv, TypeOK
    <2>3. locals \in Work /\ locals.call = work[h].call /\ locals.object = table[Call(h)]
      BY <1>3, <2>2 DEF Work
    <2> HIDE DEF locals
    <2>4. LocalOK(h, "collect", locals)
      BY <1>3, <2>3, FlowsAssumption DEF LocalOK
    <2>5. /\ pc' \in [Actors -> Places] /\ work' \in [Actors -> Work] /\ LocalsOK'
          /\ pc'[h] = "collect" /\ work'[h] = locals
          /\ \A b \in Actors \ {h} : pc'[b] = pc[b] /\ work'[b] = work[b]
      BY <1>1, <2>1, <2>3, <2>4, Changes DEF Places
    <2>6. RequestInv(h)'
      BY <1>2, <1>3, <2>3, <2>5 DEF RequestInv, Call
    <2> QED BY <1>2, <2>5, <2>6, QuietStep DEF IInv, TypeOK
  <1> QED BY <1>4, <1>5

LEMMA CollectKeeps ==
  ASSUME IInv, NEW h \in Handlers, Collect(h)
  PROVE  IInv'
  <1>1. /\ h \in Actors /\ pc[h] = "collect" /\ Goto(h, "query")
        /\ table' = Registered(Call(h), work[h].object)
    BY DEF Actors, Collect
  <1>2. UNCHANGED <<repository, disk, mem, obs, ledger, work, calls, executions, stored, writers, crashes>>
    BY DEF Collect, store, history
  <1>3. /\ work[h].call \in Calls /\ work[h] \in Work /\ Call(h) \in Calls
        /\ work[h].object # "absent" /\ table[Call(h)] # "absent"
    BY <1>1 DEF IInv, LocalsOK, LocalOK, RequestInv, TypeOK, Call
  <1>4. work[h].object \in {"proposed", "awaiting"} \union Final
    BY <1>3 DEF Work
  <1>5. Sources(Call(h)) \subseteq repository
    BY <1>3 DEF IInv, ExperimentRestsOnKnowledge
  <1>6. LocalOK(h, "query", work[h])
    BY <1>3, FlowsAssumption DEF LocalOK
  <1>7. /\ pc' \in [Actors -> Places] /\ work' \in [Actors -> Work] /\ LocalsOK'
        /\ pc'[h] = "query" /\ work'[h] = work[h]
        /\ \A b \in Actors \ {h} : pc'[b] = pc[b] /\ work'[b] = work[b]
    BY <1>1, <1>2, <1>6, Goes DEF Places
  <1>8. table'[Call(h)] # "absent"
    BY <1>1, <1>3, <1>4, RegisteredEffect DEF IInv
  <1>9. RequestInv(h)'
    BY <1>7, <1>8 DEF RequestInv, Call
  <1> QED BY <1>1, <1>2, <1>3, <1>4, <1>5, <1>7, <1>9, RegisterStep

LEMMA QueryKeeps ==
  ASSUME IInv, NEW h \in Handlers, Query(h)
  PROVE  IInv'
  <1>1. h \in Actors /\ pc[h] = "query"
    BY DEF Actors, Query
  <1>2. UNCHANGED <<repository, disk, mem, table, obs, ledger, calls, executions, stored, writers, crashes>>
    BY DEF Query, store, history
  <1>3. /\ work[h].call \in Calls /\ work[h] \in Work
        /\ Call(h) \in Calls /\ table[Call(h)] # "absent"
    BY <1>1 DEF IInv, LocalsOK, LocalOK, RequestInv, TypeOK, Call
  <1> DEFINE locals == [work[h] EXCEPT !.kinds = obs[Call(h)]]
  <1>4. pc' = [pc EXCEPT ![h] = "evaluate"] /\ work' = [work EXCEPT ![h] = locals]
    BY DEF Query, Goto
  <1>5. locals \in Work /\ locals.call = work[h].call
    <2>1. obs[Call(h)] \in SUBSET Kinds
      BY <1>3 DEF IInv, TypeOK
    <2> QED BY <1>3, <2>1 DEF Work
  <1> HIDE DEF locals
  <1>6. LocalOK(h, "evaluate", locals)
    BY <1>3, <1>5, FlowsAssumption DEF LocalOK
  <1>7. /\ pc' \in [Actors -> Places] /\ work' \in [Actors -> Work] /\ LocalsOK'
        /\ pc'[h] = "evaluate" /\ work'[h] = locals
        /\ \A b \in Actors \ {h} : pc'[b] = pc[b] /\ work'[b] = work[b]
    BY <1>1, <1>4, <1>5, <1>6, Changes DEF Places
  <1>8. RequestInv(h)'
    BY <1>2, <1>3, <1>5, <1>7 DEF RequestInv, Call
  <1> QED BY <1>2, <1>7, <1>8, QuietStep DEF IInv, TypeOK

LEMMA EvaluateKeeps ==
  ASSUME IInv, NEW h \in Handlers, Evaluate(h)
  PROVE  IInv'
  <1>1. /\ h \in Actors /\ pc[h] = "evaluate" /\ Return(h)
    BY DEF Actors, Evaluate
  <1>2. UNCHANGED <<repository, disk, mem, obs, ledger, calls, executions, stored, writers, crashes>>
    BY DEF Evaluate, store, history
  <1>3. work[h].call \in Calls /\ Sources(Call(h)) \subseteq repository
    BY <1>1 DEF IInv, LocalsOK, LocalOK, RequestInv, Call, ExperimentRestsOnKnowledge
  <1>4. PICK verdict \in {"proposed", "awaiting"} \union Final :
          table' = Registered(Call(h), verdict)
    BY DEF Evaluate, Verdicts, Final
  <1>5. /\ pc' \in [Actors -> Places] /\ work' \in [Actors -> Work] /\ LocalsOK'
        /\ pc'[h] = "idle"
        /\ \A b \in Actors \ {h} : pc'[b] = pc[b] /\ work'[b] = work[b]
    BY <1>1, Returns
  <1>6. RequestInv(h)'
    BY <1>5 DEF RequestInv
  <1> QED BY <1>1, <1>2, <1>3, <1>4, <1>5, <1>6, RegisterStep

-----------------------------------------------------------------------------
(* The steps of a pipeline *)

LEMMA StartPipelineKeeps ==
  ASSUME IInv, NEW p \in Pipelines, StartPipeline(p)
  PROVE  IInv'
  <1>1. p \in Actors /\ p \notin Handlers
    BY FlowsAssumption DEF Actors
  <1>2. PICK found \in Findings : Begin(p, "advance", found)
    BY DEF StartPipeline
  <1>3. UNCHANGED <<repository, disk, mem, table, obs, ledger, executions, stored, writers, crashes>>
    BY <1>2 DEF StartPipeline, Begin, store
  <1>4. /\ pc' \in [Actors -> Places] /\ work' \in [Actors -> Work] /\ LocalsOK'
        /\ \A b \in Actors \ {p} : pc'[b] = pc[b] /\ work'[b] = work[b]
        /\ calls' \in 0..MaxCalls
    BY <1>1, <1>2, Begins
  <1> QED BY <1>1, <1>3, <1>4, QuietStep DEF IInv, TypeOK

LEMMA AdvanceKeeps ==
  ASSUME IInv, NEW p \in Pipelines, Advance(p)
  PROVE  IInv'
  <1>1. p \in Actors /\ p \notin Handlers /\ p \notin Loops /\ pc[p] = "advance"
    BY FlowsAssumption DEF Actors, Advance
  <1>2. UNCHANGED <<repository, disk, mem, table, obs, calls, executions, stored, writers, crashes>>
    BY DEF Advance, store, history
  <1>3. /\ work[p].stage \in 1..8 /\ work[p].call \in Calls /\ work[p] \in Work
        /\ pc \in [Actors -> Places]
    BY <1>1 DEF IInv, LocalsOK, LocalOK, TypeOK
  <1>4. ledger' \in [Pipelines -> SUBSET Record]
    <2> DEFINE parents == Parent(Call(p), ledger[p], work[p].stage)
               record == [call |-> Call(p), type |-> Types[work[p].stage], parents |-> parents]
    <2>1. parents \subseteq Calls \X {Types[i] : i \in 1..8}
      <3> DEFINE before(j) == /\ <<Call(p), Types[j]>> \in Subjects(ledger[p])
                              /\ \A k \in (j + 1)..(work[p].stage - 1) :
                                   <<Call(p), Types[k]>> \notin Subjects(ledger[p])
                 chosen == {j \in 1..(work[p].stage - 1) : before(j)}
      <3>1. parents = {<<Call(p), Types[i]>> : i \in chosen}
        BY DEF Parent
      <3> HIDE DEF before
      <3>2. chosen \subseteq 1..8
        BY <1>3
      <3> HIDE DEF parents, chosen
      <3> QED BY <1>3, <3>1, <3>2 DEF Call
    <2>2. record \in Record
      BY <1>3, <2>1 DEF Record, Call
    <2>3. ledger' = ledger \/ ledger' = [ledger EXCEPT ![p] = ledger[p] \union {record}]
      BY DEF Advance
    <2> HIDE DEF record
    <2>4. ledger \in [Pipelines -> SUBSET Record]
      BY DEF IInv, TypeOK
    <2> QED BY <2>2, <2>3, <2>4
  <1>5. /\ pc' \in [Actors -> Places] /\ work' \in [Actors -> Work] /\ LocalsOK'
        /\ \A b \in Actors \ {p} : pc'[b] = pc[b] /\ work'[b] = work[b]
    <2>1. CASE work[p].stage = Len(Types)
      <3>1. Return(p)
        BY <2>1 DEF Advance
      <3> QED BY <1>1, <3>1, Returns
    <2>2. CASE work[p].stage # Len(Types)
      <3> DEFINE locals == [work[p] EXCEPT !.stage = work[p].stage + 1]
      <3>1. work' = [work EXCEPT ![p] = locals] /\ pc' = pc
        BY <2>2 DEF Advance
      <3>2. pc' = [pc EXCEPT ![p] = "advance"]
        BY <1>1, <1>3, <3>1
      <3>3. work[p].stage + 1 \in 1..8
        BY <1>3, <2>2 DEF Types
      <3>4. locals \in Work /\ locals.stage = work[p].stage + 1 /\ locals.call = work[p].call
        BY <1>3, <3>3 DEF Work
      <3>5. LocalOK(p, "advance", locals)
        <4> HIDE DEF locals
        <4> QED BY <1>1, <1>3, <3>3, <3>4 DEF LocalOK
      <3> HIDE DEF locals
      <3> QED BY <1>1, <3>1, <3>2, <3>4, <3>5, Changes DEF Places
    <2> QED BY <2>1, <2>2
  <1> QED BY <1>1, <1>2, <1>4, <1>5, QuietStep DEF IInv, TypeOK

-----------------------------------------------------------------------------
(* Crashes, and the invariant *)

LEMMA CrashKeeps ==
  ASSUME IInv, NEW a \in Actors, Crash(a)
  PROVE  IInv'
  <1>1. UNCHANGED <<repository, disk, table, obs, calls, executions, stored, writers>>
    BY DEF Crash
  <1>2. /\ mem' = [l \in Loops |-> IF l = a THEN NoState ELSE mem[l]]
        /\ ledger' = [p \in Pipelines |-> IF p = a THEN {} ELSE ledger[p]]
        /\ crashes' \in 0..MaxCrashes
    BY FlowsAssumption DEF Crash, IInv, TypeOK
  <1>3. NoWork \in Work /\ NoState \in EngineState
    BY FlowsAssumption DEF NoWork, Work, Findings, NoState, EngineState
  <1> DEFINE place == IF a \in Loops THEN "load" ELSE "idle"
  <1>4. /\ pc' \in [Actors -> Places] /\ work' \in [Actors -> Work] /\ LocalsOK'
        /\ pc'[a] = place /\ work'[a] = NoWork
        /\ \A b \in Actors \ {a} : pc'[b] = pc[b] /\ work'[b] = work[b]
    <2>1. pc' = [pc EXCEPT ![a] = place] /\ work' = [work EXCEPT ![a] = NoWork]
      BY DEF Crash, Goto
    <2>2. place \in Places /\ LocalOK(a, place, NoWork)
      BY DEF Places, LocalOK
    <2> QED BY <1>3, <2>1, <2>2, Changes
  <1>5. mem' \in [Loops -> EngineState] /\ ledger' \in [Pipelines -> SUBSET Record]
    BY <1>2, <1>3 DEF IInv, TypeOK
  <1>6. CASE a \in Loops
    <2>1. pc'[a] = "load" /\ mem'[a] = NoState
      BY <1>2, <1>4, <1>6
    <2>2. TypeOK'
      BY <1>1, <1>2, <1>4, <1>5 DEF IInv, TypeOK
    <2>3. LoopInv(a)'
      BY <2>1 DEF LoopInv, Past, NoState
    <2>4. AloneInv(a)'
      BY <1>1, <1>6, <2>1 DEF IInv, AloneInv, NoState, Loading
    <2>5. stored' \subseteq repository' /\ \A n \in disk'.experiments : Lesson(n) \in repository'
      BY <1>1 DEF IInv, ExperimentRestsOnKnowledge
    <2>6. Beside(a)
      BY <1>2, <1>4 DEF Beside
    <2> QED BY <1>1, <1>4, <1>6, <2>2, <2>3, <2>4, <2>5, <2>6, LoopStep
  <1>7. CASE a \notin Loops
    <2>1. pc'[a] = "idle" /\ a \in Handlers \union Pipelines
      BY <1>4, <1>7 DEF Actors
    <2>2. mem' = mem
      BY <1>2, <1>7 DEF IInv, TypeOK
    <2>3. RequestInv(a)'
      BY <2>1 DEF RequestInv
    <2>4. UNCHANGED <<repository, disk, mem, table, stored, writers>>
      BY <1>1, <2>2
    <2> HIDE DEF place
    <2> QED BY <1>1, <1>2, <1>4, <1>5, <2>1, <2>3, <2>4, QuietStep DEF IInv, TypeOK
  <1> QED BY <1>6, <1>7

LEMMA InitIInv == Init => IInv
  <1> SUFFICES ASSUME Init PROVE IInv
    OBVIOUS
  <1>1. NoWork \in Work /\ NoState \in EngineState /\ "idle" \in Places
    BY FlowsAssumption DEF NoWork, Work, Findings, NoState, EngineState, Places
  <1>2. TypeOK
    BY <1>1, FlowsAssumption DEF Init, TypeOK
  <1>3. \A l \in Loops : LoopInv(l) /\ AloneInv(l)
    BY DEF Init, LoopInv, AloneInv, Past, NoState, Loading, Actors
  <1>4. \A h \in Handlers : RequestInv(h)
    BY DEF Init, RequestInv, Actors
  <1>5. LocalsOK
    BY DEF Init, LocalsOK, LocalOK
  <1>6. ExperimentRestsOnKnowledge /\ stored \subseteq repository /\ disk.opportunities = {}
    BY DEF Init, ExperimentRestsOnKnowledge, NoState
  <1>7. IsFiniteSet(writers)
    BY FS_EmptySet DEF Init
  <1> QED BY <1>2, <1>3, <1>4, <1>5, <1>6, <1>7 DEF IInv

LEMMA NextIInv == IInv /\ [Next]_vars => IInv'
  <1> SUFFICES ASSUME IInv, [Next]_vars PROVE IInv'
    OBVIOUS
  <1>1. ASSUME NEW l \in Loops, Cycle(l) PROVE IInv'
    BY <1>1, StartCycleKeeps, StageKeeps, StageRaisesKeeps, WriteKnowledgeKeeps, PutItemKeeps,
       WriteExperimentsKeeps, WriteOpportunitiesKeeps, LoadsKeep DEF Cycle
  <1>2. ASSUME NEW h \in Handlers, Serve(h) PROVE IInv'
    BY <1>2, ResearchKeeps, KeepSourceKeeps, ResearchReturnsKeeps, EnginesReturnKeeps,
       EnginesRaiseKeeps, RegisterExperimentKeeps, ExecuteKeeps, RecordObservationKeeps,
       FetchKeeps, CollectKeeps, QueryKeeps, EvaluateKeeps DEF Serve
  <1>3. ASSUME NEW p \in Pipelines, StartPipeline(p) \/ Advance(p) PROVE IInv'
    BY <1>3, StartPipelineKeeps, AdvanceKeeps
  <1>4. ASSUME NEW a \in Actors, Crash(a) PROVE IInv'
    BY <1>4, CrashKeeps
  <1>5. CASE UNCHANGED vars
    <2>1. UNCHANGED <<repository, disk, mem, table, obs, ledger, pc, work,
                      calls, executions, stored, writers, crashes>>
      BY <1>5 DEF vars, store, history
    <2>2. TypeOK' /\ LocalsOK' /\ ExperimentRestsOnKnowledge'
      BY <2>1 DEF IInv, TypeOK, LocalsOK, LocalOK, ExperimentRestsOnKnowledge
    <2>3. \A l \in Loops : LoopInv(l)' /\ AloneInv(l)'
      BY <2>1 DEF IInv, LoopInv, AloneInv, Past, Call
    <2>4. \A h \in Handlers : RequestInv(h)'
      BY <2>1 DEF IInv, RequestInv, Call
    <2> QED BY <2>1, <2>2, <2>3, <2>4 DEF IInv
  <1> QED BY <1>1, <1>2, <1>3, <1>4, <1>5 DEF Next

\* What actors hold between their writes agrees with the rows and the repository in
\* every reachable state (the property the others follow from).
THEOREM Invariance == Spec => []IInv
  BY InitIInv, NextIInv, PTL DEF Spec

\* Types: no step of any actor, and no crash, leaves them.
THEOREM TypeCorrect == Spec => []TypeOK
  <1>1. IInv => TypeOK
    BY DEF IInv
  <1> QED BY <1>1, Invariance, PTL

\* Whatever the loops, the requests and the crashes between their writes: a durable
\* experiment has its lesson, or its evidence, in the repository.
THEOREM ExperimentsRestOnKnowledge == Spec => []ExperimentRestsOnKnowledge
  <1>1. IInv => ExperimentRestsOnKnowledge
    BY DEF IInv
  <1> QED BY <1>1, Invariance, PTL

\* A durable opportunity lacks its experiment only after two loops have written.
THEOREM DanglingTakesTwoWriters == Spec => []DanglingNeedsTwoWriters
  <1>1. ASSUME IInv PROVE DanglingNeedsTwoWriters
    <2>1. CASE writers = {}
      BY <1>1, <2>1 DEF IInv, DanglingNeedsTwoWriters
    <2>2. CASE \E l \in Loops : writers = {l}
      BY <1>1, <2>2 DEF IInv, AloneInv, DanglingNeedsTwoWriters
    <2>3. CASE writers # {} /\ \A l \in Loops : writers # {l}
      <3>1. IsFiniteSet(writers) /\ writers \subseteq Loops
        BY <1>1 DEF IInv, TypeOK
      <3>2. PICK k \in writers, l \in writers : k # l
        BY <2>3, <3>1
      <3>3. IsFiniteSet({k, l}) /\ Cardinality({k, l}) = 2
        <4>1. IsFiniteSet({k}) /\ Cardinality({k}) = 1
          BY FS_Singleton
        <4>2. {k, l} = {k} \union {l} /\ l \notin {k}
          BY <3>2
        <4> QED BY <4>1, <4>2, FS_AddElement
      <3>4. Cardinality({k, l}) <= Cardinality(writers)
        BY <3>1, FS_Subset
      <3>5. Cardinality(writers) \in Nat
        BY <3>1, FS_CardinalityType
      <3> QED BY <3>3, <3>4, <3>5 DEF DanglingNeedsTwoWriters
    <2> QED BY <2>1, <2>2, <2>3
  <1> QED BY <1>1, Invariance, PTL

\* A result on record stays there: only register_experiment writes rows.
LEMMA RegisteredKeeps ==
  ASSUME TypeOK, NEW e, NEW status, table' = Registered(e, status),
         NEW n \in Calls, table[n] \in Final
  PROVE  table'[n] = table[n]
  BY DEF TypeOK, Registered

\* However many requests execute an experiment, and in whatever order they register,
\* collect and evaluate, the first result is the result.
THEOREM FirstResultsStay == Spec => FirstResultStays
  <1>1. ASSUME IInv, [Next]_vars, NEW e \in Calls, table[e] \in Final
        PROVE  table'[e] = table[e]
    <2>1. ASSUME NEW l \in Loops, Cycle(l) PROVE table' = table
      BY <2>1 DEF Cycle, StartCycle, Stage, StageRaises, WriteKnowledge, PutItem, WriteExperiments,
                  WriteOpportunities, Writes, LoadKnowledge, SearchRepository, LoadExperiments,
                  LoadOpportunities, Load
    <2>2. ASSUME NEW h \in Handlers, Serve(h)
          PROVE  table' = table \/ \E n, status : table' = Registered(n, status)
      BY <2>2 DEF Serve, Research, KeepSource, ResearchReturns, EnginesReturn, EnginesRaise,
                  RegisterExperiment, Execute, RecordObservation, Fetch, Collect, Query, Evaluate
    <2>3. ASSUME NEW p \in Pipelines, StartPipeline(p) \/ Advance(p) PROVE table' = table
      BY <2>3 DEF StartPipeline, Advance
    <2>4. ASSUME NEW a \in Actors, Crash(a) PROVE table' = table
      BY <2>4 DEF Crash
    <2>5. CASE UNCHANGED vars
      BY <2>5 DEF vars
    <2>6. TypeOK
      BY <1>1 DEF IInv
    <2>7. CASE Next
      BY <1>1, <2>1, <2>2, <2>3, <2>4, <2>6, <2>7, RegisteredKeeps DEF Next
    <2> QED BY <1>1, <2>5, <2>7
  <1>2. IInv /\ [Next]_vars => [\A e \in Calls : table[e] \in Final => table'[e] = table[e]]_vars
    BY <1>1
  <1> QED BY <1>2, Invariance, PTL DEF Spec, FirstResultStays

\* A loop that comes to the experiments has searched the repository in that step.
LEMMA OnlySearchesLeave ==
  ASSUME IInv, [Next]_vars, NEW l \in Loops, pc[l] = "search", pc'[l] = "loadExperiments"
  PROVE  SearchRepository(l)
  <1>1. pc \in [Actors -> Places] /\ l \in Actors /\ l \notin Handlers /\ l \notin Pipelines
    BY FlowsAssumption DEF IInv, TypeOK, Actors
  <1>2. \A a \in Actors \ {l} : \A place : Goto(a, place) => pc'[l] = pc[l]
    BY <1>1 DEF Goto
  <1>3. ASSUME NEW k \in Loops, Cycle(k), k # l PROVE FALSE
    <2>1. pc' = pc \/ \E place : Goto(k, place)
      BY <1>3 DEF Cycle, StartCycle, Begin, Stage, StageRaises, Return, WriteKnowledge, PutItem,
                  WriteExperiments, WriteOpportunities, LoadKnowledge, SearchRepository,
                  LoadExperiments, LoadOpportunities, Load
    <2> QED BY <1>2, <1>3, <2>1 DEF Actors
  <1>4. ASSUME NEW h \in Handlers, Serve(h) PROVE FALSE
    <2>1. pc' = pc \/ \E place : Goto(h, place)
      BY <1>4 DEF Serve, Research, Begin, KeepSource, ResearchReturns, EnginesReturn, EnginesRaise,
                  Return, RegisterExperiment, Execute, RecordObservation, Fetch, Collect, Query, Evaluate
    <2> QED BY <1>1, <1>2, <2>1 DEF Actors
  <1>5. ASSUME NEW p \in Pipelines, StartPipeline(p) \/ Advance(p) PROVE FALSE
    <2>1. pc' = pc \/ \E place : Goto(p, place)
      BY <1>5 DEF StartPipeline, Begin, Advance, Return
    <2> QED BY <1>1, <1>2, <2>1 DEF Actors
  <1>6. ASSUME NEW a \in Actors, Crash(a) PROVE FALSE
    <2>1. CASE a = l
      <3>1. pc'[l] \in {"load", "idle"}
        BY <1>1, <1>6, <2>1 DEF Crash, Goto
      <3> QED BY <3>1
    <2>2. CASE a # l
      BY <1>2, <1>6, <2>2 DEF Crash
    <2> QED BY <2>1, <2>2
  <1>7. ASSUME Cycle(l), ~SearchRepository(l) PROVE FALSE
    <2>1. CASE PutItem(l)
      BY <2>1 DEF PutItem
    <2>2. CASE ~PutItem(l)
      BY <1>7, <2>2 DEF Cycle, StartCycle, Begin, Stage, StageRaises, WriteKnowledge, WriteExperiments,
                        WriteOpportunities, LoadKnowledge, LoadExperiments, LoadOpportunities, Load
    <2> QED BY <2>1, <2>2
  <1>8. pc' # pc
    OBVIOUS
  <1>9. CASE Next
    BY <1>3, <1>4, <1>5, <1>6, <1>7, <1>9 DEF Next
  <1> QED BY <1>8, <1>9 DEF vars

\* A loop that restarts knows everything that was stored when it read the repository.
THEOREM RestartsForgetNothing == Spec => RestartForgetsNothing
  <1>1. ASSUME IInv, [Next]_vars, NEW l \in Loops, pc[l] = "search", pc'[l] = "loadExperiments"
        PROVE  stored \subseteq mem'[l].knowledge
    <2>1. SearchRepository(l)
      BY <1>1, OnlySearchesLeave
    <2>2. Merged(l) \subseteq Items /\ stored \subseteq Merged(l)
      BY <1>1 DEF IInv, TypeOK, EngineState, Merged
    <2>3. mem'[l].knowledge = Merged(l)
      BY <1>1, <2>1, <2>2, LoadEffect DEF SearchRepository, IInv
    <2> QED BY <2>2, <2>3
  <1>2. IInv /\ [Next]_vars =>
          [\A l \in Loops :
             pc[l] = "search" /\ pc'[l] = "loadExperiments" => stored \subseteq mem'[l].knowledge]_vars
    BY <1>1
  <1> QED BY <1>2, Invariance, PTL DEF Spec, RestartForgetsNothing

-----------------------------------------------------------------------------
(* Lineages *)

\* A set of naturals that is not empty has a least member.
LEMMA LeastNumber ==
  ASSUME NEW S, S \subseteq Nat, S # {}
  PROVE  \E m \in S : \A k \in S : m <= k
  <1> DEFINE R == OpToRel(<, Nat)
  <1>1. IsWellFoundedOn(R, Nat)
    BY NatLessThanWellFounded
  <1>2. \A x, y \in Nat : x < y => <<x, y>> \in R
    BY DEF OpToRel
  <1> HIDE DEF R
  <1>3. PICK m \in S : \A k \in S : ~ (<<k, m>> \in R)
    BY <1>1, WFMin
  <1>4. \A k \in S : ~ (k < m)
    BY <1>2, <1>3
  <1> QED BY <1>4

\* Induction over a set of naturals.
LEMMA NatSetInduction ==
  ASSUME NEW T, 0 \in T, \A n \in Nat : n \in T => n + 1 \in T
  PROVE  Nat \subseteq T
  <1> DEFINE Bad == Nat \ T
  <1> SUFFICES ASSUME Bad # {} PROVE FALSE
    OBVIOUS
  <1>1. PICK m \in Bad : \A k \in Bad : m <= k
    BY LeastNumber
  <1>2. m \in Nat /\ m \notin T /\ m # 0
    BY <1>1
  <1>3. m - 1 \in Nat /\ m - 1 \notin Bad /\ (m - 1) + 1 = m
    BY <1>1, <1>2
  <1> QED BY <1>2, <1>3

\* The function that iterates F from b.
IsIteration(f, N, b, F) == f = [k \in 0..N |-> IF k = 0 THEN b ELSE F[f[k - 1]]]

\* A function of a set into itself can be iterated.
LEMMA Iterates ==
  ASSUME NEW S, NEW F \in [S -> S], NEW b \in S, NEW N \in Nat
  PROVE  \E f \in [0..N -> S] : IsIteration(f, N, b, F)
  <1> DEFINE Good(n) == \E f \in [0..n -> S] : IsIteration(f, n, b, F)
             T == {n \in Nat : Good(n)}
  <1>1. Good(0)
    <2> DEFINE f == [k \in 0..0 |-> b]
    <2>1. f \in [0..0 -> S] /\ IsIteration(f, 0, b, F)
      BY DEF IsIteration
    <2> QED BY <2>1
  <1>2. ASSUME NEW n \in Nat, Good(n) PROVE Good(n + 1)
    <2>1. PICK f \in [0..n -> S] : f = [k \in 0..n |-> IF k = 0 THEN b ELSE F[f[k - 1]]]
      BY <1>2 DEF IsIteration
    <2> DEFINE g == [k \in 0..(n + 1) |-> IF k = n + 1 THEN F[f[n]] ELSE f[k]]
    <2>2. g \in [0..(n + 1) -> S]
      OBVIOUS
    <2>3. ASSUME NEW k \in 0..(n + 1) PROVE g[k] = IF k = 0 THEN b ELSE F[g[k - 1]]
      <3>1. CASE k = n + 1
        BY <3>1
      <3>2. CASE k \in 0..n
        BY <2>1, <3>2
      <3> QED BY <3>1, <3>2
    <2>4. IsIteration(g, n + 1, b, F)
      BY <2>2, <2>3 DEF IsIteration
    <2> QED BY <2>2, <2>4
  <1> HIDE DEF Good
  <1>3. 0 \in T /\ \A n \in Nat : n \in T => n + 1 \in T
    BY <1>1, <1>2
  <1>4. Nat \subseteq T
    <2> HIDE DEF T
    <2> QED BY <1>3, NatSetInduction
  <1> QED BY <1>4 DEF Good

\* One step back in a lineage.
Back(l, found) ==
  found \union UNION {Towards(l, parent) : parent \in UNION {r.parents : r \in found}}

\* A lineage starts with the records of its subject and goes back as many times as
\* the ledger has records.
LEMMA LineageIterates ==
  ASSUME NEW l, IsFiniteSet(l), NEW subject
  PROVE  \E f : /\ f[0] = {r \in l : <<r.call, r.type>> = subject}
                /\ \A k \in 1..Cardinality(l) : f[k] = Back(l, f[k - 1])
                /\ Lineage(l, subject) = f[Cardinality(l)]
  <1> DEFINE N == Cardinality(l)
             base == {r \in l : <<r.call, r.type>> = subject}
             Eqn(f) == f = [k \in 0..N |-> IF k = 0 THEN base
               ELSE f[k - 1] \union UNION {Towards(l, parent) :
                                             parent \in UNION {r.parents : r \in f[k - 1]}}]
             reach == CHOOSE f : Eqn(f)
             F == [X \in SUBSET l |-> Back(l, X)]
  <1>1. N \in Nat
    BY FS_CardinalityType
  <1>2. Lineage(l, subject) = reach[N]
    BY DEF Lineage
  <1>3. F \in [SUBSET l -> SUBSET l] /\ \A X \in SUBSET l : F[X] = Back(l, X)
    BY DEF Back, Towards
  <1>4. base \in SUBSET l
    OBVIOUS
  <1>5. PICK f \in [0..N -> SUBSET l] : IsIteration(f, N, base, F)
    <2> HIDE DEF F, base, N
    <2> QED BY <1>1, <1>3, <1>4, Iterates
  <1>6. Eqn(f)
    <2> HIDE DEF F, base, N
    <2>1. f = [k \in 0..N |-> IF k = 0 THEN base ELSE F[f[k - 1]]]
      BY <1>5 DEF IsIteration
    <2>2. \A k \in 0..N : k # 0 => f[k - 1] \in SUBSET l
      BY <1>1, <1>5
    <2>3. \A k \in 0..N : f[k] = IF k = 0 THEN base ELSE Back(l, f[k - 1])
      BY <1>3, <2>1, <2>2
    <2> QED BY <1>5, <2>3 DEF Back
  <1>7. Eqn(reach)
    <2> HIDE DEF Eqn
    <2> QED BY <1>6, Zenon
  <1>8. reach[0] = base /\ \A k \in 1..N : reach[k] = Back(l, reach[k - 1])
    <2> HIDE DEF reach, base, N
    <2>1. \A k \in 0..N : reach[k] = IF k = 0 THEN base ELSE Back(l, reach[k - 1])
      BY <1>7 DEF Back
    <2> QED BY <1>1, <2>1
  <1> HIDE DEF reach
  <1> QED BY <1>2, <1>8

\* Types tells the stages apart.
LEMMA TypesDiffer ==
  /\ \A i, j \in 1..8 : Types[i] = Types[j] => i = j
  /\ Types[8] = "business"
  BY DEF Types

\* The parents of each record are those of its run and its stage.
Chained(l) ==
  \A r \in l : \A i \in 1..8 : r.type = Types[i] => r.parents = Parent(r.call, l, i)

\* A run that has done its last stage has a record of each one that is not skipped.
Done(n, l) == \A i \in 1..8 : i # 2 => <<n, Types[i]>> \in Subjects(l)

\* The parent of a stage is a stage of the same run that has a record.
LEMMA ParentsAreRecorded ==
  ASSUME NEW l, NEW n, NEW i \in 1..8, NEW parent \in Parent(n, l, i)
  PROVE  \E j \in 1..8 : parent = <<n, Types[j]>> /\ parent \in Subjects(l)
  <1>1. PICK j \in 1..(i - 1) : parent = <<n, Types[j]>> /\ <<n, Types[j]>> \in Subjects(l)
    BY DEF Parent
  <1>2. j \in 1..8
    BY <1>1
  <1> QED BY <1>1, <1>2

\* The stage after one that has a record rests on it, or the one after that if the
\* academy was skipped.
LEMMA NextRestsOnIt ==
  ASSUME NEW l, NEW n, Done(n, l), NEW i \in 1..7, <<n, Types[i]>> \in Subjects(l)
  PROVE  \E j \in (i + 1)..8 : <<n, Types[j]>> \in Subjects(l) /\ <<n, Types[i]>> \in Parent(n, l, j)
  <1>1. CASE <<n, Types[i + 1]>> \in Subjects(l)
    BY <1>1 DEF Parent
  <1>2. CASE <<n, Types[i + 1]>> \notin Subjects(l)
    <2>1. i + 1 \in 1..8 /\ i + 1 = 2
      BY <1>2 DEF Done
    <2>2. i = 1 /\ <<n, Types[3]>> \in Subjects(l) /\ <<n, Types[2]>> \notin Subjects(l)
      BY <1>2, <2>1 DEF Done
    <2>3. <<n, Types[1]>> \in Parent(n, l, 3)
      BY <2>2 DEF Parent
    <2> QED BY <2>2, <2>3
  <1> QED BY <1>1, <1>2

\* Going back from records of a run leads to records of the run.
LEMMA BackStays ==
  ASSUME NEW l \in SUBSET Record, Chained(l), NEW n,
         NEW found, found \subseteq {r \in l : r.call = n}
  PROVE  Back(l, found) \subseteq {r \in l : r.call = n}
  <1> SUFFICES ASSUME NEW r \in found, NEW parent \in r.parents,
                      NEW s \in Towards(l, parent)
               PROVE  s \in l /\ s.call = n
    BY DEF Back
  <1>1. r \in l /\ r.call = n /\ r \in Record
    OBVIOUS
  <1>2. PICK i \in 1..8 : r.type = Types[i]
    BY <1>1 DEF Record
  <1>3. r.parents = Parent(n, l, i)
    BY <1>1, <1>2 DEF Chained
  <1>4. PICK j \in 1..8 : parent = <<n, Types[j]>> /\ parent \in Subjects(l)
    BY <1>3, ParentsAreRecorded
  <1>5. {q \in l : <<q.call, q.type>> = parent} # {}
    BY <1>4 DEF Subjects
  <1>6. s \in l /\ <<s.call, s.type>> = parent
    BY <1>5 DEF Towards
  <1> QED BY <1>4, <1>6

\* A run that is done has seven records, so that its lineage goes back far enough.
LEMMA SevenRecords ==
  ASSUME NEW l \in SUBSET Record, IsFiniteSet(l), NEW n, Done(n, l)
  PROVE  Cardinality(l) \in Nat /\ 7 <= Cardinality(l)
  <1> DEFINE stage(k) == IF k = 1 THEN 1 ELSE k + 1
             f == [k \in 1..7 |-> CHOOSE r \in l : <<r.call, r.type>> = <<n, Types[stage(k)]>>]
  <1>1. ASSUME NEW k \in 1..7 PROVE f[k] \in l /\ f[k].type = Types[stage(k)] /\ stage(k) \in 1..8
    <2>1. stage(k) \in 1..8 /\ stage(k) # 2
      OBVIOUS
    <2>2. \E r \in l : <<r.call, r.type>> = <<n, Types[stage(k)]>>
      BY <2>1 DEF Done, Subjects
    <2> HIDE DEF stage
    <2> QED BY <2>1, <2>2
  <1>2. ASSUME NEW j \in 1..7, NEW k \in 1..7, f[j] = f[k] PROVE j = k
    <2>1. stage(j) = stage(k)
      <3>1. Types[stage(j)] = Types[stage(k)] /\ stage(j) \in 1..8 /\ stage(k) \in 1..8
        <4> HIDE DEF stage, f
        <4> QED BY <1>1, <1>2
      <3> HIDE DEF stage
      <3> QED BY <3>1, TypesDiffer
    <2> QED BY <2>1
  <1>3. f \in Injection(1..7, l)
    <2>1. f \in [1..7 -> l]
      <3> HIDE DEF stage
      <3> QED BY <1>1
    <2> HIDE DEF f
    <2> QED BY <1>2, <2>1 DEF Injection, IsInjective
  <1>4. Cardinality(1..7) = 7
    <2>1. 1 \in Int /\ 7 \in Int /\ ~ (1 > 7) /\ 7 - 1 + 1 = 7
      OBVIOUS
    <2> QED BY <2>1, FS_Interval
  <1>5. Cardinality(1..7) <= Cardinality(l) /\ Cardinality(l) \in Nat
    BY <1>3, FS_Injection, FS_CardinalityType
  <1> QED BY <1>4, <1>5

\* The lineage of the last record of a run is the whole run, and nothing else.
LEMMA LineageOfARun ==
  ASSUME NEW l \in SUBSET Record, IsFiniteSet(l), Chained(l), NEW n, Done(n, l)
  PROVE  Subjects(Lineage(l, <<n, "business">>)) = {s \in Subjects(l) : s[1] = n}
  <1> DEFINE N == Cardinality(l)
             run == {r \in l : r.call = n}
  <1>1. N \in Nat /\ 7 <= N
    BY SevenRecords
  <1>2. PICK f : /\ f[0] = {r \in l : <<r.call, r.type>> = <<n, "business">>}
                 /\ \A k \in 1..N : f[k] = Back(l, f[k - 1])
                 /\ Lineage(l, <<n, "business">>) = f[N]
    BY LineageIterates
  <1> DEFINE Within(k) == k <= N => f[k] \subseteq run
             Reaches(k) ==
               k <= N => \A r \in run : \A i \in 1..8 : r.type = Types[i] /\ 8 <= i + k => r \in f[k]
             T == {k \in Nat : Within(k) /\ Reaches(k)}
  <1> HIDE DEF N
  <1>3. 0 \in T
    <2>1. Within(0)
      BY <1>2
    <2>2. Reaches(0)
      BY <1>2, TypesDiffer
    <2> QED BY <2>1, <2>2
  <1>4. ASSUME NEW k \in Nat, k \in T PROVE k + 1 \in T
    <2>1. CASE ~ (k + 1 <= N)
      BY <2>1
    <2>2. CASE k + 1 <= N
      <3>1. f[k + 1] = Back(l, f[k]) /\ f[k] \subseteq run /\ Reaches(k) /\ k <= N
        BY <1>1, <1>2, <1>4, <2>2
      <3>2. Within(k + 1)
        <4>1. Back(l, f[k]) \subseteq run
          <5>1. f[k] \subseteq run
            BY <3>1
          <5> QED BY ONLY <5>1, BackStays, Chained(l), l \in SUBSET Record
        <4>2. f[k + 1] \subseteq run
          BY <3>1, <4>1
        <4> QED BY <4>2
      <3>3. ASSUME NEW r \in run, NEW i \in 1..8, r.type = Types[i], 8 <= i + (k + 1)
            PROVE  r \in f[k + 1]
        <4>1. CASE 8 <= i + k
          BY <3>1, <3>3, <4>1 DEF Back
        <4>2. CASE ~ (8 <= i + k)
          <5>1. i \in 1..7 /\ i + (k + 1) = 8
            BY <3>3, <4>2
          <5>2. <<n, Types[i]>> \in Subjects(l)
            BY <3>3 DEF Subjects
          <5>3. PICK j \in (i + 1)..8 : /\ <<n, Types[j]>> \in Subjects(l)
                                        /\ <<n, Types[i]>> \in Parent(n, l, j)
            BY <5>1, <5>2, NextRestsOnIt
          <5>4. PICK s \in l : s.call = n /\ s.type = Types[j]
            BY <5>3 DEF Subjects
          <5>5. j \in 1..8 /\ 8 <= j + k
            BY <5>1, <5>3
          <5>6. s \in f[k]
            BY <3>1, <5>4, <5>5
          <5>7. <<n, Types[i]>> \in s.parents
            BY <5>3, <5>4, <5>5 DEF Chained
          <5>8. r \in Towards(l, <<n, Types[i]>>)
            BY <3>3 DEF Towards
          <5> QED BY <3>1, <5>6, <5>7, <5>8 DEF Back
        <4> QED BY <4>1, <4>2
      <3>4. Reaches(k + 1)
        BY <3>3
      <3> HIDE DEF Within, Reaches
      <3> QED BY <3>2, <3>4
    <2> QED BY <2>1, <2>2
  <1>5. Nat \subseteq T
    <2> HIDE DEF T
    <2> QED BY <1>3, <1>4, NatSetInduction
  <1>6. f[N] \subseteq run /\ \A r \in run : \A i \in 1..8 : r.type = Types[i] => r \in f[N]
    BY <1>1, <1>5
  <1>7. \A r \in run : \E i \in 1..8 : r.type = Types[i]
    BY DEF Record
  <1>8. f[N] = run
    BY <1>6, <1>7
  <1>9. Subjects(run) = {s \in Subjects(l) : s[1] = n}
    BY DEF Subjects
  <1> QED BY <1>2, <1>8, <1>9

-----------------------------------------------------------------------------
(* Pipelines *)

\* The ledger of a pipeline: what it has of earlier runs is whole, and of its run
\* the stages that are behind it.
RunInv(p) ==
  LET l == ledger[p] IN
  /\ IsFiniteSet(l)
  /\ Chained(l)
  /\ \A r \in l : r.call <= calls
  /\ \A n \in Calls : <<n, "business">> \in Subjects(l) => Done(n, l)
  /\ pc[p] = "advance" =>
       /\ Call(p) <= calls
       /\ \A i \in 1..8 : /\ i >= work[p].stage => <<Call(p), Types[i]>> \notin Subjects(l)
                          /\ i < work[p].stage /\ i # 2 => <<Call(p), Types[i]>> \in Subjects(l)

RunsInv == \A p \in Pipelines : RunInv(p)

\* A step of a loop or a request leaves the pipelines alone, but for their numbers.
LEMMA OthersLeaveRuns ==
  ASSUME IInv, NEW a \in Loops \union Handlers, Cycle(a) \/ Serve(a)
  PROVE  /\ ledger' = ledger /\ (calls' = calls \/ calls' = calls + 1)
         /\ \A p \in Pipelines : pc'[p] = pc[p] /\ work'[p] = work[p]
  <1> DEFINE Mine == \A p \in Pipelines : pc'[p] = pc[p] /\ work'[p] = work[p]
  <1>1. \A p \in Pipelines : p \in Actors /\ p # a
    BY FlowsAssumption DEF Actors
  <1>2. pc \in [Actors -> Places] /\ work \in [Actors -> Work]
    BY DEF IInv, TypeOK
  <1>3. \A place : Goto(a, place) => \A p \in Pipelines : pc'[p] = pc[p]
    BY <1>1, <1>2 DEF Goto
  <1>4. \A locals : work' = [work EXCEPT ![a] = locals] => \A p \in Pipelines : work'[p] = work[p]
    BY <1>1, <1>2
  <1>5. Return(a) => Mine
    BY <1>3, <1>4 DEF Return
  <1>6. \A place, found : Begin(a, place, found) => Mine /\ calls' = calls + 1
    BY <1>3, <1>4 DEF Begin
  <1>7. CASE Cycle(a)
    <2>1. CASE StartCycle(a)
      BY <1>6, <2>1 DEF StartCycle
    <2>2. CASE Stage(a) \/ StageRaises(a)
      BY <1>3, <1>5, <2>2 DEF Stage, StageRaises, history
    <2>3. CASE WriteKnowledge(a) \/ WriteExperiments(a) \/ WriteOpportunities(a)
      BY <1>3, <1>4, <1>5, <2>3 DEF WriteKnowledge, WriteExperiments, WriteOpportunities, Writes
    <2>4. CASE PutItem(a)
      BY <1>4, <2>4 DEF PutItem, history
    <2>5. CASE LoadKnowledge(a) \/ SearchRepository(a) \/ LoadExperiments(a) \/ LoadOpportunities(a)
      BY <1>3, <2>5 DEF LoadKnowledge, SearchRepository, LoadExperiments, LoadOpportunities, Load,
                        history
    <2> QED BY <1>7, <2>1, <2>2, <2>3, <2>4, <2>5 DEF Cycle
  <1>8. CASE Serve(a)
    <2>1. CASE Research(a)
      BY <1>6, <2>1 DEF Research
    <2>2. CASE KeepSource(a) \/ ResearchReturns(a)
      BY <1>3, <2>2 DEF KeepSource, ResearchReturns, store, history
    <2>3. CASE EnginesReturn(a) \/ EnginesRaise(a) \/ RegisterExperiment(a)
      BY <1>3, <1>5, <2>3 DEF EnginesReturn, EnginesRaise, RegisterExperiment, history
    <2>4. CASE Execute(a)
      BY <1>3, <1>4, <2>4 DEF Execute
    <2>5. CASE RecordObservation(a)
      BY <1>4, <2>5 DEF RecordObservation, history
    <2>6. CASE Fetch(a)
      BY <1>3, <1>4, <1>5, <2>6 DEF Fetch, history
    <2>7. CASE Collect(a) \/ Query(a) \/ Evaluate(a)
      BY <1>3, <1>4, <1>5, <2>7 DEF Collect, Query, Evaluate, history
    <2> QED BY <1>8, <2>1, <2>2, <2>3, <2>4, <2>5, <2>6, <2>7 DEF Serve
  <1> QED BY <1>7, <1>8

\* What a run has stays so while other calls begin.
LEMMA RunStays ==
  ASSUME IInv, NEW p \in Pipelines, RunInv(p),
         ledger'[p] = ledger[p], calls' = calls \/ calls' = calls + 1,
         (pc'[p] = pc[p] /\ work'[p] = work[p]) \/ pc'[p] # "advance"
  PROVE  RunInv(p)'
  <1>1. calls \in Nat /\ ledger[p] \subseteq Record /\ p \in Actors /\ work \in [Actors -> Work]
    BY FlowsAssumption DEF IInv, TypeOK, Actors
  <1>2. \A r \in ledger[p] : r.call \in Nat
    BY <1>1, FlowsAssumption DEF Record, Calls
  <1>3. work[p].call \in Nat
    BY <1>1, FlowsAssumption DEF Work
  <1> QED BY <1>1, <1>2, <1>3 DEF RunInv, Call

\* A run that begins has no records.
LEMMA StartKeepsRuns ==
  ASSUME IInv, RunsInv, NEW p \in Pipelines, StartPipeline(p)
  PROVE  RunsInv'
  <1>1. PICK found \in Findings : Begin(p, "advance", found)
    BY DEF StartPipeline
  <1>2. ledger' = ledger /\ calls' = calls + 1
    BY <1>1 DEF StartPipeline, Begin
  <1>3. /\ p \in Actors /\ pc \in [Actors -> Places] /\ work \in [Actors -> Work] /\ calls \in Nat
        /\ ledger[p] \subseteq Record
    BY FlowsAssumption DEF IInv, TypeOK, Actors
  <1>4. pc'[p] = "advance" /\ work'[p].call = calls + 1 /\ work'[p].stage = 1
    BY <1>1, <1>3 DEF Begin, Goto, NoWork
  <1>5. \A q \in Pipelines \ {p} : q \in Actors /\ pc'[q] = pc[q] /\ work'[q] = work[q]
    BY <1>1, <1>3 DEF Begin, Goto, Actors
  <1>6. \A r \in ledger[p] : r.call \in Nat /\ r.call <= calls
    <2>1. \A r \in ledger[p] : r.call <= calls
      BY DEF RunsInv, RunInv
    <2>2. \A r \in ledger[p] : r.call \in Nat
      BY <1>3, FlowsAssumption DEF Record, Calls
    <2> QED BY <2>1, <2>2
  <1>7. \A i \in 1..8 : <<calls + 1, Types[i]>> \notin Subjects(ledger[p])
    BY <1>3, <1>6 DEF Subjects
  <1>8. RunInv(p)'
    <2>1. \A r \in ledger'[p] : r.call <= calls'
      BY <1>2, <1>3, <1>6
    <2>2. /\ Call(p)' <= calls'
          /\ \A i \in 1..8 :
               /\ i >= work'[p].stage => <<Call(p)', Types[i]>> \notin Subjects(ledger'[p])
               /\ i < work'[p].stage /\ i # 2 => <<Call(p)', Types[i]>> \in Subjects(ledger'[p])
      BY <1>2, <1>3, <1>4, <1>7 DEF Call
    <2> QED BY <1>2, <2>1, <2>2 DEF RunsInv, RunInv, Call
  <1>9. ASSUME NEW q \in Pipelines, q # p PROVE RunInv(q)'
    BY <1>2, <1>5, <1>9, RunStays DEF RunsInv
  <1> QED BY <1>8, <1>9 DEF RunsInv

\* Two ledgers have records of the same stages of a run before one.
SameBefore(l, m, n, i) ==
  \A j \in 1..(i - 1) : <<n, Types[j]>> \in Subjects(l) <=> <<n, Types[j]>> \in Subjects(m)

\* The parents of a stage depend on the stages before it.
LEMMA ParentDepends ==
  ASSUME NEW l, NEW m, NEW n, NEW i \in 1..8, SameBefore(l, m, n, i)
  PROVE  Parent(n, l, i) = Parent(n, m, i)
  <1> DEFINE before(k, j) == <<n, Types[j]>> \in Subjects(k)
                              /\ \A g \in (j + 1)..(i - 1) : <<n, Types[g]>> \notin Subjects(k)
  <1>1. \A j \in 1..(i - 1) : before(l, j) <=> before(m, j)
    BY Z3 DEF SameBefore
  <1>2. {j \in 1..(i - 1) : before(l, j)} = {j \in 1..(i - 1) : before(m, j)}
    <2> HIDE DEF before
    <2> QED BY <1>1
  <1> QED BY <1>2 DEF Parent

\* The record of a stage.
RecordOf(n, l, i) == [call |-> n, type |-> Types[i], parents |-> Parent(n, l, i)]

\* A stage adds a record whose parents its run has, or is the academy and adds none.
LEMMA AdvanceAdds ==
  ASSUME IInv, NEW p \in Pipelines, Advance(p)
  PROVE  \/ /\ work[p].stage = 2
            /\ ledger' = ledger
         \/ ledger'[p] = ledger[p] \union {RecordOf(Call(p), ledger[p], work[p].stage)}
  <1>1. ledger \in [Pipelines -> SUBSET Record]
    BY DEF IInv, TypeOK
  <1> QED BY <1>1 DEF Advance, Skipped, RecordOf

\* A record of a stage that the run had none of keeps the chain.
LEMMA AddKeepsChained ==
  ASSUME NEW l \in SUBSET Record, NEW n, NEW i \in 1..8, Chained(l),
         \A j \in i..8 : <<n, Types[j]>> \notin Subjects(l)
  PROVE  /\ Chained(l \union {RecordOf(n, l, i)})
         /\ Subjects(l \union {RecordOf(n, l, i)}) = Subjects(l) \union {<<n, Types[i]>>}
  <1> DEFINE r == RecordOf(n, l, i)
             m == l \union {r}
  <1>1. Subjects(m) = Subjects(l) \union {<<n, Types[i]>>}
    <2>1. r.call = n /\ r.type = Types[i]
      BY DEF RecordOf
    <2> HIDE DEF r
    <2> QED BY <2>1 DEF Subjects
  <1> HIDE DEF m
  <1>2. ASSUME NEW q \in m, NEW j \in 1..8, q.type = Types[j] PROVE q.parents = Parent(q.call, m, j)
    <2>1. CASE q \in l
      <3>1. q.parents = Parent(q.call, l, j)
        BY <1>2, <2>1 DEF Chained
      <3>2. q.call # n \/ j < i
        <4>1. <<q.call, Types[j]>> \in Subjects(l)
          BY <1>2, <2>1 DEF Subjects
        <4> QED BY <4>1
      <3>3. SameBefore(l, m, q.call, j)
        BY <1>1, <3>2, TypesDiffer DEF SameBefore
      <3> QED BY <3>1, <3>3, ParentDepends
    <2>2. CASE q = r
      <3>1. q.call = n /\ j = i /\ q.parents = Parent(n, l, i)
        BY <1>2, <2>2, TypesDiffer DEF RecordOf
      <3>2. SameBefore(l, m, n, i)
        BY <1>1, TypesDiffer DEF SameBefore
      <3> QED BY <3>1, <3>2, ParentDepends
    <2> QED BY <2>1, <2>2 DEF m
  <1>3. Chained(m)
    BY <1>2 DEF Chained
  <1> QED BY <1>1, <1>3 DEF m

\* A stage that is behind has a record, and the last one ends the run.
LEMMA AdvanceKeepsRun ==
  ASSUME IInv, NEW p \in Pipelines, RunInv(p), Advance(p)
  PROVE  RunInv(p)'
  <1> DEFINE n == Call(p)
             i == work[p].stage
             l == ledger[p]
             m == ledger'[p]
  <1>1. p \in Actors /\ p \notin Handlers /\ p \notin Loops /\ pc[p] = "advance" /\ calls' = calls
    BY FlowsAssumption DEF Actors, Advance, history
  <1>2. /\ i \in 1..8 /\ n \in Calls /\ work \in [Actors -> Work] /\ pc \in [Actors -> Places]
        /\ l \in SUBSET Record
    BY <1>1 DEF IInv, LocalsOK, LocalOK, TypeOK, Call
  <1>3. /\ IsFiniteSet(l) /\ Chained(l) /\ \A r \in l : r.call <= calls
        /\ \A k \in Calls : <<k, "business">> \in Subjects(l) => Done(k, l)
        /\ n <= calls
        /\ \A j \in 1..8 : /\ j >= i => <<n, Types[j]>> \notin Subjects(l)
                           /\ j < i /\ j # 2 => <<n, Types[j]>> \in Subjects(l)
    BY <1>1 DEF RunInv
  <1> DEFINE r == RecordOf(n, l, i)
  <1>4. \/ i = 2 /\ m = l
        \/ m = l \union {r}
    BY AdvanceAdds
  <1>5. \/ i = 8 /\ pc'[p] = "idle"
        \/ i # 8 /\ pc'[p] = "advance" /\ work'[p].stage = i + 1 /\ work'[p].call = n
    <2>1. Len(Types) = 8
      BY DEF Types
    <2>2. CASE i = 8
      <3>1. Return(p)
        BY <2>1, <2>2 DEF Advance
      <3> QED BY <1>1, <1>2, <2>2, <3>1 DEF Return, Goto
    <2>3. CASE i # 8
      <3>1. work' = [work EXCEPT ![p].stage = i + 1] /\ pc' = pc
        BY <2>1, <2>3 DEF Advance
      <3>2. work[p] \in Work
        BY <1>1, <1>2
      <3>3. work'[p] = [work[p] EXCEPT !.stage = i + 1]
        BY <1>1, <1>2, <3>1
      <3> QED BY <1>1, <2>3, <3>1, <3>2, <3>3 DEF Work, Call
    <2> QED BY <2>2, <2>3
  <1>6. /\ IsFiniteSet(m) /\ Chained(m) /\ \A q \in m : q.call <= calls
        /\ Subjects(l) \subseteq Subjects(m)
        /\ \A s \in Subjects(m) : s \in Subjects(l) \/ s = <<n, Types[i]>>
        /\ i # 2 => <<n, Types[i]>> \in Subjects(m)
    <2>1. CASE i = 2 /\ m = l
      BY <1>3, <2>1
    <2>2. CASE m = l \union {r}
      <3>1. \A j \in i..8 : <<n, Types[j]>> \notin Subjects(l)
        BY <1>2, <1>3
      <3>2. r.call = n
        BY DEF RecordOf
      <3> HIDE DEF n, i, l, m, r
      <3>3. Chained(m) /\ Subjects(m) = Subjects(l) \union {<<n, Types[i]>>}
        BY <1>2, <1>3, <2>2, <3>1, AddKeepsChained DEF r
      <3>4. IsFiniteSet(m)
        BY <1>3, <2>2, FS_AddElement
      <3> QED BY <1>3, <2>2, <3>2, <3>3, <3>4
    <2> QED BY <1>4, <2>1, <2>2
  <1> HIDE DEF n, i, l, m, r
  <1>7. ASSUME NEW k \in Calls, <<k, "business">> \in Subjects(m) PROVE Done(k, m)
    <2>1. CASE <<k, "business">> \in Subjects(l)
      BY <1>3, <1>6, <2>1 DEF Done
    <2>2. CASE <<k, "business">> = <<n, Types[i]>>
      <3>1. k = n /\ i = 8
        BY <1>2, <2>2, TypesDiffer
      <3>2. \A j \in 1..8 : j # 2 => j < i \/ j = i
        BY <3>1
      <3> QED BY <1>3, <1>6, <3>1, <3>2 DEF Done
    <2> QED BY <1>6, <1>7, <2>1, <2>2
  <1>8. ASSUME pc'[p] = "advance"
        PROVE  \A j \in 1..8 : /\ j >= work'[p].stage => <<n, Types[j]>> \notin Subjects(m)
                               /\ j < work'[p].stage /\ j # 2 => <<n, Types[j]>> \in Subjects(m)
    <2>1. work'[p].stage = i + 1
      BY <1>5, <1>8
    <2>2. ASSUME NEW j \in 1..8, j >= i + 1 PROVE <<n, Types[j]>> \notin Subjects(m)
      <3>1. j >= i /\ j # i
        BY <1>2, <2>2
      <3> QED BY <1>2, <1>3, <1>6, <3>1, TypesDiffer
    <2>3. ASSUME NEW j \in 1..8, j < i + 1, j # 2 PROVE <<n, Types[j]>> \in Subjects(m)
      <3>1. j < i \/ j = i
        BY <1>2, <2>3
      <3> QED BY <1>3, <1>6, <2>3, <3>1
    <2> QED BY <2>1, <2>2, <2>3
  <1>9. pc'[p] = "advance" => Call(p)' = n
    BY <1>5 DEF Call
  <1> QED BY <1>1, <1>3, <1>6, <1>7, <1>8, <1>9 DEF RunInv, m

LEMMA AdvanceKeepsRuns ==
  ASSUME IInv, RunsInv, NEW p \in Pipelines, Advance(p)
  PROVE  RunsInv'
  <1>1. RunInv(p)'
    BY AdvanceKeepsRun DEF RunsInv
  <1>2. ASSUME NEW q \in Pipelines, q # p PROVE RunInv(q)'
    <2>1. /\ q \in Actors /\ pc \in [Actors -> Places] /\ work \in [Actors -> Work]
          /\ ledger \in [Pipelines -> SUBSET Record]
      BY DEF IInv, TypeOK, Actors
    <2>2. ledger'[q] = ledger[q] /\ calls' = calls
      BY <1>2, <2>1 DEF Advance, history
    <2>3. pc'[q] = pc[q] /\ work'[q] = work[q]
      BY <1>2, <2>1 DEF Advance, Return, Goto
    <2> QED BY <2>2, <2>3, RunStays DEF RunsInv
  <1> QED BY <1>1, <1>2 DEF RunsInv

\* A pipeline that starts again has an empty ledger.
LEMMA CrashKeepsRuns ==
  ASSUME IInv, RunsInv, NEW a \in Actors, Crash(a)
  PROVE  RunsInv'
  <1>1. /\ pc \in [Actors -> Places] /\ work \in [Actors -> Work] /\ calls' = calls
        /\ ledger \in [Pipelines -> SUBSET Record]
    BY DEF IInv, TypeOK, Crash
  <1>2. ASSUME NEW p \in Pipelines, p # a PROVE RunInv(p)'
    <2>1. ledger'[p] = ledger[p] /\ p \in Actors
      BY <1>1, <1>2 DEF Crash, Actors
    <2>2. pc'[p] = pc[p] /\ work'[p] = work[p]
      BY <1>1, <1>2, <2>1 DEF Crash, Goto
    <2> QED BY <1>1, <2>1, <2>2, RunStays DEF RunsInv
  <1>3. ASSUME a \in Pipelines PROVE RunInv(a)'
    <2>1. ledger'[a] = {} /\ pc'[a] = "idle"
      BY <1>1, <1>3, FlowsAssumption DEF Crash, Goto
    <2> QED BY <2>1, FS_EmptySet DEF RunInv, Chained, Subjects
  <1> QED BY <1>2, <1>3 DEF RunsInv

LEMMA InitRuns == Init => RunsInv
  BY FS_EmptySet DEF Init, RunsInv, RunInv, Chained, Subjects, Actors

LEMMA NextRuns == IInv /\ RunsInv /\ [Next]_vars => RunsInv'
  <1> SUFFICES ASSUME IInv, RunsInv, [Next]_vars PROVE RunsInv'
    OBVIOUS
  <1>1. ASSUME NEW a \in Loops \union Handlers, Cycle(a) \/ Serve(a) PROVE RunsInv'
    BY <1>1, OthersLeaveRuns, RunStays DEF RunsInv
  <1>2. ASSUME NEW p \in Pipelines, StartPipeline(p) \/ Advance(p) PROVE RunsInv'
    BY <1>2, StartKeepsRuns, AdvanceKeepsRuns
  <1>3. ASSUME NEW a \in Actors, Crash(a) PROVE RunsInv'
    BY <1>3, CrashKeepsRuns
  <1>4. CASE UNCHANGED vars
    <2>1. ledger' = ledger /\ calls' = calls /\ pc' = pc /\ work' = work
      BY <1>4 DEF vars, history
    <2> QED BY <2>1, RunStays DEF RunsInv
  <1> QED BY <1>1, <1>2, <1>3, <1>4 DEF Next

\* The lineage of what a run ends with is that run, back to its research, and nothing
\* of any other (ProvenanceLedger.lineage after GovernedPipeline.run), whatever was
\* skipped and however many runs share the ledger.
THEOREM LineagesAreWhole == Spec => []LineageIsWhole
  <1>1. IInv /\ RunsInv => LineageIsWhole
    <2> SUFFICES ASSUME IInv, RunsInv, NEW p \in Pipelines, NEW n \in Calls,
                        <<n, "business">> \in Subjects(ledger[p])
                 PROVE  Subjects(Lineage(ledger[p], <<n, "business">>)) =
                          {s \in Subjects(ledger[p]) : s[1] = n}
      BY DEF LineageIsWhole
    <2>1. ledger[p] \in SUBSET Record
      BY DEF IInv, TypeOK
    <2>2. IsFiniteSet(ledger[p]) /\ Chained(ledger[p]) /\ Done(n, ledger[p])
      BY DEF RunsInv, RunInv
    <2> QED BY <2>1, <2>2, LineageOfARun
  <1>2. Spec => []RunsInv
    BY InitRuns, NextRuns, Invariance, PTL DEF Spec
  <1> QED BY <1>1, <1>2, Invariance, PTL
=============================================================================
