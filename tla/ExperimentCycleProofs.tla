------------------------ MODULE ExperimentCycleProofs ------------------------
(***************************************************************************)
(* Proofs about ExperimentCycle, for any processes, experiments, jobs and  *)
(* crashes: a result rests on measurements, and what is decided about an   *)
(* experiment rests on its result, although the processes decide it on     *)
(* copies of their own.                                                    *)
(*                                                                         *)
(* The argument is that a complete experiment is complete everywhere: the  *)
(* table never changes a complete row, and a copy in a process, in the     *)
(* engines' state on disk or in the hands of a call that is complete is    *)
(* the row of the table.                                                   *)
(***************************************************************************)
EXTENDS ExperimentCycle, TLAPS

\* A copy of an experiment does not say more than the table.
Faithful(object, e) == object.status = "complete" => row[e] = object

StoresAreFaithful ==
  \A e \in Experiments :
    Faithful(disk[e], e) /\ \A p \in Processes : Faithful(mem[p][e], e)

\* What a call holds at the places where it is used.
WorkInv(p) ==
  /\ pc[p] # "idle" => TheExp(p) \in Experiments
  /\ pc[p] \in {"context", "submit", "collect"} => Faithful(work[p].object, TheExp(p))
  /\ pc[p] = "evaluate" => work[p].read \subseteq obs[TheExp(p)]
  /\ pc[p] \in {"decide", "close"} =>
       work[p].object.status = "complete" /\ row[TheExp(p)] = work[p].object
  /\ pc[p] = "close" /\ work[p].object.result = "passed" => validated[TheExp(p)] > 0

JobsAreForExperiments ==
  \A j \in Jobs : job[j].status # "unused" => job[j].exp \in Experiments

\* The inductive invariant.
IInv ==
  /\ TypeOK
  /\ ResultIsMeasured /\ OpportunityIsEarned /\ ClosedCycleIsDecided
  /\ StoresAreFaithful /\ JobsAreForExperiments
  /\ \A p \in Processes : WorkInv(p)

-----------------------------------------------------------------------------
(* What a step leaves *)

\* The others' calls.
Beside(p) == \A q \in Processes \ {p} : pc'[q] = pc[q] /\ work'[q] = work[q]

\* Nothing that counts is taken back: a complete row stays as it is, and so do
\* observations and validations.
Settled ==
  /\ \A e \in Experiments : row[e].status = "complete" => row'[e] = row[e]
  /\ \A e \in Experiments : obs[e] \subseteq obs'[e]
  /\ \A e \in Experiments : validated[e] > 0 => validated'[e] > 0

\* A row that changes has been measured; an opportunity is validated when the
\* row has passed; a cycle is closed when its row is complete, and decided.
RowMeasured(e) ==
  \/ row'[e] = row[e]
  \/ /\ row'[e].result = "passed" => "good" \in obs[e]
     /\ row'[e].result = "failed" => obs[e] \intersect {"bad", "other"} # {}

ValidationEarned(e) == validated'[e] = validated[e] \/ row[e] = Complete("passed")

ClosingDecided(e) ==
  \/ context'[e] = context[e]
  \/ context'[e] # "completed"
  \/ row[e].status = "complete" /\ (row[e].result = "passed" => validated[e] > 0)

\* A copy that was faithful remains so.
LEMMA StaysFaithful ==
  ASSUME Settled, NEW e \in Experiments, NEW object, Faithful(object, e)
  PROVE  object.status = "complete" => row'[e] = object
  BY DEF Settled, Faithful

\* The calls of other processes are not disturbed.
LEMMA OthersStay ==
  ASSUME IInv, Settled, NEW p \in Processes, Beside(p), NEW q \in Processes \ {p}
  PROVE  WorkInv(q)'
  <1>1. pc'[q] = pc[q] /\ work'[q] = work[q] /\ WorkInv(q)
    BY DEF Beside, IInv
  <1> QED BY <1>1 DEF WorkInv, TheExp, Faithful, Settled

\* The results, the opportunities and the cycles after a step.
LEMMA ResultsStay ==
  ASSUME IInv, Settled,
         \A e \in Experiments : RowMeasured(e) /\ ValidationEarned(e) /\ ClosingDecided(e)
  PROVE  ResultIsMeasured' /\ OpportunityIsEarned' /\ ClosedCycleIsDecided'
  <1>1. ResultIsMeasured'
    BY DEF IInv, Settled, RowMeasured, ResultIsMeasured
  <1>2. OpportunityIsEarned'
    BY DEF IInv, Settled, ValidationEarned, OpportunityIsEarned, Complete
  <1>3. ASSUME NEW e \in Experiments, context'[e] = "completed"
        PROVE  row'[e].status = "complete" /\ (row'[e].result = "passed" => validated'[e] > 0)
    BY <1>3 DEF IInv, Settled, ClosingDecided, ClosedCycleIsDecided
  <1> QED BY <1>1, <1>2, <1>3 DEF ClosedCycleIsDecided

\* The stores after a step that writes into them what a process or the table had.
LEMMA StoresStay ==
  ASSUME IInv, Settled,
         \A e \in Experiments : Faithful(disk'[e], e),
         \A e \in Experiments, p \in Processes : Faithful(mem'[p][e], e)
  PROVE  StoresAreFaithful'
  <1>1. \A e \in Experiments : disk'[e].status = "complete" => row'[e] = disk'[e]
    BY DEF Settled, Faithful
  <1>2. \A e \in Experiments, p \in Processes : mem'[p][e].status = "complete" => row'[e] = mem'[p][e]
    BY DEF Settled, Faithful
  <1> QED BY <1>1, <1>2 DEF StoresAreFaithful, Faithful

\* A step of one process: what it must show.
LEMMA ProcessStep ==
  ASSUME IInv, NEW p \in Processes, Beside(p), Settled, TypeOK', WorkInv(p)',
         \A e \in Experiments : RowMeasured(e) /\ ValidationEarned(e) /\ ClosingDecided(e),
         \A e \in Experiments : Faithful(disk'[e], e),
         \A e \in Experiments, q \in Processes : Faithful(mem'[q][e], e),
         JobsAreForExperiments'
  PROVE  IInv'
  <1>1. \A q \in Processes : WorkInv(q)'
    BY OthersStay
  <1> QED BY <1>1, ResultsStay, StoresStay DEF IInv

\* A step that leaves the tables to which the properties refer.
LEMMA QuietStep ==
  ASSUME IInv, NEW p \in Processes, Beside(p), TypeOK', WorkInv(p)',
         UNCHANGED <<row, context, validated>>,
         \A e \in Experiments : obs[e] \subseteq obs'[e],
         \A e \in Experiments : Faithful(disk'[e], e),
         \A e \in Experiments, q \in Processes : Faithful(mem'[q][e], e),
         JobsAreForExperiments'
  PROVE  IInv'
  <1>1. Settled /\ \A e \in Experiments : RowMeasured(e) /\ ValidationEarned(e) /\ ClosingDecided(e)
    BY DEF Settled, RowMeasured, ValidationEarned, ClosingDecided
  <1> QED BY <1>1, ProcessStep

\* A step that changes at most the observations and the jobs.
LEMMA CalmStep ==
  ASSUME IInv, NEW p \in Processes, Beside(p), TypeOK', WorkInv(p)',
         UNCHANGED <<row, context, validated, disk, mem>>,
         \A e \in Experiments : obs[e] \subseteq obs'[e],
         job' = job \/ JobsAreForExperiments'
  PROVE  IInv'
  <1>1. /\ \A e \in Experiments : Faithful(disk'[e], e)
        /\ \A e \in Experiments, q \in Processes : Faithful(mem'[q][e], e)
    BY DEF IInv, StoresAreFaithful
  <1>2. JobsAreForExperiments'
    BY DEF IInv, JobsAreForExperiments
  <1> QED BY <1>1, <1>2, QuietStep

\* register_experiment
LEMMA RegisterEffect ==
  ASSUME TypeOK, NEW e \in Experiments, NEW object \in Exp, Register(e, object)
  PROVE  /\ row' \in [Experiments -> Exp]
         /\ \A f \in Experiments : row[f].status = "complete" => row'[f] = row[f]
         /\ \A f \in Experiments \ {e} : row'[f] = row[f]
         /\ row[e].status # "complete" => row'[e] = object
  BY DEF TypeOK, Register

\* The places and the locals after a step of one process.
LEMMA Moves ==
  ASSUME TypeOK, NEW p \in Processes, NEW place \in Places, NEW locals \in Work,
         pc' = [pc EXCEPT ![p] = place], work' = [work EXCEPT ![p] = locals]
  PROVE  /\ pc' \in [Processes -> Places] /\ work' \in [Processes -> Work]
         /\ pc'[p] = place /\ work'[p] = locals /\ Beside(p)
  BY DEF TypeOK, Beside

LEMMA Goes ==
  ASSUME TypeOK, NEW p \in Processes, NEW place \in Places, Goto(p, place), work' = work
  PROVE  /\ pc' \in [Processes -> Places] /\ work' \in [Processes -> Work]
         /\ pc'[p] = place /\ work'[p] = work[p] /\ Beside(p)
  BY DEF TypeOK, Beside, Goto

LEMMA Returns ==
  ASSUME TypeOK, NEW p \in Processes, Return(p)
  PROVE  /\ pc' \in [Processes -> Places] /\ work' \in [Processes -> Work]
         /\ pc'[p] = "idle" /\ work'[p] = NoWork /\ Beside(p)
  <1>1. NoWork \in Work /\ "idle" \in Places
    BY CycleAssumption DEF NoWork, Work, Exp, Absent, Places
  <1> QED BY <1>1 DEF TypeOK, Beside, Goto, Return

\* A process is nowhere special after it has returned.
LEMMA Idles ==
  ASSUME NEW p \in Processes, pc'[p] = "idle"
  PROVE  WorkInv(p)'
  BY DEF WorkInv

-----------------------------------------------------------------------------
(* EnterpriseLoop.run and submit_experiment *)

LEMMA ProposeKeeps ==
  ASSUME IInv, NEW p \in Processes, Propose(p)
  PROVE  IInv'
  <1>1. PICK e \in Experiments :
          /\ row[e] = Absent /\ disk[e] = Absent /\ \A q \in Processes : mem[q][e] = Absent
          /\ mem' = [mem EXCEPT ![p] = [mem[p] EXCEPT ![e] = Proposed]]
          /\ work' = [work EXCEPT ![p].exp = e, ![p].object = Proposed, ![p].cycle = TRUE]
    BY DEF Propose
  <1>2. UNCHANGED <<row, obs, context, job, validated, crashes>> /\ disk' = mem'[p]
    BY DEF Propose, Persist
  <1> DEFINE locals == [work[p] EXCEPT !.exp = e, !.object = Proposed, !.cycle = TRUE]
  <1>3. /\ TypeOK /\ StoresAreFaithful /\ work[p] \in Work /\ mem[p] \in [Experiments -> Exp]
        /\ Proposed \in Exp
    BY DEF IInv, TypeOK, Exp
  <1>4. locals \in Work
    BY <1>3 DEF Work
  <1>5. locals.exp = e /\ locals.object = Proposed
    BY <1>3 DEF Work
  <1>6. work' = [work EXCEPT ![p] = locals] /\ pc' = [pc EXCEPT ![p] = "context"]
    <2>1. work' = [work EXCEPT ![p] = locals]
      BY <1>1
    <2>2. pc' = [pc EXCEPT ![p] = "context"]
      BY DEF Propose, Goto
    <2> QED BY <2>1, <2>2
  <1> HIDE DEF locals
  <1>7. /\ pc' \in [Processes -> Places] /\ work' \in [Processes -> Work]
        /\ pc'[p] = "context" /\ work'[p] = locals /\ Beside(p)
    BY <1>3, <1>4, <1>6, Moves DEF Places
  <1>8. /\ mem' \in [Processes -> [Experiments -> Exp]] /\ disk' \in [Experiments -> Exp]
        /\ \A q \in Processes \ {p} : mem'[q] = mem[q]
        /\ mem'[p] = [mem[p] EXCEPT ![e] = Proposed]
    BY <1>1, <1>2, <1>3 DEF TypeOK
  <1>9. \A f \in Experiments : Faithful(mem'[p][f], f)
    BY <1>3, <1>8 DEF StoresAreFaithful, Faithful, Proposed
  <1>10. \A f \in Experiments, q \in Processes : Faithful(mem'[q][f], f)
    BY <1>3, <1>8, <1>9 DEF StoresAreFaithful
  <1>11. TypeOK'
    BY <1>2, <1>3, <1>7, <1>8 DEF TypeOK
  <1>12. WorkInv(p)' /\ JobsAreForExperiments'
    BY <1>2, <1>5, <1>7 DEF IInv, WorkInv, TheExp, JobsAreForExperiments, Faithful, Proposed
  <1> QED BY <1>2, <1>7, <1>9, <1>10, <1>11, <1>12, QuietStep

LEMMA SaveContextKeeps ==
  ASSUME IInv, NEW p \in Processes, SaveContext(p)
  PROVE  IInv'
  <1>1. /\ TypeOK /\ StoresAreFaithful /\ JobsAreForExperiments
        /\ WorkInv(p) /\ pc[p] = "context" /\ Goto(p, "submit")
    BY DEF IInv, SaveContext, At
  <1>2. UNCHANGED <<row, obs, disk, job, mem, work, validated, crashes>>
    BY DEF SaveContext
  <1>3. context' = [context EXCEPT ![TheExp(p)] = "open"] /\ TheExp(p) \in Experiments
    BY <1>1 DEF SaveContext, WorkInv
  <1>4. /\ pc' \in [Processes -> Places] /\ work' \in [Processes -> Work]
        /\ pc'[p] = "submit" /\ work'[p] = work[p] /\ Beside(p)
    BY <1>1, <1>2, Goes DEF Places
  <1>5. TypeOK'
    BY <1>1, <1>2, <1>3, <1>4 DEF TypeOK
  <1>6. Settled /\ \A e \in Experiments : RowMeasured(e) /\ ValidationEarned(e) /\ ClosingDecided(e)
    BY <1>1, <1>2, <1>3 DEF TypeOK, Settled, RowMeasured, ValidationEarned, ClosingDecided
  <1>7. Faithful(work[p].object, TheExp(p))
    BY <1>1 DEF WorkInv
  <1>8. WorkInv(p)'
    BY <1>2, <1>3, <1>4, <1>7 DEF WorkInv, TheExp, Faithful
  <1>9. JobsAreForExperiments'
    BY <1>1, <1>2 DEF JobsAreForExperiments
  <1>10. /\ \A e \in Experiments : Faithful(disk'[e], e)
         /\ \A e \in Experiments, q \in Processes : Faithful(mem'[q][e], e)
    BY <1>1, <1>2 DEF StoresAreFaithful
  <1> QED BY <1>4, <1>5, <1>6, <1>8, <1>9, <1>10, ProcessStep

LEMMA ResubmitKeeps ==
  ASSUME IInv, NEW p \in Processes, Resubmit(p)
  PROVE  IInv'
  <1>0. PICK e \in Experiments : \E object \in {Proposed, row[e]} :
          work' = [work EXCEPT ![p].exp = e, ![p].object = object]
    BY DEF Resubmit
  <1>1. PICK object \in {Proposed, row[e]} :
          work' = [work EXCEPT ![p].exp = e, ![p].object = object]
    BY <1>0
  <1>2. UNCHANGED <<row, obs, disk, context, job, mem, validated, crashes>>
    BY DEF Resubmit
  <1> DEFINE locals == [work[p] EXCEPT !.exp = e, !.object = object]
  <1>3. TypeOK /\ work[p] \in Work /\ object \in Exp
    BY DEF IInv, TypeOK, Exp
  <1>4. locals \in Work /\ locals.exp = e /\ locals.object = object
    BY <1>3 DEF Work
  <1>5. work' = [work EXCEPT ![p] = locals] /\ pc' = [pc EXCEPT ![p] = "submit"]
    BY <1>1 DEF Resubmit, Goto
  <1> HIDE DEF locals
  <1>6. /\ pc' \in [Processes -> Places] /\ work' \in [Processes -> Work]
        /\ pc'[p] = "submit" /\ work'[p] = locals /\ Beside(p)
    BY <1>3, <1>4, <1>5, Moves DEF Places
  <1>7. TypeOK'
    BY <1>2, <1>3, <1>6 DEF TypeOK
  <1>8. Faithful(object, e)
    BY DEF Faithful, Proposed
  <1>9. WorkInv(p)'
    BY <1>2, <1>4, <1>6, <1>8 DEF WorkInv, TheExp, Faithful
  <1> QED BY <1>2, <1>6, <1>7, <1>9, CalmStep

\* A step that registers the experiment of a call, as the call knows it.
LEMMA RegisterStep ==
  ASSUME IInv, NEW p \in Processes, NEW object \in Exp, TheExp(p) \in Experiments,
         Register(TheExp(p), object), Beside(p),
         object.result = "passed" => "good" \in obs[TheExp(p)],
         object.result = "failed" => obs[TheExp(p)] \intersect {"bad", "other"} # {},
         UNCHANGED <<obs, disk, context, job, mem, validated, crashes>>,
         pc' \in [Processes -> Places], work' \in [Processes -> Work],
         WorkInv(p)'
  PROVE  IInv'
  <1>1. TypeOK /\ StoresAreFaithful /\ JobsAreForExperiments
    BY DEF IInv
  <1>2. /\ row' \in [Experiments -> Exp]
        /\ \A f \in Experiments : row[f].status = "complete" => row'[f] = row[f]
        /\ \A f \in Experiments \ {TheExp(p)} : row'[f] = row[f]
        /\ row[TheExp(p)].status # "complete" => row'[TheExp(p)] = object
    BY <1>1, RegisterEffect
  <1>3. TypeOK'
    BY <1>1, <1>2 DEF TypeOK
  <1>4. Settled
    BY <1>2 DEF Settled
  <1>5. \A e \in Experiments : RowMeasured(e) /\ ValidationEarned(e) /\ ClosingDecided(e)
    BY <1>2 DEF RowMeasured, ValidationEarned, ClosingDecided
  <1>6. JobsAreForExperiments'
    BY <1>1 DEF JobsAreForExperiments
  <1>7. /\ \A e \in Experiments : Faithful(disk'[e], e)
        /\ \A e \in Experiments, q \in Processes : Faithful(mem'[q][e], e)
    BY <1>1 DEF StoresAreFaithful
  <1> QED BY <1>3, <1>4, <1>5, <1>6, <1>7, ProcessStep

\* An object that is faithful has only results that are measured.
LEMMA FaithfulIsMeasured ==
  ASSUME IInv, NEW e \in Experiments, NEW object \in Exp, Faithful(object, e)
  PROVE  /\ object.result = "passed" => "good" \in obs[e]
         /\ object.result = "failed" => obs[e] \intersect {"bad", "other"} # {}
  <1>1. object.result \in {"passed", "failed"} => object.status = "complete"
    BY DEF Exp, Absent, Proposed, Awaiting, Complete
  <1> QED BY <1>1 DEF Faithful, IInv, ResultIsMeasured

LEMMA SubmitRegistersKeeps ==
  ASSUME IInv, NEW p \in Processes, SubmitRegisters(p)
  PROVE  IInv'
  <1>1. TypeOK /\ WorkInv(p) /\ pc[p] = "submit" /\ Goto(p, "find") /\ Register(TheExp(p), work[p].object)
    BY DEF IInv, SubmitRegisters, At
  <1>2. UNCHANGED <<obs, disk, context, job, mem, work, validated, crashes>>
    BY DEF SubmitRegisters
  <1>3. TheExp(p) \in Experiments /\ work[p].object \in Exp /\ Faithful(work[p].object, TheExp(p))
    BY <1>1 DEF WorkInv, TypeOK, Work
  <1>4. /\ pc' \in [Processes -> Places] /\ work' \in [Processes -> Work]
        /\ pc'[p] = "find" /\ work'[p] = work[p] /\ Beside(p)
    BY <1>1, <1>2, Goes DEF Places
  <1>5. WorkInv(p)'
    BY <1>3, <1>4 DEF WorkInv, TheExp
  <1> QED BY <1>1, <1>2, <1>3, <1>4, <1>5, FaithfulIsMeasured, RegisterStep

\* submit_experiment ends, with a new job or without.
LEMMA SubmitReturnsKeeps ==
  ASSUME IInv, NEW p \in Processes, SubmitReturns(p),
         UNCHANGED <<row, obs, context, mem, validated, crashes>>,
         job' \in [Jobs -> Job], JobsAreForExperiments'
  PROVE  IInv'
  <1>1. TypeOK /\ StoresAreFaithful /\ Return(p)
    BY DEF IInv, SubmitReturns
  <1>2. disk' = mem[p] \/ disk' = disk
    BY DEF SubmitReturns, Persist
  <1>3. /\ pc' \in [Processes -> Places] /\ work' \in [Processes -> Work]
        /\ pc'[p] = "idle" /\ work'[p] = NoWork /\ Beside(p)
    BY <1>1, Returns
  <1>4. TypeOK'
    BY <1>1, <1>2, <1>3 DEF TypeOK
  <1>5. WorkInv(p)'
    BY <1>3, Idles
  <1>6. /\ \A e \in Experiments : Faithful(disk'[e], e)
        /\ \A e \in Experiments, q \in Processes : Faithful(mem'[q][e], e)
    BY <1>1, <1>2 DEF StoresAreFaithful
  <1> QED BY <1>3, <1>4, <1>5, <1>6, QuietStep

\* ... or goes on to enqueue one, or to look at the experiment.
LEMMA SubmitGoesOn ==
  ASSUME IInv, NEW p \in Processes, NEW place \in {"enqueue", "persisted"}, Goto(p, place), pc[p] # "idle",
         UNCHANGED <<row, obs, disk, context, job, mem, work, validated, crashes>>
  PROVE  IInv'
  <1>1. TypeOK /\ WorkInv(p)
    BY DEF IInv
  <1>2. /\ pc' \in [Processes -> Places] /\ work' \in [Processes -> Work]
        /\ pc'[p] = place /\ work'[p] = work[p] /\ Beside(p)
    BY <1>1, Goes DEF Places
  <1>3. TypeOK'
    BY <1>1, <1>2 DEF TypeOK
  <1>4. WorkInv(p)'
    BY <1>1, <1>2 DEF WorkInv, TheExp
  <1> QED BY <1>2, <1>3, <1>4, CalmStep

LEMMA SubmitFindsKeeps ==
  ASSUME IInv, NEW p \in Processes, SubmitFinds(p)
  PROVE  IInv'
  <1>1. UNCHANGED <<row, obs, context, job, mem, validated, crashes>> /\ pc[p] # "idle"
    BY DEF SubmitFinds, At
  <1>2. job' \in [Jobs -> Job] /\ JobsAreForExperiments'
    BY <1>1 DEF IInv, TypeOK, JobsAreForExperiments
  <1>3. \/ SubmitReturns(p)
        \/ \E place \in {"enqueue", "persisted"} : Goto(p, place) /\ UNCHANGED <<work, disk>>
    BY DEF SubmitFinds
  <1> QED BY <1>1, <1>2, <1>3, SubmitReturnsKeeps, SubmitGoesOn

LEMMA SubmitReadsKeeps ==
  ASSUME IInv, NEW p \in Processes, SubmitReads(p)
  PROVE  IInv'
  <1>1. UNCHANGED <<row, obs, context, job, mem, validated, crashes>> /\ pc[p] # "idle"
    BY DEF SubmitReads, At
  <1>2. job' \in [Jobs -> Job] /\ JobsAreForExperiments'
    BY <1>1 DEF IInv, TypeOK, JobsAreForExperiments
  <1>3. \/ SubmitReturns(p)
        \/ \E place \in {"enqueue", "persisted"} : Goto(p, place) /\ UNCHANGED <<work, disk>>
    BY DEF SubmitReads
  <1> QED BY <1>1, <1>2, <1>3, SubmitReturnsKeeps, SubmitGoesOn

LEMMA SubmitEnqueuesKeeps ==
  ASSUME IInv, NEW p \in Processes, SubmitEnqueues(p)
  PROVE  IInv'
  <1>1. /\ TypeOK /\ JobsAreForExperiments /\ WorkInv(p) /\ pc[p] = "enqueue"
        /\ SubmitReturns(p) /\ UNCHANGED <<row, obs, context, mem, validated, crashes>>
    BY DEF IInv, SubmitEnqueues, At
  <1>2. PICK j \in Jobs : job' = [job EXCEPT ![j].status = "queued", ![j].exp = TheExp(p)]
    BY DEF SubmitEnqueues
  <1> DEFINE new == [job[j] EXCEPT !.status = "queued", !.exp = TheExp(p)]
  <1>3. TheExp(p) \in Experiments /\ job[j] \in Job
    BY <1>1 DEF WorkInv, TypeOK
  <1>4. new \in Job /\ new.exp = TheExp(p)
    BY <1>3 DEF Job
  <1>5. job' = [job EXCEPT ![j] = new]
    BY <1>2
  <1> HIDE DEF new
  <1>6. job' \in [Jobs -> Job] /\ JobsAreForExperiments'
    BY <1>1, <1>3, <1>4, <1>5 DEF TypeOK, JobsAreForExperiments
  <1> QED BY <1>1, <1>6, SubmitReturnsKeeps

-----------------------------------------------------------------------------
(* The worker *)

LEMMA ClaimKeeps ==
  ASSUME IInv, NEW p \in Processes, Claim(p)
  PROVE  IInv'
  <1>1. PICK j \in Jobs :
          /\ job[j].status = "queued" /\ job[j].attempts < MaxAttempts
          /\ job' = [job EXCEPT ![j].status = "running", ![j].attempts = @ + 1, ![j].owner = p]
          /\ work' = [work EXCEPT ![p].exp = job[j].exp, ![p].job = j, ![p].attempt = job[j].attempts + 1]
    BY DEF Claim
  <1>2. UNCHANGED <<row, obs, disk, context, mem, validated, crashes>>
    BY DEF Claim
  <1>3. /\ TypeOK /\ JobsAreForExperiments /\ work[p] \in Work /\ job[j] \in Job
        /\ job[j].exp \in Experiments /\ job[j].attempts + 1 \in 0..MaxAttempts
    BY <1>1, CycleAssumption DEF IInv, TypeOK, JobsAreForExperiments, Job
  <1> DEFINE locals == [work[p] EXCEPT !.exp = job[j].exp, !.job = j, !.attempt = job[j].attempts + 1]
             claimed == [job[j] EXCEPT !.status = "running", !.attempts = job[j].attempts + 1, !.owner = p]
  <1>4. locals \in Work /\ locals.exp = job[j].exp
    <2>1. job[j].exp \in Experiments \union {Nothing} /\ j \in 0..MaxJobs
      BY <1>3, CycleAssumption DEF Jobs
    <2>2. locals \in Work
      BY <1>3, <2>1 DEF Work
    <2>3. locals.exp = job[j].exp
      BY <1>3 DEF Work
    <2> QED BY <2>2, <2>3
  <1>5. claimed \in Job /\ claimed.exp = job[j].exp
    BY <1>3 DEF Job
  <1>6. /\ work' = [work EXCEPT ![p] = locals] /\ pc' = [pc EXCEPT ![p] = "fetch"]
        /\ job' = [job EXCEPT ![j] = claimed]
    <2>1. work' = [work EXCEPT ![p] = locals]
      BY <1>1
    <2>2. pc' = [pc EXCEPT ![p] = "fetch"]
      BY DEF Claim, Goto
    <2>3. job' = [job EXCEPT ![j] = claimed]
      BY <1>1
    <2> QED BY <2>1, <2>2, <2>3
  <1> HIDE DEF locals, claimed
  <1>7. /\ pc' \in [Processes -> Places] /\ work' \in [Processes -> Work]
        /\ pc'[p] = "fetch" /\ work'[p] = locals /\ Beside(p)
    BY <1>3, <1>4, <1>6, Moves DEF Places
  <1>8. job' \in [Jobs -> Job] /\ JobsAreForExperiments'
    BY <1>3, <1>5, <1>6 DEF TypeOK, JobsAreForExperiments
  <1>9. TypeOK'
    BY <1>2, <1>3, <1>7, <1>8 DEF TypeOK
  <1>10. WorkInv(p)'
    BY <1>3, <1>4, <1>7 DEF WorkInv, TheExp
  <1> QED BY <1>2, <1>7, <1>8, <1>9, <1>10, CalmStep

LEMMA FetchKeeps ==
  ASSUME IInv, NEW p \in Processes, Fetch(p)
  PROVE  IInv'
  <1>1. /\ TypeOK /\ WorkInv(p) /\ pc[p] = "fetch" /\ work[p] \in Work
        /\ TheExp(p) \in Experiments /\ row[TheExp(p)] \in Exp
    BY DEF IInv, TypeOK, Fetch, At, WorkInv
  <1>2. UNCHANGED <<row, obs, disk, context, job, mem, validated, crashes>>
    BY DEF Fetch, tables
  <1> DEFINE locals == [work[p] EXCEPT !.object = row[TheExp(p)]]
             place == IF row[TheExp(p)].status = "complete" THEN "continue" ELSE "collect"
  <1>3. locals \in Work /\ locals.exp = TheExp(p) /\ locals.object = row[TheExp(p)]
    BY <1>1 DEF Work, TheExp
  <1>4. work' = [work EXCEPT ![p] = locals] /\ pc' = [pc EXCEPT ![p] = place]
    BY DEF Fetch, Goto
  <1>5. place \in {"continue", "collect"} /\ place \in Places
    BY DEF Places
  <1> HIDE DEF locals, place
  <1>6. /\ pc' \in [Processes -> Places] /\ work' \in [Processes -> Work]
        /\ pc'[p] = place /\ work'[p] = locals /\ Beside(p)
    BY <1>1, <1>3, <1>4, <1>5, Moves
  <1>7. TypeOK'
    BY <1>1, <1>2, <1>6 DEF TypeOK
  <1>8. WorkInv(p)'
    BY <1>1, <1>2, <1>3, <1>5, <1>6 DEF WorkInv, TheExp, Faithful
  <1> QED BY <1>2, <1>6, <1>7, <1>8, CalmStep

LEMMA CollectKeeps ==
  ASSUME IInv, NEW p \in Processes, Collect(p)
  PROVE  IInv'
  <1>1. TypeOK /\ WorkInv(p) /\ pc[p] = "collect" /\ Goto(p, "query") /\ Register(TheExp(p), work[p].object)
    BY DEF IInv, Collect, At
  <1>2. UNCHANGED <<obs, disk, context, job, mem, work, validated, crashes>>
    BY DEF Collect
  <1>3. TheExp(p) \in Experiments /\ work[p].object \in Exp /\ Faithful(work[p].object, TheExp(p))
    BY <1>1 DEF WorkInv, TypeOK, Work
  <1>4. /\ pc' \in [Processes -> Places] /\ work' \in [Processes -> Work]
        /\ pc'[p] = "query" /\ work'[p] = work[p] /\ Beside(p)
    BY <1>1, <1>2, Goes DEF Places
  <1>5. WorkInv(p)'
    BY <1>3, <1>4 DEF WorkInv, TheExp
  <1> QED BY <1>1, <1>2, <1>3, <1>4, <1>5, FaithfulIsMeasured, RegisterStep

\* The collector reads the observations on record.
LEMMA ReadsObservations ==
  ASSUME IInv, NEW p \in Processes, pc[p] # "idle", NEW place \in {"evaluate", "execute"},
         work' = [work EXCEPT ![p].read = obs[TheExp(p)]], Goto(p, place),
         UNCHANGED <<row, obs, disk, context, job, mem, validated, crashes>>
  PROVE  IInv'
  <1>1. /\ TypeOK /\ WorkInv(p) /\ work[p] \in Work
        /\ TheExp(p) \in Experiments /\ obs[TheExp(p)] \in SUBSET Kinds
    BY DEF IInv, TypeOK, WorkInv
  <1> DEFINE locals == [work[p] EXCEPT !.read = obs[TheExp(p)]]
  <1>2. locals \in Work /\ locals.exp = TheExp(p) /\ locals.read = obs[TheExp(p)]
    BY <1>1 DEF Work, TheExp
  <1>3. work' = [work EXCEPT ![p] = locals] /\ pc' = [pc EXCEPT ![p] = place]
    BY DEF Goto
  <1> HIDE DEF locals
  <1>4. /\ pc' \in [Processes -> Places] /\ work' \in [Processes -> Work]
        /\ pc'[p] = place /\ work'[p] = locals /\ Beside(p)
    BY <1>1, <1>2, <1>3, Moves DEF Places
  <1>5. TypeOK'
    BY <1>1, <1>4 DEF TypeOK
  <1>6. WorkInv(p)'
    BY <1>1, <1>2, <1>4 DEF WorkInv, TheExp
  <1> QED BY <1>4, <1>5, <1>6, CalmStep

LEMMA ReadingsKeep ==
  ASSUME IInv, NEW p \in Processes, Query(p) \/ ReadObservations(p)
  PROVE  IInv'
  <1>1. /\ pc[p] # "idle" /\ work' = [work EXCEPT ![p].read = obs[TheExp(p)]]
        /\ UNCHANGED <<row, obs, disk, context, job, mem, validated, crashes>>
    BY DEF Query, ReadObservations, At, tables
  <1>2. \E place \in {"evaluate", "execute"} : Goto(p, place)
    BY DEF Query, ReadObservations
  <1> QED BY <1>1, <1>2, ReadsObservations

LEMMA ExecuteKeeps ==
  ASSUME IInv, NEW p \in Processes, Execute(p)
  PROVE  IInv'
  <1>1. /\ TypeOK /\ WorkInv(p) /\ work[p] \in Work /\ pc[p] = "execute" /\ TheExp(p) \in Experiments
        /\ UNCHANGED <<row, obs, disk, context, job, mem, validated, crashes>>
    BY DEF IInv, TypeOK, Execute, At, WorkInv, tables
  <1>2. /\ pc' \in [Processes -> Places] /\ work' \in [Processes -> Work]
        /\ pc'[p] \in {"record", "raise"} /\ work'[p].exp = TheExp(p) /\ Beside(p)
    <2>1. ASSUME NEW measured \in SUBSET Kinds,
                 work' = [work EXCEPT ![p].todo = measured], Goto(p, "record")
          PROVE  /\ pc' \in [Processes -> Places] /\ work' \in [Processes -> Work]
                 /\ pc'[p] \in {"record", "raise"} /\ work'[p].exp = TheExp(p) /\ Beside(p)
      <3> DEFINE locals == [work[p] EXCEPT !.todo = measured]
      <3>1. locals \in Work /\ locals.exp = TheExp(p)
        BY <1>1 DEF Work, TheExp
      <3>2. work' = [work EXCEPT ![p] = locals] /\ pc' = [pc EXCEPT ![p] = "record"]
        BY <2>1 DEF Goto
      <3> HIDE DEF locals
      <3> QED BY <1>1, <3>1, <3>2, Moves DEF Places
    <2>2. CASE Goto(p, "raise") /\ UNCHANGED work
      BY <1>1, <2>2, Goes DEF Places, TheExp
    <2> QED BY <2>1, <2>2 DEF Execute
  <1>3. TypeOK'
    BY <1>1, <1>2 DEF TypeOK
  <1>4. WorkInv(p)'
    BY <1>1, <1>2 DEF WorkInv, TheExp
  <1> QED BY <1>1, <1>2, <1>3, <1>4, CalmStep

LEMMA RecordObservationKeeps ==
  ASSUME IInv, NEW p \in Processes, RecordObservation(p)
  PROVE  IInv'
  <1>1. /\ TypeOK /\ WorkInv(p) /\ work[p] \in Work /\ pc[p] = "record" /\ TheExp(p) \in Experiments
        /\ UNCHANGED <<row, disk, context, job, mem, pc, validated, crashes>>
    BY DEF IInv, TypeOK, RecordObservation, At, WorkInv
  <1>2. PICK kind \in work[p].todo :
          /\ obs' = [obs EXCEPT ![TheExp(p)] = obs[TheExp(p)] \union {kind}]
          /\ work' = [work EXCEPT ![p].todo = work[p].todo \ {kind}]
    BY DEF RecordObservation
  <1> DEFINE locals == [work[p] EXCEPT !.todo = work[p].todo \ {kind}]
  <1>3. locals \in Work /\ locals.exp = TheExp(p) /\ kind \in Kinds
    BY <1>1 DEF Work, TheExp
  <1>4. work' = [work EXCEPT ![p] = locals] /\ pc' = [pc EXCEPT ![p] = "record"]
    BY <1>1, <1>2 DEF TypeOK
  <1> HIDE DEF locals
  <1>5. /\ pc' \in [Processes -> Places] /\ work' \in [Processes -> Work]
        /\ pc'[p] = "record" /\ work'[p] = locals /\ Beside(p)
    BY <1>1, <1>3, <1>4, Moves DEF Places
  <1>6. obs' \in [Experiments -> SUBSET Kinds] /\ \A e \in Experiments : obs[e] \subseteq obs'[e]
    BY <1>1, <1>2, <1>3 DEF TypeOK
  <1>7. TypeOK'
    BY <1>1, <1>5, <1>6 DEF TypeOK
  <1>8. WorkInv(p)'
    BY <1>1, <1>3, <1>5 DEF WorkInv, TheExp
  <1> QED BY <1>1, <1>5, <1>6, <1>7, <1>8, CalmStep

LEMMA ObservationRefusedKeeps ==
  ASSUME IInv, NEW p \in Processes, ObservationRefused(p)
  PROVE  IInv'
  <1> DEFINE locals == [work[p] EXCEPT !.todo = {}]
  <1>1. /\ TypeOK /\ WorkInv(p) /\ work[p] \in Work /\ pc[p] = "record"
        /\ pc' = [pc EXCEPT ![p] = "raise"] /\ work' = [work EXCEPT ![p] = locals]
        /\ UNCHANGED <<row, obs, disk, context, job, mem, validated, crashes>>
    BY DEF IInv, TypeOK, ObservationRefused, At, Goto, tables
  <1>2. locals \in Work /\ locals.exp = TheExp(p)
    BY <1>1 DEF Work, TheExp
  <1> HIDE DEF locals
  <1>3. /\ pc' \in [Processes -> Places] /\ work' \in [Processes -> Work]
        /\ pc'[p] = "raise" /\ work'[p] = locals /\ Beside(p)
    BY <1>1, <1>2, Moves DEF Places
  <1>4. TypeOK' /\ WorkInv(p)'
    BY <1>1, <1>2, <1>3 DEF TypeOK, WorkInv, TheExp
  <1> QED BY <1>1, <1>3, <1>4, CalmStep

\* An evaluation says of an experiment only what its observations say.
LEMMA EvaluatedEffect ==
  ASSUME NEW read \in SUBSET Kinds, NEW outcome \in Evaluated(read)
  PROVE  /\ outcome \in Exp
         /\ outcome.result = "passed" => "good" \in read
         /\ outcome.result = "failed" => read \intersect {"bad", "other"} # {}
  <1>1. read \subseteq {"good", "bad", "other", "text"}
    BY CycleAssumption
  <1>2. CASE read \subseteq {"text"}
    BY <1>2 DEF Evaluated, Exp, Awaiting
  <1>3. CASE ~ (read \subseteq {"text"})
    <2>1. PICK verdict \in Verdicts(read) : outcome = Complete(verdict)
      BY <1>3 DEF Evaluated
    <2>2. /\ verdict \in {"passed", "failed"}
          /\ verdict = "passed" => "good" \in read
          /\ verdict = "failed" => "bad" \in read \/ "good" \notin read
      BY DEF Verdicts
    <2>3. "good" \notin read => "bad" \in read \/ "other" \in read
      BY <1>1, <1>3
    <2> QED BY <2>1, <2>2, <2>3 DEF Exp, Complete
  <1> QED BY <1>2, <1>3

LEMMA EvaluateKeeps ==
  ASSUME IInv, NEW p \in Processes, Evaluate(p)
  PROVE  IInv'
  <1>0. PICK outcome \in Evaluated(work[p].read) :
          /\ Register(TheExp(p), outcome)
          /\ work' = [work EXCEPT ![p].object = outcome, ![p].read = {}]
          /\ Goto(p, IF outcome.status = "complete" THEN "continue" ELSE "complete")
    BY DEF Evaluate
  <1> DEFINE place == IF outcome.status = "complete" THEN "continue" ELSE "complete"
             locals == [work[p] EXCEPT !.object = outcome, !.read = {}]
  <1>1. /\ TypeOK /\ WorkInv(p) /\ work[p] \in Work /\ pc[p] = "evaluate" /\ TheExp(p) \in Experiments
        /\ work[p].read \subseteq obs[TheExp(p)]
        /\ UNCHANGED <<obs, disk, context, job, mem, validated, crashes>>
    BY DEF IInv, TypeOK, Evaluate, At, WorkInv
  <1>2. /\ Register(TheExp(p), outcome)
        /\ work' = [work EXCEPT ![p] = locals] /\ pc' = [pc EXCEPT ![p] = place]
    BY <1>0 DEF Goto
  <1>3. place \in {"continue", "complete"} /\ place \in Places
    BY DEF Places
  <1>4. /\ outcome \in Exp
        /\ outcome.result = "passed" => "good" \in obs[TheExp(p)]
        /\ outcome.result = "failed" => obs[TheExp(p)] \intersect {"bad", "other"} # {}
    <2>1. work[p].read \in SUBSET Kinds
      BY <1>1 DEF Work
    <2> QED BY <1>0, <1>1, <2>1, EvaluatedEffect
  <1> HIDE DEF place
  <1>5. locals \in Work /\ locals.exp = TheExp(p)
    BY <1>1, <1>4 DEF Work, TheExp
  <1> HIDE DEF locals
  <1>6. /\ pc' \in [Processes -> Places] /\ work' \in [Processes -> Work]
        /\ pc'[p] = place /\ work'[p] = locals /\ Beside(p)
    BY <1>1, <1>2, <1>3, <1>5, Moves
  <1>7. WorkInv(p)'
    BY <1>1, <1>3, <1>5, <1>6 DEF WorkInv, TheExp
  <1> QED BY <1>1, <1>2, <1>4, <1>6, <1>7, RegisterStep

-----------------------------------------------------------------------------
(* continue_after_experiment *)

LEMMA ContinueKeeps ==
  ASSUME IInv, NEW p \in Processes, Continue(p)
  PROVE  IInv'
  <1> DEFINE e == TheExp(p)
             experiment == Loaded(p, e)
             locals == [work[p] EXCEPT !.object = experiment]
  <1>1. /\ TypeOK /\ StoresAreFaithful /\ WorkInv(p) /\ work[p] \in Work /\ pc[p] = "continue"
        /\ e \in Experiments
        /\ UNCHANGED <<row, obs, disk, context, job, validated, crashes>>
    BY DEF IInv, TypeOK, Continue, At, WorkInv, tables
  <1>2. /\ mem' = [mem EXCEPT ![p] = [mem[p] EXCEPT ![e] = experiment]]
        /\ work' = [work EXCEPT ![p] = locals]
    BY DEF Continue
  <1>3. \E place \in {"complete", "raise", "decide"} :
          /\ Goto(p, place)
          /\ place = "decide" => experiment.status = "complete"
    BY DEF Continue
  <1>4. PICK place \in {"complete", "raise", "decide"} :
          /\ Goto(p, place)
          /\ place = "decide" => experiment.status = "complete"
    BY <1>3
  <1>5. experiment \in Exp /\ Faithful(experiment, e)
    BY <1>1 DEF Loaded, TypeOK, StoresAreFaithful, Faithful
  <1>6. locals \in Work /\ locals.exp = e /\ locals.object = experiment
    <2> HIDE DEF experiment
    <2> QED BY <1>1, <1>5 DEF Work, TheExp
  <1>7. pc' = [pc EXCEPT ![p] = place] /\ place \in Places
    BY <1>4 DEF Goto, Places
  <1> HIDE DEF locals
  <1>8. /\ pc' \in [Processes -> Places] /\ work' \in [Processes -> Work]
        /\ pc'[p] = place /\ work'[p] = locals /\ Beside(p)
    BY <1>1, <1>2, <1>6, <1>7, Moves
  <1>9. /\ mem' \in [Processes -> [Experiments -> Exp]]
        /\ \A q \in Processes, f \in Experiments : Faithful(mem'[q][f], f)
    <2> HIDE DEF experiment
    <2>1. mem' \in [Processes -> [Experiments -> Exp]]
      BY <1>1, <1>2, <1>5 DEF TypeOK
    <2>2. \A q \in Processes, f \in Experiments :
             mem'[q][f] = IF q = p /\ f = e THEN experiment ELSE mem[q][f]
      BY <1>1, <1>2 DEF TypeOK
    <2> QED BY <1>1, <1>5, <2>1, <2>2 DEF StoresAreFaithful
  <1>10. TypeOK'
    BY <1>1, <1>8, <1>9 DEF TypeOK
  <1>11. WorkInv(p)' /\ JobsAreForExperiments'
    <2>1. place = "decide" => locals.object.status = "complete" /\ row'[e] = locals.object
      BY <1>1, <1>4, <1>5, <1>6 DEF Faithful
    <2>2. TheExp(p)' = e
      BY <1>6, <1>8 DEF TheExp
    <2> QED BY <1>1, <1>8, <2>1, <2>2 DEF WorkInv, IInv, JobsAreForExperiments
  <1>12. \A f \in Experiments : Faithful(disk'[f], f)
    BY <1>1 DEF StoresAreFaithful
  <1> QED BY <1>1, <1>8, <1>9, <1>10, <1>11, <1>12, QuietStep

LEMMA DecideKeeps ==
  ASSUME IInv, NEW p \in Processes, Decide(p)
  PROVE  IInv'
  <1>1. /\ TypeOK /\ StoresAreFaithful /\ WorkInv(p) /\ pc[p] = "decide" /\ Goto(p, "close")
        /\ UNCHANGED <<row, obs, context, job, mem, work, crashes>> /\ disk' = mem[p]
    BY DEF IInv, Decide, At, Persist
  <1>2. /\ TheExp(p) \in Experiments /\ row[TheExp(p)] = work[p].object /\ work[p].object \in Exp
        /\ work[p].object.status = "complete"
    BY <1>1 DEF WorkInv, TypeOK, Work
  <1>3. validated' = [validated EXCEPT ![TheExp(p)] =
                        IF work[p].object.result = "passed" THEN validated[TheExp(p)] + 1
                        ELSE validated[TheExp(p)]]
    BY DEF Decide
  <1>4. work[p].object.result = "passed" => row[TheExp(p)] = Complete("passed")
    BY <1>2 DEF Exp, Absent, Proposed, Awaiting, Complete
  <1>5. /\ pc' \in [Processes -> Places] /\ work' \in [Processes -> Work]
        /\ pc'[p] = "close" /\ work'[p] = work[p] /\ Beside(p)
    BY <1>1, Goes DEF Places
  <1>6. /\ validated' \in [Experiments -> Nat]
        /\ \A e \in Experiments : validated[e] > 0 => validated'[e] > 0
        /\ \A e \in Experiments \ {TheExp(p)} : validated'[e] = validated[e]
        /\ work[p].object.result = "passed" => validated'[TheExp(p)] > 0
        /\ work[p].object.result # "passed" => validated'[TheExp(p)] = validated[TheExp(p)]
    BY <1>1, <1>2, <1>3 DEF TypeOK
  <1>7. TypeOK'
    BY <1>1, <1>5, <1>6 DEF TypeOK
  <1>8. Settled
    BY <1>1, <1>6 DEF Settled
  <1>9. \A e \in Experiments : RowMeasured(e) /\ ValidationEarned(e) /\ ClosingDecided(e)
    BY <1>1, <1>4, <1>6 DEF RowMeasured, ValidationEarned, ClosingDecided
  <1>10. WorkInv(p)' /\ JobsAreForExperiments'
    <2>1. TheExp(p)' = TheExp(p)
      BY <1>1 DEF TheExp
    <2> QED BY <1>1, <1>2, <1>5, <1>6, <2>1 DEF WorkInv, IInv, JobsAreForExperiments
  <1>11. /\ \A e \in Experiments : Faithful(disk'[e], e)
         /\ \A e \in Experiments, q \in Processes : Faithful(mem'[q][e], e)
    BY <1>1 DEF StoresAreFaithful
  <1> QED BY <1>5, <1>7, <1>8, <1>9, <1>10, <1>11, ProcessStep

LEMMA CloseKeeps ==
  ASSUME IInv, NEW p \in Processes, Close(p)
  PROVE  IInv'
  <1>1. /\ TypeOK /\ StoresAreFaithful /\ WorkInv(p) /\ pc[p] = "close" /\ Goto(p, "complete")
        /\ UNCHANGED <<row, obs, job, mem, work, validated, crashes>> /\ disk' = mem[p]
    BY DEF IInv, Close, At, Persist
  <1>2. /\ TheExp(p) \in Experiments /\ row[TheExp(p)].status = "complete"
        /\ row[TheExp(p)].result = "passed" => validated[TheExp(p)] > 0
    BY <1>1 DEF WorkInv
  <1>3. context' = [context EXCEPT ![TheExp(p)] = "completed"]
    BY DEF Close
  <1>4. /\ pc' \in [Processes -> Places] /\ work' \in [Processes -> Work]
        /\ pc'[p] = "complete" /\ work'[p] = work[p] /\ Beside(p)
    BY <1>1, Goes DEF Places
  <1>5. TypeOK'
    BY <1>1, <1>3, <1>4 DEF TypeOK
  <1>6. Settled
    BY <1>1 DEF Settled
  <1>7. \A e \in Experiments : RowMeasured(e) /\ ValidationEarned(e) /\ ClosingDecided(e)
    BY <1>1, <1>2, <1>3 DEF RowMeasured, ValidationEarned, ClosingDecided, TypeOK
  <1>8. WorkInv(p)' /\ JobsAreForExperiments'
    BY <1>1, <1>2, <1>4 DEF WorkInv, IInv, JobsAreForExperiments, TheExp
  <1>9. /\ \A e \in Experiments : Faithful(disk'[e], e)
        /\ \A e \in Experiments, q \in Processes : Faithful(mem'[q][e], e)
    BY <1>1 DEF StoresAreFaithful
  <1> QED BY <1>4, <1>5, <1>6, <1>7, <1>8, <1>9, ProcessStep

-----------------------------------------------------------------------------
(* The end of a job, and crashes *)

\* A job that is given up, or completes, is still for its experiment.
LEMMA GivenUpEffect ==
  ASSUME IInv, NEW j, job[j].status = "running", job' = GivenUp(j)
  PROVE  job' \in [Jobs -> Job] /\ JobsAreForExperiments'
  <1>1. TypeOK /\ JobsAreForExperiments
    BY DEF IInv
  <1>2. job' \in [Jobs -> Job] /\ \A i \in Jobs : job'[i].exp = job[i].exp /\ (i # j => job'[i].status = job[i].status)
    <2> DEFINE new == [job[j] EXCEPT !.status = IF job[j].attempts < MaxAttempts THEN "queued" ELSE "failed",
                                     !.owner = Nothing]
    <2>1. job' = [job EXCEPT ![j] = new]
      BY DEF GivenUp
    <2>2. CASE j \in Jobs
      <3>1. job[j] \in Job
        BY <1>1, <2>2 DEF TypeOK
      <3>2. new \in Job /\ new.exp = job[j].exp
        BY <3>1 DEF Job
      <3> HIDE DEF new
      <3> QED BY <1>1, <2>1, <2>2, <3>2 DEF TypeOK
    <2>3. CASE j \notin Jobs
      <3> HIDE DEF new
      <3> QED BY <1>1, <2>1, <2>3 DEF TypeOK
    <2> QED BY <2>2, <2>3
  <1> QED BY <1>1, <1>2 DEF JobsAreForExperiments

\* The handler of a job has ended, whatever became of the job.
LEMMA JobEnds ==
  ASSUME IInv, NEW p \in Processes, Return(p),
         job' \in [Jobs -> Job], JobsAreForExperiments',
         UNCHANGED <<row, obs, disk, context, mem, validated, crashes>>
  PROVE  IInv'
  <1>1. TypeOK
    BY DEF IInv
  <1>2. /\ pc' \in [Processes -> Places] /\ work' \in [Processes -> Work]
        /\ pc'[p] = "idle" /\ Beside(p)
    BY <1>1, Returns
  <1>3. TypeOK' /\ WorkInv(p)'
    BY <1>1, <1>2, Idles DEF TypeOK
  <1> QED BY <1>2, <1>3, CalmStep

LEMMA CompleteJobKeeps ==
  ASSUME IInv, NEW p \in Processes, CompleteJob(p)
  PROVE  IInv'
  <1>1. /\ TypeOK /\ JobsAreForExperiments /\ Return(p)
        /\ UNCHANGED <<row, obs, disk, context, mem, validated, crashes>>
    BY DEF IInv, CompleteJob
  <1>2. job' \in [Jobs -> Job] /\ JobsAreForExperiments'
    <2>1. CASE job' = job
      BY <1>1, <2>1 DEF TypeOK, JobsAreForExperiments
    <2>2. CASE job' # job
      <3> DEFINE j == TheJob(p)
                 new == [job[j] EXCEPT !.status = "completed", !.owner = Nothing]
      <3>1. job' = [job EXCEPT ![j] = new] /\ job[j].status = "running"
        BY <2>2 DEF CompleteJob, Owns
      <3>2. j \in Jobs
        <4> HIDE DEF j, new
        <4> QED BY <1>1, <2>2, <3>1 DEF TypeOK
      <3>3. new \in Job /\ new.exp = job[j].exp
        <4>1. job[j] \in Job
          BY <1>1, <3>2 DEF TypeOK
        <4> HIDE DEF j
        <4> QED BY <4>1 DEF Job
      <3> HIDE DEF j, new
      <3> QED BY <1>1, <3>1, <3>2, <3>3 DEF TypeOK, JobsAreForExperiments
    <2> QED BY <2>1, <2>2
  <1> QED BY <1>1, <1>2, JobEnds

LEMMA FailJobKeeps ==
  ASSUME IInv, NEW p \in Processes, FailJob(p)
  PROVE  IInv'
  <1>1. /\ TypeOK /\ JobsAreForExperiments /\ Return(p)
        /\ UNCHANGED <<row, obs, disk, context, mem, validated, crashes>>
    BY DEF IInv, FailJob
  <1>2. job' = job \/ (job[TheJob(p)].status = "running" /\ job' = GivenUp(TheJob(p)))
    BY DEF FailJob, Owns
  <1>3. job' \in [Jobs -> Job] /\ JobsAreForExperiments'
    BY <1>1, <1>2, GivenUpEffect DEF TypeOK, JobsAreForExperiments
  <1> QED BY <1>1, <1>3, JobEnds

LEMMA LeaseLapsesKeeps ==
  ASSUME IInv, NEW j \in Jobs, LeaseLapses(j)
  PROVE  IInv'
  <1>1. /\ job[j].status = "running" /\ job' = GivenUp(j)
        /\ UNCHANGED <<row, obs, disk, context, mem, pc, work, validated, crashes>>
    BY DEF LeaseLapses
  <1>2. job' \in [Jobs -> Job] /\ JobsAreForExperiments'
    BY <1>1, GivenUpEffect
  <1>3. TypeOK' /\ StoresAreFaithful'
    BY <1>1, <1>2 DEF IInv, TypeOK, StoresAreFaithful, Faithful
  <1>4. ResultIsMeasured' /\ OpportunityIsEarned' /\ ClosedCycleIsDecided'
    BY <1>1 DEF IInv, ResultIsMeasured, OpportunityIsEarned, ClosedCycleIsDecided
  <1>5. ASSUME NEW q \in Processes PROVE WorkInv(q)'
    BY <1>1 DEF IInv, WorkInv, TheExp, Faithful
  <1> QED BY <1>2, <1>3, <1>4, <1>5 DEF IInv

LEMMA RestartKeeps ==
  ASSUME IInv, NEW p \in Processes, Restart(p)
  PROVE  IInv'
  <1>1. /\ TypeOK /\ StoresAreFaithful /\ JobsAreForExperiments /\ Return(p)
        /\ UNCHANGED <<row, obs, disk, context, job, validated>>
        /\ mem' = [mem EXCEPT ![p] = disk] /\ crashes' \in 0..MaxCrashes
    BY CycleAssumption DEF IInv, TypeOK, Restart, tables
  <1>2. /\ pc' \in [Processes -> Places] /\ work' \in [Processes -> Work]
        /\ pc'[p] = "idle" /\ Beside(p)
    BY <1>1, Returns
  <1>3. mem' \in [Processes -> [Experiments -> Exp]] /\ \A q \in Processes : mem'[q] \in {disk, mem[q]}
    BY <1>1 DEF TypeOK
  <1>4. TypeOK' /\ WorkInv(p)'
    BY <1>1, <1>2, <1>3, Idles DEF TypeOK
  <1>5. /\ \A e \in Experiments : Faithful(disk'[e], e)
        /\ \A e \in Experiments, q \in Processes : Faithful(mem'[q][e], e)
    BY <1>1, <1>3 DEF StoresAreFaithful
  <1>6. JobsAreForExperiments'
    BY <1>1 DEF JobsAreForExperiments
  <1> QED BY <1>1, <1>2, <1>4, <1>5, <1>6, QuietStep

-----------------------------------------------------------------------------
(* The invariant, and what follows *)

LEMMA InitIInv == Init => IInv
  <1> SUFFICES ASSUME Init PROVE IInv
    OBVIOUS
  <1>1. TypeOK
    BY CycleAssumption DEF Init, TypeOK, Exp, Absent, Job, Unused, Work, NoWork, Places
  <1>2. ResultIsMeasured /\ OpportunityIsEarned /\ ClosedCycleIsDecided
    BY DEF Init, Absent, ResultIsMeasured, OpportunityIsEarned, ClosedCycleIsDecided
  <1>3. StoresAreFaithful /\ JobsAreForExperiments
    BY DEF Init, StoresAreFaithful, Faithful, Absent, JobsAreForExperiments, Unused
  <1>4. \A p \in Processes : WorkInv(p)
    BY DEF Init, WorkInv
  <1> QED BY <1>1, <1>2, <1>3, <1>4 DEF IInv

LEMMA NextIInv == IInv /\ [Next]_vars => IInv'
  <1> SUFFICES ASSUME IInv, [Next]_vars PROVE IInv'
    OBVIOUS
  <1>1. ASSUME NEW p \in Processes,
               \/ Propose(p) \/ SaveContext(p) \/ Resubmit(p)
               \/ SubmitRegisters(p) \/ SubmitFinds(p) \/ SubmitReads(p) \/ SubmitEnqueues(p)
        PROVE  IInv'
    BY <1>1, ProposeKeeps, SaveContextKeeps, ResubmitKeeps, SubmitRegistersKeeps, SubmitFindsKeeps,
       SubmitReadsKeeps, SubmitEnqueuesKeeps
  <1>2. ASSUME NEW p \in Processes,
               \/ Claim(p) \/ Fetch(p) \/ Collect(p) \/ Query(p) \/ Execute(p)
               \/ RecordObservation(p) \/ ObservationRefused(p) \/ ReadObservations(p) \/ Evaluate(p)
        PROVE  IInv'
    BY <1>2, ClaimKeeps, FetchKeeps, CollectKeeps, ReadingsKeep, ExecuteKeeps,
       RecordObservationKeeps, ObservationRefusedKeeps, EvaluateKeeps
  <1>3. ASSUME NEW p \in Processes,
               \/ Continue(p) \/ Decide(p) \/ Close(p)
               \/ CompleteJob(p) \/ FailJob(p) \/ Restart(p)
        PROVE  IInv'
    BY <1>3, ContinueKeeps, DecideKeeps, CloseKeeps, CompleteJobKeeps, FailJobKeeps, RestartKeeps
  <1>4. CASE UNCHANGED vars
    <2>1. UNCHANGED <<row, obs, disk, context, job, mem, pc, work, validated, crashes>>
      BY <1>4 DEF vars
    <2>2. TypeOK' /\ StoresAreFaithful' /\ JobsAreForExperiments'
      BY <2>1 DEF IInv, TypeOK, StoresAreFaithful, Faithful, JobsAreForExperiments
    <2>3. ResultIsMeasured' /\ OpportunityIsEarned' /\ ClosedCycleIsDecided'
      BY <2>1 DEF IInv, ResultIsMeasured, OpportunityIsEarned, ClosedCycleIsDecided
    <2>4. \A p \in Processes : WorkInv(p)'
      BY <2>1 DEF IInv, WorkInv, TheExp, Faithful
    <2> QED BY <2>2, <2>3, <2>4 DEF IInv
  <1> QED BY <1>1, <1>2, <1>3, <1>4, LeaseLapsesKeeps DEF Next

\* Rows, copies, jobs and the calls between their steps stay consistent, whatever
\* the processes do and wherever they crash (the property the others follow from).
THEOREM Invariance == Spec => []IInv
  BY InitIInv, NextIInv, PTL DEF Spec

\* Types: no step of any process, and no crash, leaves them.
THEOREM TypeCorrect == Spec => []TypeOK
  <1>1. IInv => TypeOK
    BY DEF IInv
  <1> QED BY <1>1, Invariance, PTL

\* No result without a measurement on record that supports it, whichever of the
\* processes that hold copies of the experiment writes it.
THEOREM ResultsAreMeasured == Spec => []ResultIsMeasured
  <1>1. IInv => ResultIsMeasured
    BY DEF IInv
  <1> QED BY <1>1, Invariance, PTL

\* An opportunity that a process validates on its copy rests on the durable result.
THEOREM OpportunitiesAreEarned == Spec => []OpportunityIsEarned
  <1>1. IInv => OpportunityIsEarned
    BY DEF IInv
  <1> QED BY <1>1, Invariance, PTL

\* A cycle is closed only when its experiment is complete and decided, even if
\* several attempts continue it, or die between the decision and the closing.
THEOREM ClosedCyclesAreDecided == Spec => []ClosedCycleIsDecided
  <1>1. IInv => ClosedCycleIsDecided
    BY DEF IInv
  <1> QED BY <1>1, Invariance, PTL
=============================================================================
