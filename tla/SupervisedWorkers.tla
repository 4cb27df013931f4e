-------------------------- MODULE SupervisedWorkers --------------------------
(***************************************************************************)
(* RuntimeService and its SupervisedWorker over a PersistentJobQueue       *)
(* (src/aurelix_runtime/service.py, supervised_worker.py), on a store that *)
(* processes which call PersistentJobQueue.execute share.                  *)
(*                                                                         *)
(* run_once keeps the credentials of its claim, where execute reads them   *)
(* again.  pc[p] is "piping" while the governed pipeline runs, "failing"   *)
(* in run_once's exception path, and "ended" when an exception has left    *)
(* run_once and, through run_forever's finally, ended the service.         *)
(*                                                                         *)
(* The snapshot that run_once iterates over only leaves rows out: claim    *)
(* looks at the row itself.  The kind of a job is looked at by neither.    *)
(***************************************************************************)
EXTENDS JobQueue

CONSTANT WorkerAttempts   \* WorkerConfig.max_attempts

ASSUME WorkerAssumption == WorkerAttempts \in 1..MaxAttempts

\* run_once claims a row under its own worker id and takes its credentials.
ClaimSnapshot(p) ==
  /\ pc[p] = "idle"
  /\ \E j \in Jobs :
       /\ ClaimThisRow(p, j, WorkerAttempts)
       /\ task' = [task EXCEPT ![p] = j]
       /\ cred' = [cred EXCEPT ![p] = <<p, job[j].attempts + 1>>]
  /\ Goto(p, "piping")

\* The lease thread of run_once.
LeaseBeat(p) ==
  /\ pc[p] \in {"piping", "failing"}
  /\ Heartbeat(p, task[p], cred[p][1], cred[p][2])
  /\ UNCHANGED queueVars

\* The pipeline has returned, whatever its status: the job is completed.  A
\* lost lease is recorded; a row that is neither running nor completed raises.
PipelineReturns(p) ==
  LET outcome == CompleteOutcome(task[p], cred[p][1], cred[p][2])
  IN /\ pc[p] = "piping"
     /\ \/ /\ CompleteRow(p, task[p], cred[p][1], cred[p][2])
           /\ Leave(p)
        \/ /\ outcome \in {"existing", "LeaseLostError"}
           /\ UNCHANGED tableVars
           /\ Leave(p)
        \/ /\ outcome = "RuntimeError"
           /\ UNCHANGED <<tableVars, task, cred>>
           /\ Goto(p, "failing")

PipelineRaises(p) ==
  /\ pc[p] = "piping"
  /\ Goto(p, "failing")
  /\ UNCHANGED <<tableVars, task, cred>>

\* Mutant of Held: the credentials are read again, as execute does.
HeldNow(p) == <<job[task[p]].worker, job[task[p]].token>>

\* The credentials that run_once presents.
Held(p) == cred[p]

\* finish: it lost the lease, which is recorded; or the row is not running any
\* more, and the RuntimeError leaves run_once.
Finish(p) ==
  LET j == task[p]
      c == Held(p)
  IN /\ pc[p] = "failing"
     /\ LockFree(p)
     /\ \/ FinishCheck(p, j, c[1], c[2], cred[p][2] < WorkerAttempts) /\ UNCHANGED queueVars
        \/ /\ Running(j) /\ ~OwnedBy(j, c[1], c[2])
           /\ Leave(p)
           /\ UNCHANGED tableVars
        \/ /\ ~Running(j)
           /\ Goto(p, "ended")
           /\ UNCHANGED <<tableVars, task, cred>>

FinishWrites(p) ==
  /\ pc[p] = "failing"
  /\ FinishApply(p)
  /\ Leave(p)

\* RuntimeService.start recovers the rows whose lease has passed.
ServiceStarts(p) ==
  /\ pc[p] = "ended"
  /\ RecoverRows(MaxAttempts, FALSE)
  /\ Leave(p)

Supervise(p) ==
  \/ ClaimSnapshot(p) \/ LeaseBeat(p) \/ PipelineReturns(p) \/ PipelineRaises(p)
  \/ Finish(p) \/ FinishWrites(p) \/ ServiceStarts(p)

SupervisedNext ==
  \/ Next
  \/ \E p \in Workers : Supervise(p)

SupervisedSpec == Init /\ [][SupervisedNext]_vars

-----------------------------------------------------------------------------
(* Properties *)

SupervisedTypeOK == TypeOKAt(Places \union {"piping", "failing", "ended"})

\* A supervised worker touches no row but the one it claimed, in the attempt
\* it claimed it for, however late it comes back from its pipeline.  (execute
\* gives no such promise: it may fail an attempt of another process.)
OwnAttemptOnly ==
  [][\A p \in Workers, j \in Jobs :
       /\ pc[p] \in {"piping", "failing"}
       /\ pc'[p] \notin {pc[p], "ended"}
       /\ job'[j] # job[j]
       => <<job[j].worker, job[j].token>> = cred[p]]_vars
=============================================================================
