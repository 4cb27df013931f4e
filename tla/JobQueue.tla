------------------------------ MODULE JobQueue ------------------------------
(***************************************************************************)
(* PersistentJobQueue.execute with AutonomyJobRunner (src/aurelix_runtime/ *)
(* job_queue.py, job_runner.py): the other way in which processes run jobs *)
(* of the durable store.  A queue claims a job under its own worker id, but*)
(* both the runner it then calls and its own exception path read the row   *)
(* again and present the credentials they find there.                      *)
(*                                                                         *)
(* pc[p] is "idle" outside execute; "claimed" after the claim; "working"   *)
(* while AutonomyFabric.run_claimed runs with the credentials cred[p] the  *)
(* runner read; "stored" when run_claimed has completed the job and has    *)
(* audits and messages left to emit; "raised" in the exception path;       *)
(* "finishing" when it holds the credentials it read there.  Every end of  *)
(* execute, normal or by exception, is "idle": its caller may call again.  *)
(***************************************************************************)
EXTENDS JobTable

CONSTANT MaxAttempts   \* the 3 that claim, execute and recovery all use here

ASSUME QueueAssumption == MaxAttempts \in Nat \ {0}

VARIABLES
  pc,    \* where each process is in execute
  task,  \* the job it executes
  cred   \* the credentials <<worker_id, lease_token>> it read last

queueVars == <<pc, task, cred>>
vars == <<job, result, call, pc, task, cred>>

NoCred == <<NoWorker, 0>>

Places == {"idle", "claimed", "working", "stored", "raised", "finishing"}

TypeOKAt(places) ==
  /\ TableTypeOK
  /\ pc \in [Workers -> places]
  /\ task \in [Workers -> Jobs \union {NoJob}]
  /\ cred \in [Workers -> (Workers \union {NoWorker}) \X Nat]

TypeOK == TypeOKAt(Places)

Init ==
  /\ TableInit
  /\ pc = [p \in Workers |-> "idle"]
  /\ task = [p \in Workers |-> NoJob]
  /\ cred = [p \in Workers |-> NoCred]

-----------------------------------------------------------------------------

Goto(p, place) == pc' = [pc EXCEPT ![p] = place]

\* execute returned or raised.
Leave(p) ==
  /\ Goto(p, "idle")
  /\ task' = [task EXCEPT ![p] = NoJob]
  /\ cred' = [cred EXCEPT ![p] = NoCred]

\* The credentials that are in the row now.
ReadCredentials(p) == cred' = [cred EXCEPT ![p] = <<job[task[p]].worker, job[task[p]].token>>]

Submit(j) == Enqueue(j) /\ UNCHANGED queueVars

\* execute of a job that is not terminal: claim it.
Execute(p) ==
  /\ pc[p] = "idle"
  /\ \E j \in Jobs :
       /\ ClaimThisRow(p, j, MaxAttempts)
       /\ task' = [task EXCEPT ![p] = j]
  /\ Goto(p, "claimed")
  /\ UNCHANGED cred

\* AutonomyJobRunner.execute reads the row that execute has claimed.
RunnerReads(p) ==
  LET status == job[task[p]].status
  IN /\ pc[p] = "claimed"
     /\ UNCHANGED tableVars
     /\ \/ status = "completed" /\ Leave(p)
        \/ status = "running" /\ ReadCredentials(p) /\ Goto(p, "working") /\ UNCHANGED task
        \/ status \notin {"completed", "running"} /\ Goto(p, "raised") /\ UNCHANGED <<task, cred>>

\* The heartbeat thread of run_claimed renews the lease it was given.
Beat(p) ==
  /\ pc[p] = "working"
  /\ Heartbeat(p, task[p], cred[p][1], cred[p][2])
  /\ UNCHANGED queueVars

\* run_claimed completes the job with the credentials the runner read.
RunCompletes(p) ==
  LET outcome == CompleteOutcome(task[p], cred[p][1], cred[p][2])
  IN /\ pc[p] = "working"
     /\ \/ /\ CompleteRow(p, task[p], cred[p][1], cred[p][2])
           /\ Goto(p, "stored")
        \/ /\ outcome = "existing"
           /\ UNCHANGED tableVars
           /\ Goto(p, "stored")
        \/ /\ outcome \notin {"stored", "existing"}
           /\ UNCHANGED tableVars
           /\ Goto(p, "raised")
     /\ UNCHANGED <<task, cred>>

\* A stage of run_claimed raises, before or after it completed the job.
RunRaises(p) ==
  /\ pc[p] \in {"working", "stored"}
  /\ Goto(p, "raised")
  /\ UNCHANGED <<job, result, call, task, cred>>

RunReturns(p) ==
  /\ pc[p] = "stored"
  /\ Leave(p)
  /\ UNCHANGED tableVars

\* The exception path reads the row again and, if it is running, goes on to
\* finish with what it read.
HandlerReads(p) ==
  /\ pc[p] = "raised"
  /\ UNCHANGED tableVars
  /\ \/ Running(task[p]) /\ ReadCredentials(p) /\ Goto(p, "finishing") /\ UNCHANGED task
     \/ ~Running(task[p]) /\ Leave(p)

\* Mutant of CallFinish: one attempt too few.
CallFinishOnceLess(p) ==
  LET j == task[p]
      w == cred[p][1]
      t == cred[p][2]
  IN /\ pc[p] = "finishing"
     /\ LockFree(p)
     /\ \/ FinishCheck(p, j, w, t, t + 1 < MaxAttempts) /\ UNCHANGED queueVars
        \/ ~OwnedBy(j, w, t) /\ Leave(p) /\ UNCHANGED tableVars

\* finish raises when the row has moved on since it was read.
CallFinish(p) ==
  LET j == task[p]
      w == cred[p][1]
      t == cred[p][2]
  IN /\ pc[p] = "finishing"
     /\ LockFree(p)
     /\ \/ FinishCheck(p, j, w, t, t < MaxAttempts) /\ UNCHANGED queueVars
        \/ ~OwnedBy(j, w, t) /\ Leave(p) /\ UNCHANGED tableVars

FinishReturns(p) ==
  /\ pc[p] = "finishing"
  /\ FinishApply(p)
  /\ Leave(p)

\* recover_running, of a queue that starts or, with stale_after_seconds = 0
\* (force), of an administrator.
Recover ==
  \E force \in BOOLEAN :
    /\ Due(force) # {}
    /\ RecoverRows(MaxAttempts, force)
    /\ UNCHANGED queueVars

Crash(p) ==
  /\ DropCall(p)
  /\ Leave(p)

TimePasses == Tick /\ UNCHANGED queueVars

Next ==
  \/ \E j \in Jobs : Submit(j)
  \/ \E p \in Workers :
       \/ Execute(p) \/ RunnerReads(p) \/ Beat(p) \/ RunCompletes(p)
       \/ RunRaises(p) \/ RunReturns(p) \/ HandlerReads(p)
       \/ CallFinish(p) \/ FinishReturns(p) \/ Crash(p)
  \/ Recover
  \/ TimePasses

Spec == Init /\ [][Next]_vars

-----------------------------------------------------------------------------
(* Properties *)

\* However often credentials are read again, each job follows the life cycle
\* the store promises.
Lifecycle == INSTANCE JobLifecycle WITH
  Outcomes <- Verdict \ {NoResult},
  NoOutcome <- NoResult,
  state <- [j \in Jobs |-> job[j].status],
  outcome <- result

ImplementsLifecycle == Lifecycle!Spec

\* A job is failed for good only after its last attempt, although the attempt
\* count that execute compares is one it read before finish.
FailedOnlyWhenSpent ==
  \A j \in Jobs : job[j].status = "failed" => job[j].attempts = MaxAttempts
=============================================================================
