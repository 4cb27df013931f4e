------------------------------ MODULE JobTable ------------------------------
(***************************************************************************)
(* The durable job rows of RuntimeStore (src/aurelix_runtime/persistence.py)*)
(* and the operations on them, one action per transaction of the database. *)
(*                                                                         *)
(* Every worker is a process with a RuntimeStore of its own on the shared  *)
(* SQLite file.  RuntimeStore.lock serialises the threads of one process;  *)
(* only transactions serialise the processes.  complete, claim, claim_next *)
(* and recover_running_jobs run under BEGIN IMMEDIATE and are one step.    *)
(* finish(success=False) and record_result read the row before their first *)
(* write opens a transaction, so they are two steps (Check and Apply) with *)
(* the steps of other processes in between; call[w] remembers the call     *)
(* that passed its check, and while it is there the process's lock is held.*)
(* An operation names the calling process p and the credentials <<w, t>>   *)
(* (worker_id, lease_token) it presents, which need not be its own.        *)
(*                                                                         *)
(* Abstractions.  A lease token is a fresh uuid per claim; a claim also    *)
(* increments attempts, so the number of the attempt stands for the token. *)
(* lease_until is the number of ticks left, 0 when it has passed.          *)
(* created_at is the set of rows that were there before.  A result is the  *)
(* kind of verdict it carries and which attempt produced it (0: recovery). *)
(***************************************************************************)
EXTENDS Naturals

CONSTANTS
  Jobs,        \* job identifiers (execution ids)
  Workers,     \* worker processes
  NoWorker,    \* the NULL of column worker_id
  NoJob,       \* the job of no call
  LeaseTicks   \* lease_seconds, in ticks of the model's clock

ASSUME TableAssumption ==
  /\ NoWorker \notin Workers
  /\ NoJob \notin Jobs
  /\ LeaseTicks \in Nat \ {0}

VARIABLES
  job,      \* table jobs: one row per job
  result,   \* table job_results
  call      \* per process: the finish or record_result that passed its check

tableVars == <<job, result, call>>

Terminal == {"completed", "failed"}
Statuses == {"absent", "queued", "running"} \union Terminal

Row == [status: Statuses, attempts: Nat, worker: Workers \union {NoWorker},
        token: Nat, lease: 0..LeaseTicks, before: SUBSET Jobs]

NoRow == [status |-> "absent", attempts |-> 0, worker |-> NoWorker,
          token |-> 0, lease |-> 0, before |-> {}]

Verdict == [kind: {"none", "work", "failure"}, attempt: Nat]

NoResult   == [kind |-> "none", attempt |-> 0]
Work(t)    == [kind |-> "work", attempt |-> t]     \* what the handler returned
Failure(t) == [kind |-> "failure", attempt |-> t]  \* {"ok": False, "error": ...}

Call   == [op: {"idle", "retry", "fail", "record"}, job: Jobs \union {NoJob},
           worker: Workers \union {NoWorker}, token: Nat]
NoCall == [op |-> "idle", job |-> NoJob, worker |-> NoWorker, token |-> 0]

TableTypeOK ==
  /\ job \in [Jobs -> Row]
  /\ result \in [Jobs -> Verdict]
  /\ call \in [Workers -> Call]

TableInit ==
  /\ job = [j \in Jobs |-> NoRow]
  /\ result = [j \in Jobs |-> NoResult]
  /\ call = [w \in Workers |-> NoCall]

-----------------------------------------------------------------------------

Running(j) == job[j].status = "running"

\* The row is running under exactly these credentials.
OwnedBy(j, w, t) == Running(j) /\ job[j].worker = w /\ job[j].token = t

\* No call of the process is between its check and its write.
LockFree(p) == call[p] = NoCall

\* The row with its ownership columns cleared.
Released(j, status) ==
  [job[j] EXCEPT !.status = status, !.worker = NoWorker, !.token = 0, !.lease = 0]

\* Mutant of InsertResult: the result is not stored.
InsertResultForgotten(j, verdict) == UNCHANGED result

\* INSERT ... ON CONFLICT(job_id) DO NOTHING
InsertResult(j, verdict) ==
  result' = [result EXCEPT ![j] = IF @ = NoResult THEN verdict ELSE @]

Enqueue(j) ==
  /\ job[j].status = "absent"
  /\ job' = [job EXCEPT ![j].status = "queued",
                        ![j].before = {k \in Jobs : job[k].status # "absent"}]
  /\ UNCHANGED <<result, call>>

\* Mutant of Claimable: failed and completed rows may be claimed again.
ClaimableAgain(j, limit) ==
  job[j].status \in {"queued"} \union Terminal /\ job[j].attempts < limit

Claimable(j, limit) == job[j].status = "queued" /\ job[j].attempts < limit

\* Mutant of ClaimRow: the token of the attempt before.
ClaimRowReusesToken(w, j) ==
  /\ LockFree(w)
  /\ job' = [job EXCEPT ![j].status = "running",
                        ![j].attempts = @ + 1,
                        ![j].worker = w,
                        ![j].token = job[j].attempts,
                        ![j].lease = LeaseTicks]
  /\ UNCHANGED <<result, call>>

\* _claim_row: a fresh token and a full lease.
ClaimRow(w, j) ==
  /\ LockFree(w)
  /\ job' = [job EXCEPT ![j].status = "running",
                        ![j].attempts = @ + 1,
                        ![j].worker = w,
                        ![j].token = job[j].attempts + 1,
                        ![j].lease = LeaseTicks]
  /\ UNCHANGED <<result, call>>

\* claim_next takes the oldest claimable row.
ClaimNextRow(w, j, limit) ==
  /\ Claimable(j, limit)
  /\ \A k \in job[j].before : ~Claimable(k, limit)
  /\ ClaimRow(w, j)

\* claim takes the row it is told to take.
ClaimThisRow(w, j, limit) ==
  /\ Claimable(j, limit)
  /\ ClaimRow(w, j)

\* heartbeat renews a lease that has not passed; otherwise it returns False.
Heartbeat(p, j, w, t) ==
  /\ LockFree(p)
  /\ OwnedBy(j, w, t)
  /\ job[j].lease > 0
  /\ job' = [job EXCEPT ![j].lease = LeaseTicks]
  /\ UNCHANGED <<result, call>>

-----------------------------------------------------------------------------

\* Mutant of CompleteOutcome: a caller that lost its lease is told of success.
CompleteOutcomeUnfenced(j, w, t) ==
  CASE OwnedBy(j, w, t)                         -> "stored"
    [] job[j].status \in {"running", "completed"} /\ ~OwnedBy(j, w, t) -> "existing"
    [] OTHER                                    -> "RuntimeError"

\* What complete does: "stored", or "existing" (the durable result, whoever
\* asks), or one of its two exceptions.
CompleteOutcome(j, w, t) ==
  CASE job[j].status = "completed"    -> "existing"
    [] OwnedBy(j, w, t)               -> "stored"
    [] Running(j) /\ ~OwnedBy(j, w, t) -> "LeaseLostError"
    [] OTHER                          -> "RuntimeError"

\* complete: result and status in one transaction.  The lease may have passed.
CompleteRow(p, j, w, t) ==
  /\ LockFree(p)
  /\ CompleteOutcome(j, w, t) = "stored"
  /\ InsertResult(j, Work(t))
  /\ job' = [job EXCEPT ![j] = Released(j, "completed")]
  /\ UNCHANGED call

\* finish(success=False): the SELECT and its three checks.
FinishCheck(p, j, w, t, retry) ==
  /\ LockFree(p)
  /\ OwnedBy(j, w, t)
  /\ call' = [call EXCEPT ![p] = [op |-> IF retry THEN "retry" ELSE "fail",
                                  job |-> j, worker |-> w, token |-> t]]
  /\ UNCHANGED <<job, result>>

\* finish(success=False): the conditional UPDATE, whose row count nobody
\* looks at, and the INSERT of the failure in the same transaction.
FinishApply(p) ==
  LET j == call[p].job
      t == call[p].token
      retry == call[p].op = "retry"
  IN /\ call[p].op \in {"retry", "fail"}
     /\ job' = IF OwnedBy(j, call[p].worker, t)
               THEN [job EXCEPT ![j] = Released(j, IF retry THEN "queued" ELSE "failed")]
               ELSE job
     /\ IF retry THEN UNCHANGED result ELSE InsertResult(j, Failure(t))
     /\ call' = [call EXCEPT ![p] = NoCall]

\* record_result: the SELECT and its checks, the only ones that read the lease.
RecordCheck(p, j, w, t) ==
  /\ LockFree(p)
  /\ OwnedBy(j, w, t)
  /\ job[j].lease > 0
  /\ call' = [call EXCEPT ![p] = [op |-> "record", job |-> j, worker |-> w, token |-> t]]
  /\ UNCHANGED <<job, result>>

\* record_result: the INSERT, which says nothing of the row.
RecordApply(p) ==
  /\ call[p].op = "record"
  /\ InsertResult(call[p].job, Work(call[p].token))
  /\ call' = [call EXCEPT ![p] = NoCall]
  /\ UNCHANGED job

-----------------------------------------------------------------------------

\* Mutants of Due: the lease is not looked at; the status is not looked at.
DueIgnoresLease(force) == {j \in Jobs : Running(j)}
DueIgnoresStatus(force) ==
  {j \in Jobs : job[j].status # "absent" /\ (force \/ job[j].lease = 0)}

\* Rows that recover_running_jobs acts on: leases that have passed, or every
\* running row when stale_after_seconds is 0 (force).
Due(force) == {j \in Jobs : Running(j) /\ (force \/ job[j].lease = 0)}

\* Mutants of RecoveredStatus: rows are left interrupted; spent rows are queued.
RecoveredInterrupted(j, limit) == IF result[j] # NoResult THEN "completed" ELSE "interrupted"
RecoveredForever(j, limit) == IF result[j] # NoResult THEN "completed" ELSE "queued"

\* A row with a durable result is completed, one whose attempts are spent is
\* failed, any other is queued again ("interrupted" lasts inside the transaction).
RecoveredStatus(j, limit) ==
  IF result[j] # NoResult THEN "completed"
  ELSE IF job[j].attempts >= limit THEN "failed" ELSE "queued"

RecoverRows(limit, force) ==
  LET due == Due(force)
  IN /\ job' = [j \in Jobs |->
                  IF j \in due THEN Released(j, RecoveredStatus(j, limit)) ELSE job[j]]
     /\ result' = [j \in Jobs |->
                     IF j \in due /\ RecoveredStatus(j, limit) = "failed"
                     THEN Failure(0) ELSE result[j]]
     /\ UNCHANGED call

\* Time passes for every lease that is being held.
Tick ==
  /\ \E j \in Jobs : job[j].lease > 0
  /\ job' = [j \in Jobs |->
               [job[j] EXCEPT !.lease = IF job[j].lease > 0 THEN job[j].lease - 1 ELSE 0]]
  /\ UNCHANGED <<result, call>>

\* The process dies: its lock, and a call that had not written, are gone.
DropCall(p) ==
  /\ call' = [call EXCEPT ![p] = NoCall]
  /\ UNCHANGED <<job, result>>
=============================================================================
