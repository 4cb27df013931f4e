----------------------- MODULE SupervisedWorkersProofs -----------------------
(***************************************************************************)
(* Proofs about SupervisedWorkers, and with it about JobQueue and JobTable,*)
(* for any number of jobs and of processes: the types, the life cycle of   *)
(* every job, that no job is failed before its last attempt, and that a    *)
(* supervised worker touches only the attempt it claimed.                  *)
(*                                                                         *)
(* The argument.  The token of a running row is its number of attempts, so *)
(* a call that passed finish's check with token t finds, when it writes,   *)
(* either the row in attempt t still or a row it must not change; the      *)
(* decision to fail, taken on t, is then a decision on the row's attempts. *)
(* A job that ended has its result, so a failure that is written late to   *)
(* a job that somebody else ended changes nothing.                         *)
(***************************************************************************)
EXTENDS SupervisedWorkers, TLAPS

\* What every row satisfies between transactions.
RowInv(j) ==
  /\ job[j].attempts <= MaxAttempts
  /\ Running(j) => job[j].token = job[j].attempts
  /\ job[j].status = "failed" => job[j].attempts >= WorkerAttempts
  /\ job[j].status \in Terminal => result[j] # NoResult

\* A finish between its check and its write is of the job and the credentials
\* its process holds, and fails a job only if they are of a last attempt.
CallInv(p) ==
  /\ call[p].op \in {"retry", "fail"}
  /\ pc[p] \in {"finishing", "failing"}
  /\ call[p].job = task[p]
  /\ <<call[p].worker, call[p].token>> = cred[p]
  /\ job[task[p]].status # "absent"
  /\ call[p].op = "fail" => call[p].token >= WorkerAttempts

IInv ==
  /\ SupervisedTypeOK
  /\ \A j \in Jobs : RowInv(j)
  /\ \A p \in Workers : pc[p] # "idle" => task[p] \in Jobs
  /\ \A p \in Workers : ~LockFree(p) => CallInv(p)

-----------------------------------------------------------------------------
(* What each transaction does to the rows *)

\* Every row keeps its invariant, follows its life cycle and is there for good.
RowStep(k) ==
  /\ RowInv(k)'
  /\ Lifecycle!JobStep(k)
  /\ job'[k].status = "absent" => job[k].status = "absent"

RowsStep ==
  /\ job' \in [Jobs -> Row]
  /\ result' \in [Jobs -> Verdict]
  /\ \A k \in Jobs : RowStep(k)

\* A transaction that rewrites one row and its result is judged by that row.
LEMMA OneRow ==
  ASSUME IInv, NEW j \in Jobs, NEW row \in Row, NEW verdict \in Verdict,
         job' = [job EXCEPT ![j] = row], result' = [result EXCEPT ![j] = verdict],
         RowStep(j)
  PROVE  RowsStep
  <1>1. job \in [Jobs -> Row] /\ result \in [Jobs -> Verdict]
    BY DEF IInv, SupervisedTypeOK, TypeOKAt, TableTypeOK
  <1>2. ASSUME NEW k \in Jobs, k # j PROVE RowStep(k)
    <2>1. job'[k] = job[k] /\ result'[k] = result[k]
      BY <1>1, <1>2
    <2>2. RowInv(k)
      BY DEF IInv
    <2> QED
      BY <2>1, <2>2
      DEF RowStep, RowInv, Running, Lifecycle!JobStep, Lifecycle!Rest, Lifecycle!KeepOutcome
  <1> QED BY <1>1, <1>2 DEF RowsStep

\* Nothing happens to the table.
LEMMA NoRows ==
  ASSUME IInv, UNCHANGED <<job, result>>
  PROVE  RowsStep
  BY DEF IInv, SupervisedTypeOK, TypeOKAt, TableTypeOK, RowsStep, RowStep, RowInv, Running,
         Lifecycle!JobStep, Lifecycle!Rest, Lifecycle!KeepOutcome

\* What InsertResult leaves behind, and that it never overwrites.
LEMMA Inserted ==
  ASSUME IInv, NEW j \in Jobs, NEW verdict \in Verdict, verdict # NoResult,
         InsertResult(j, verdict)
  PROVE  \E v \in Verdict :
           /\ result' = [result EXCEPT ![j] = v]
           /\ v # NoResult
           /\ result[j] # NoResult => v = result[j]
  BY DEF IInv, SupervisedTypeOK, TypeOKAt, TableTypeOK, InsertResult

LEMMA KindsOfVerdict ==
  ASSUME NEW t \in Nat
  PROVE  /\ Work(t) \in Verdict /\ Failure(t) \in Verdict
         /\ Work(t) # NoResult /\ Failure(t) # NoResult
         /\ NoResult \in Verdict
  BY DEF Work, Failure, NoResult, Verdict

LEMMA ReleasedRow ==
  ASSUME NEW j \in Jobs, NEW status \in Statuses, job[j] \in Row
  PROVE  /\ Released(j, status) \in Row
         /\ Released(j, status).status = status
         /\ Released(j, status).attempts = job[j].attempts
  <1>1. 0 \in 0..LeaseTicks /\ 0 \in Nat /\ NoWorker \in Workers \union {NoWorker}
    BY TableAssumption
  <1> QED BY <1>1 DEF Released, Row

LEMMA Enqueues ==
  ASSUME IInv, NEW j \in Jobs, Enqueue(j)
  PROVE  RowsStep
  <1> DEFINE before == {k \in Jobs : job[k].status # "absent"}
             row == [job[j] EXCEPT !.status = "queued", !.before = before]
  <1>1. job \in [Jobs -> Row] /\ result \in [Jobs -> Verdict] /\ RowInv(j)
    BY DEF IInv, SupervisedTypeOK, TypeOKAt, TableTypeOK
  <1>2. row \in Row /\ row.status = "queued" /\ row.attempts = job[j].attempts
    <2>1. "queued" \in Statuses /\ before \in SUBSET Jobs /\ job[j] \in Row
      BY <1>1 DEF Statuses
    <2> HIDE DEF before
    <2> QED BY <2>1 DEF Row
  <1>3. job[j].status = "absent" /\ UNCHANGED result
    BY DEF Enqueue
  <1>4. job' = [job EXCEPT ![j] = row]
    BY <1>1 DEF Enqueue, Row
  <1> HIDE DEF row
  <1>5. result' = [result EXCEPT ![j] = result[j]]
    BY <1>1, <1>3
  <1>6. job'[j] = row /\ result'[j] = result[j]
    BY <1>1, <1>3, <1>4
  <1>7. RowStep(j)
    BY <1>1, <1>2, <1>3, <1>6
    DEF RowStep, RowInv, Running, Terminal, Lifecycle!JobStep, Lifecycle!Submit,
        Lifecycle!KeepOutcome
  <1> QED BY <1>1, <1>2, <1>4, <1>5, <1>7, OneRow

\* A claim under either limit leaves the attempts within MaxAttempts.
LEMMA Claims ==
  ASSUME IInv, NEW p \in Workers, NEW j \in Jobs,
         NEW limit \in Nat, limit <= MaxAttempts, ClaimThisRow(p, j, limit)
  PROVE  RowsStep
  <1> DEFINE row == [job[j] EXCEPT !.status = "running", !.attempts = @ + 1, !.worker = p,
                                   !.token = job[j].attempts + 1, !.lease = LeaseTicks]
  <1>1. job \in [Jobs -> Row] /\ result \in [Jobs -> Verdict] /\ RowInv(j) /\ job[j] \in Row
    BY DEF IInv, SupervisedTypeOK, TypeOKAt, TableTypeOK
  <1>2. /\ row \in Row
        /\ row.status = "running"
        /\ row.attempts = job[j].attempts + 1
        /\ row.token = job[j].attempts + 1
    <2>1. /\ "running" \in Statuses
          /\ p \in Workers \union {NoWorker}
          /\ LeaseTicks \in 0..LeaseTicks
      BY TableAssumption DEF Statuses
    <2>2. job[j].attempts + 1 \in Nat
      BY <1>1 DEF Row
    <2> QED BY <1>1, <2>1, <2>2 DEF Row
  <1>3. job[j].status = "queued" /\ job[j].attempts < limit /\ UNCHANGED result
    BY DEF ClaimThisRow, Claimable, ClaimRow
  <1>4. job' = [job EXCEPT ![j] = row]
    BY <1>1 DEF ClaimThisRow, ClaimRow, Row
  <1> HIDE DEF row
  <1>5. result' = [result EXCEPT ![j] = result[j]]
    BY <1>1, <1>3
  <1>6. job'[j] = row /\ result'[j] = result[j]
    BY <1>1, <1>3, <1>4
  <1>7. job[j].attempts + 1 <= MaxAttempts
    BY <1>1, <1>3, QueueAssumption DEF Row
  <1>8. RowStep(j)
    BY <1>1, <1>2, <1>3, <1>6, <1>7
    DEF RowStep, RowInv, Running, Terminal, Lifecycle!JobStep, Lifecycle!Start,
        Lifecycle!KeepOutcome
  <1> QED BY <1>1, <1>2, <1>4, <1>5, <1>8, OneRow

LEMMA Renews ==
  ASSUME IInv, NEW p, NEW j \in Jobs, NEW w, NEW t, Heartbeat(p, j, w, t)
  PROVE  RowsStep
  <1> DEFINE row == [job[j] EXCEPT !.lease = LeaseTicks]
  <1>1. job \in [Jobs -> Row] /\ result \in [Jobs -> Verdict] /\ RowInv(j)
    BY DEF IInv, SupervisedTypeOK, TypeOKAt, TableTypeOK
  <1>2. /\ row \in Row
        /\ row.status = job[j].status
        /\ row.attempts = job[j].attempts
        /\ row.token = job[j].token
    BY <1>1, TableAssumption DEF Row
  <1>3. job' = [job EXCEPT ![j] = row]
    BY <1>1 DEF Heartbeat, Row
  <1> HIDE DEF row
  <1>4. result' = [result EXCEPT ![j] = result[j]]
    BY <1>1 DEF Heartbeat
  <1>5. job'[j] = row /\ result'[j] = result[j]
    BY <1>1, <1>3, <1>4
  <1>6. RowStep(j)
    BY <1>1, <1>2, <1>5
    DEF RowStep, RowInv, Running, Lifecycle!JobStep, Lifecycle!Rest, Lifecycle!KeepOutcome
  <1> QED BY <1>1, <1>2, <1>3, <1>4, <1>6, OneRow

\* complete stores its result with the status.
LEMMA Completes ==
  ASSUME IInv, NEW p, NEW j \in Jobs, NEW w, NEW t \in Nat, CompleteRow(p, j, w, t)
  PROVE  RowsStep
  <1>1. job \in [Jobs -> Row] /\ result \in [Jobs -> Verdict] /\ RowInv(j)
    BY DEF IInv, SupervisedTypeOK, TypeOKAt, TableTypeOK
  <1>2. Running(j)
    BY DEF CompleteRow, CompleteOutcome, OwnedBy
  <1>3. PICK v \in Verdict : /\ result' = [result EXCEPT ![j] = v]
                             /\ v # NoResult
                             /\ result[j] # NoResult => v = result[j]
    BY Inserted, KindsOfVerdict DEF CompleteRow
  <1>4. job' = [job EXCEPT ![j] = Released(j, "completed")]
    BY DEF CompleteRow
  <1>5. /\ Released(j, "completed") \in Row
        /\ Released(j, "completed").status = "completed"
        /\ Released(j, "completed").attempts = job[j].attempts
    BY <1>1, ReleasedRow DEF Statuses, Terminal
  <1>6. job'[j] = Released(j, "completed") /\ result'[j] = v
    BY <1>1, <1>3, <1>4
  <1>7. RowStep(j)
    BY <1>1, <1>2, <1>3, <1>5, <1>6
    DEF RowStep, RowInv, Running, Terminal, Lifecycle!JobStep, Lifecycle!Succeed,
        Lifecycle!Decide, Lifecycle!KeepOutcome
  <1> QED BY <1>3, <1>4, <1>5, <1>7, OneRow

\* The write of a finish, whatever happened to the row since its check: in the
\* attempt it was checked for, the row moves on; in any other state it stays, and
\* the failure that is inserted either finds a result or precedes the end.
LEMMA Applies ==
  ASSUME IInv, NEW p \in Workers, FinishApply(p)
  PROVE  RowsStep
  <1>1. CallInv(p) /\ call[p].op \in {"retry", "fail"}
    BY DEF IInv, FinishApply, LockFree, NoCall
  <1>2. /\ call[p].job \in Jobs
        /\ call[p].worker \in Workers \union {NoWorker}
        /\ call[p].token \in Nat
    BY <1>1 DEF CallInv, IInv, SupervisedTypeOK, TypeOKAt, TableTypeOK, Call
  <1>3. PICK j \in Jobs, w \in Workers \union {NoWorker}, t \in Nat, retry \in BOOLEAN :
          /\ j = call[p].job
          /\ w = call[p].worker
          /\ t = call[p].token
          /\ retry <=> call[p].op = "retry"
    BY <1>2
  <1>4. /\ job \in [Jobs -> Row] /\ result \in [Jobs -> Verdict]
        /\ job[j] \in Row /\ RowInv(j)
        /\ job[j].status # "absent"
        /\ ~retry => t >= WorkerAttempts
    BY <1>1, <1>3 DEF CallInv, IInv, SupervisedTypeOK, TypeOKAt, TableTypeOK
  <1>5. PICK v \in Verdict : /\ result' = [result EXCEPT ![j] = v]
                             /\ result[j] # NoResult => v = result[j]
                             /\ retry => v = result[j]
                             /\ ~retry => v # NoResult
    <2>1. CASE retry
      <3>1. result' = [result EXCEPT ![j] = result[j]]
        BY <1>3, <1>4, <2>1 DEF FinishApply
      <3> QED BY <1>4, <2>1, <3>1
    <2>2. CASE ~retry
      <3>1. InsertResult(j, Failure(t))
        BY <1>3, <2>2 DEF FinishApply
      <3> QED BY <1>4, <2>2, <3>1, Inserted, KindsOfVerdict
    <2> QED BY <2>1, <2>2
  <1>6. job' = IF OwnedBy(j, w, t)
               THEN [job EXCEPT ![j] = Released(j, IF retry THEN "queued" ELSE "failed")]
               ELSE job
    BY <1>3 DEF FinishApply
  <1>7. result'[j] = v
    BY <1>3, <1>4, <1>5
  <1>8. CASE OwnedBy(j, w, t)
    <2> DEFINE status == IF retry THEN "queued" ELSE "failed"
    <2>1. status \in Statuses
      BY DEF Statuses, Terminal
    <2>2. /\ Released(j, status) \in Row
          /\ Released(j, status).status = status
          /\ Released(j, status).attempts = job[j].attempts
      BY <1>3, <1>4, <2>1, ReleasedRow
    <2>3. job' = [job EXCEPT ![j] = Released(j, status)] /\ job'[j] = Released(j, status)
      BY <1>3, <1>4, <1>6, <1>8
    <2>4. Running(j) /\ job[j].attempts = t
      BY <1>4, <1>8 DEF OwnedBy, RowInv
    <2>5. CASE retry
      <3>1. status = "queued"
        BY <2>5
      <3>2. RowStep(j)
        BY <1>4, <1>5, <1>7, <2>2, <2>3, <2>4, <2>5, <3>1
        DEF RowStep, RowInv, Running, Terminal, Lifecycle!JobStep, Lifecycle!Requeue,
            Lifecycle!KeepOutcome
      <3> QED BY <1>5, <2>2, <2>3, <3>2, OneRow
    <2>6. CASE ~retry
      <3>1. status = "failed"
        BY <2>6
      <3>2. /\ job'[j].status = "failed" /\ job'[j].attempts >= WorkerAttempts
            /\ job'[j].attempts <= MaxAttempts
        BY <1>4, <2>2, <2>3, <2>4, <2>6, <3>1 DEF RowInv
      <3>3. RowInv(j)'
        BY <1>5, <1>7, <2>6, <3>2 DEF RowInv, Running
      <3>4. Lifecycle!Fail(j)
        BY <1>5, <1>7, <2>4, <2>6, <3>2
        DEF Running, Lifecycle!Fail, Lifecycle!Decide, Lifecycle!KeepOutcome
      <3>5. RowStep(j)
        BY <3>2, <3>3, <3>4 DEF RowStep, Lifecycle!JobStep
      <3> QED BY <1>5, <2>2, <2>3, <3>5, OneRow
    <2> QED BY <2>5, <2>6
  <1>9. CASE ~OwnedBy(j, w, t)
    <2>1. job' = job
      BY <1>6, <1>9
    <2>2. job' = [job EXCEPT ![j] = job[j]]
      BY <1>4, <2>1
    <2>3. RowStep(j)
      <3>1. CASE v = result[j]
        <4>1. job'[j] = job[j] /\ result'[j] = result[j]
          BY <1>7, <2>1, <3>1
        <4> QED
          BY <1>4, <4>1
          DEF RowStep, RowInv, Running, Lifecycle!JobStep, Lifecycle!Rest, Lifecycle!KeepOutcome
      <3>2. CASE v # result[j]
        <4>1. /\ job'[j] = job[j]
              /\ result'[j] # NoResult /\ result'[j] \in Verdict
              /\ result[j] = NoResult
          BY <1>5, <1>7, <2>1, <3>2
        <4>2. job[j].status \in {"queued", "running"}
          BY <1>4, <4>1 DEF RowInv, Row, Statuses
        <4> QED
          BY <1>4, <4>1, <4>2
          DEF RowStep, RowInv, Running, Lifecycle!JobStep, Lifecycle!Record, Lifecycle!Decide
      <3> QED BY <3>1, <3>2
    <2> QED BY <1>4, <1>5, <2>2, <2>3, OneRow
  <1> QED BY <1>8, <1>9

\* A recovery releases every row that is due, each to the end it has earned.
LEMMA Recovers ==
  ASSUME IInv, NEW force \in BOOLEAN, RecoverRows(MaxAttempts, force)
  PROVE  RowsStep
  <1> DEFINE due == Due(force)
             st(k) == RecoveredStatus(k, MaxAttempts)
  <1>1. job \in [Jobs -> Row] /\ result \in [Jobs -> Verdict]
    BY DEF IInv, SupervisedTypeOK, TypeOKAt, TableTypeOK
  <1>2. ASSUME NEW k \in Jobs
        PROVE  /\ st(k) \in Statuses
               /\ Released(k, st(k)) \in Row
               /\ Released(k, st(k)).status = st(k)
               /\ Released(k, st(k)).attempts = job[k].attempts
    <2>1. st(k) \in Statuses
      BY DEF RecoveredStatus, Statuses, Terminal
    <2> QED BY <1>1, <2>1, ReleasedRow
  <1>3. /\ job' = [k \in Jobs |-> IF k \in due THEN Released(k, st(k)) ELSE job[k]]
        /\ result' = [k \in Jobs |-> IF k \in due /\ st(k) = "failed"
                                     THEN Failure(0) ELSE result[k]]
    BY DEF RecoverRows
  <1>4. job' \in [Jobs -> Row]
    <2> HIDE DEF due, st
    <2> QED BY <1>1, <1>2, <1>3
  <1>5. result' \in [Jobs -> Verdict]
    <2> HIDE DEF due, st
    <2> QED BY <1>1, <1>3, KindsOfVerdict
  <1>6. ASSUME NEW k \in Jobs PROVE RowStep(k)
    <2>1. RowInv(k) /\ job[k] \in Row
      BY <1>1 DEF IInv
    <2>2. k \in due => Running(k)
      BY DEF Due
    <2>3. /\ k \in due => job'[k] = Released(k, st(k))
          /\ k \notin due => job'[k] = job[k]
          /\ k \in due /\ st(k) = "failed" => result'[k] = Failure(0)
          /\ ~(k \in due /\ st(k) = "failed") => result'[k] = result[k]
      BY <1>3
    <2>4. /\ st(k) \in {"queued", "completed", "failed"}
          /\ st(k) = "completed" => result[k] # NoResult
          /\ st(k) = "failed" => result[k] = NoResult /\ job[k].attempts >= MaxAttempts
      BY DEF RecoveredStatus
    <2>5. /\ Released(k, st(k)).status = st(k)
          /\ Released(k, st(k)).attempts = job[k].attempts
      BY <1>2
    <2>6. Failure(0) # NoResult /\ Failure(0) \in Verdict
      BY KindsOfVerdict
    <2>7. result'[k] \in Verdict /\ WorkerAttempts <= MaxAttempts /\ job[k].attempts \in Nat
      BY <1>5, <2>1, WorkerAssumption DEF Row
    <2> HIDE DEF due, st
    <2>8. CASE k \notin due
      <3>1. job'[k] = job[k] /\ result'[k] = result[k]
        BY <2>3, <2>8
      <3> QED
        BY <2>1, <3>1
        DEF RowStep, RowInv, Running, Lifecycle!JobStep, Lifecycle!Rest, Lifecycle!KeepOutcome
    <2>9. CASE k \in due /\ st(k) = "failed"
      <3>1. /\ job'[k].status = "failed" /\ job'[k].attempts = job[k].attempts
            /\ result'[k] = Failure(0)
        BY <2>3, <2>5, <2>9
      <3>2. job[k].attempts >= WorkerAttempts
        BY <2>4, <2>7, <2>9, QueueAssumption, WorkerAssumption
      <3> QED
        BY <2>1, <2>2, <2>4, <2>6, <2>9, <3>1, <3>2
        DEF RowStep, RowInv, Running, Lifecycle!JobStep, Lifecycle!Fail, Lifecycle!Decide
    <2>10. CASE k \in due /\ st(k) # "failed"
      <3>1. /\ job'[k].status = st(k) /\ job'[k].attempts = job[k].attempts
            /\ result'[k] = result[k]
        BY <2>3, <2>5, <2>10
      <3> QED
        BY <2>1, <2>2, <2>4, <2>7, <2>10, <3>1
        DEF RowStep, RowInv, Running, Terminal, Lifecycle!JobStep, Lifecycle!Requeue,
            Lifecycle!Succeed, Lifecycle!Decide, Lifecycle!KeepOutcome
    <2> QED BY <2>8, <2>9, <2>10
  <1> QED BY <1>4, <1>5, <1>6 DEF RowsStep

LEMMA Ticks ==
  ASSUME IInv, Tick
  PROVE  RowsStep
  <1>1. job \in [Jobs -> Row] /\ result \in [Jobs -> Verdict] /\ UNCHANGED result
    BY DEF IInv, SupervisedTypeOK, TypeOKAt, TableTypeOK, Tick
  <1>2. ASSUME NEW k \in Jobs
        PROVE  /\ job'[k] \in Row
               /\ job'[k].status = job[k].status
               /\ job'[k].attempts = job[k].attempts
               /\ job'[k].token = job[k].token
    <2> DEFINE left == IF job[k].lease > 0 THEN job[k].lease - 1 ELSE 0
    <2>1. job[k] \in Row /\ left \in 0..LeaseTicks
      BY <1>1, TableAssumption DEF Row
    <2>2. job'[k] = [job[k] EXCEPT !.lease = left]
      BY DEF Tick
    <2> HIDE DEF left
    <2> QED BY <2>1, <2>2 DEF Row
  <1>3. job' \in [Jobs -> Row]
    <2>1. job' = [k \in Jobs |-> job'[k]]
      BY DEF Tick
    <2> QED BY <1>2, <2>1
  <1>4. ASSUME NEW k \in Jobs PROVE RowStep(k)
    <2>1. RowInv(k)
      BY DEF IInv
    <2> QED
      BY <1>1, <1>2, <2>1
      DEF RowStep, RowInv, Running, Lifecycle!JobStep, Lifecycle!Rest, Lifecycle!KeepOutcome
  <1> QED BY <1>1, <1>3, <1>4 DEF RowsStep

-----------------------------------------------------------------------------
(* What the steps do to the processes *)

SupervisedPlaces == Places \union {"piping", "failing", "ended"}
Creds == (Workers \union {NoWorker}) \X Nat

LEMMA Types ==
  SupervisedTypeOK <=> /\ job \in [Jobs -> Row]
                       /\ result \in [Jobs -> Verdict]
                       /\ call \in [Workers -> Call]
                       /\ pc \in [Workers -> SupervisedPlaces]
                       /\ task \in [Workers -> Jobs \union {NoJob}]
                       /\ cred \in [Workers -> Creds]
  BY DEF SupervisedTypeOK, TypeOKAt, TableTypeOK, SupervisedPlaces, Creds

\* The other processes stay where they are: their calls are still of rows that
\* are there.
LEMMA Moves ==
  ASSUME IInv, RowsStep, NEW p \in Workers,
         NEW place \in SupervisedPlaces, NEW j \in Jobs \union {NoJob},
         NEW c \in Creds, NEW k \in Call,
         pc' = [pc EXCEPT ![p] = place], task' = [task EXCEPT ![p] = j],
         cred' = [cred EXCEPT ![p] = c], call' = [call EXCEPT ![p] = k],
         place # "idle" => j \in Jobs,
         k # NoCall => /\ k.op \in {"retry", "fail"}
                       /\ place \in {"finishing", "failing"}
                       /\ k.job = j
                       /\ <<k.worker, k.token>> = c
                       /\ job'[j].status # "absent"
                       /\ k.op = "fail" => k.token >= WorkerAttempts
  PROVE  IInv'
  <1>1. /\ pc \in [Workers -> SupervisedPlaces] /\ task \in [Workers -> Jobs \union {NoJob}]
        /\ cred \in [Workers -> Creds] /\ call \in [Workers -> Call]
    BY Types DEF IInv
  <1>2. SupervisedTypeOK'
    <2>1. /\ pc' \in [Workers -> SupervisedPlaces] /\ task' \in [Workers -> Jobs \union {NoJob}]
          /\ cred' \in [Workers -> Creds] /\ call' \in [Workers -> Call]
      BY <1>1
    <2> QED BY <2>1 DEF RowsStep, SupervisedTypeOK, TypeOKAt, TableTypeOK, SupervisedPlaces, Creds
  <1>3. /\ pc'[p] = place /\ task'[p] = j /\ cred'[p] = c /\ call'[p] = k
        /\ \A q \in Workers \ {p} : /\ pc'[q] = pc[q] /\ task'[q] = task[q]
                                    /\ cred'[q] = cred[q] /\ call'[q] = call[q]
    BY <1>1
  <1>4. \A i \in Jobs : RowInv(i)'
    BY DEF RowsStep, RowStep
  <1>5. ASSUME NEW q \in Workers PROVE pc'[q] # "idle" => task'[q] \in Jobs
    BY <1>3 DEF IInv
  <1>6. ASSUME NEW q \in Workers, call'[q] # NoCall PROVE CallInv(q)'
    <2>1. CASE q = p
      <3>1. /\ k.op \in {"retry", "fail"}
            /\ place \in {"finishing", "failing"}
            /\ k.job = j
            /\ <<k.worker, k.token>> = c
            /\ job'[j].status # "absent"
            /\ k.op = "fail" => k.token >= WorkerAttempts
        BY <1>3, <1>6, <2>1
      <3> QED BY <1>3, <2>1, <3>1 DEF CallInv
    <2>2. CASE q # p
      <3>1. /\ pc'[q] = pc[q] /\ task'[q] = task[q] /\ cred'[q] = cred[q] /\ call'[q] = call[q]
        BY <1>3, <2>2
      <3>2. CallInv(q)
        BY <1>6, <3>1 DEF IInv, LockFree
      <3>3. task[q] \in Jobs
        BY <3>2 DEF CallInv, IInv
      <3>4. job'[task[q]].status # "absent"
        BY <3>2, <3>3 DEF CallInv, RowsStep, RowStep
      <3> QED BY <3>1, <3>2, <3>4 DEF CallInv
    <2> QED BY <2>1, <2>2
  <1> QED BY <1>2, <1>4, <1>5, <1>6 DEF IInv, LockFree

\* No process moves.
LEMMA Stays ==
  ASSUME IInv, RowsStep, UNCHANGED <<pc, task, cred, call>>
  PROVE  IInv'
  <1>1. SupervisedTypeOK'
    BY DEF IInv, RowsStep, SupervisedTypeOK, TypeOKAt, TableTypeOK
  <1>2. \A i \in Jobs : RowInv(i)'
    BY DEF RowsStep, RowStep
  <1>3. ASSUME NEW q \in Workers, call'[q] # NoCall PROVE CallInv(q)'
    <2>1. CallInv(q)
      BY <1>3 DEF IInv, LockFree
    <2>2. task[q] \in Jobs
      BY <2>1 DEF CallInv, IInv
    <2>3. job'[task[q]].status # "absent"
      BY <2>1, <2>2 DEF CallInv, RowsStep, RowStep
    <2> QED BY <2>1, <2>3 DEF CallInv
  <1> QED BY <1>1, <1>2, <1>3 DEF IInv, LockFree

\* A process without a call goes to another place of the same task.
LEMMA Goes ==
  ASSUME IInv, RowsStep, NEW p \in Workers, NEW place \in SupervisedPlaces,
         LockFree(p), pc[p] # "idle", Goto(p, place), UNCHANGED <<task, cred, call>>
  PROVE  IInv'
  <1>1. /\ task[p] \in Jobs /\ cred[p] \in Creds /\ call[p] \in Call
        /\ task = [task EXCEPT ![p] = task[p]]
        /\ cred = [cred EXCEPT ![p] = cred[p]]
        /\ call = [call EXCEPT ![p] = call[p]]
        /\ call[p] = NoCall
    BY Types DEF IInv, LockFree
  <1>2. PICK j \in Jobs : j = task[p]
    BY <1>1
  <1>3. PICK c \in Creds : c = cred[p]
    BY <1>1
  <1>4. /\ pc' = [pc EXCEPT ![p] = place]
        /\ task' = [task EXCEPT ![p] = j]
        /\ cred' = [cred EXCEPT ![p] = c]
        /\ call' = [call EXCEPT ![p] = NoCall]
    BY <1>1, <1>2, <1>3 DEF Goto
  <1>5. NoCall \in Call
    BY <1>1
  <1> QED BY <1>4, <1>5, Moves

\* A process ends its execute or its run_once, and with it its call.
LEMMA Leaves ==
  ASSUME IInv, RowsStep, NEW p \in Workers, Leave(p), call' = [call EXCEPT ![p] = NoCall]
  PROVE  IInv'
  <1>1. /\ "idle" \in SupervisedPlaces /\ NoCred \in Creds
        /\ NoJob \in Jobs \union {NoJob} /\ NoCall \in Call
    BY DEF SupervisedPlaces, Places, NoCred, Creds, NoCall, Call
  <1>2. /\ pc' = [pc EXCEPT ![p] = "idle"]
        /\ task' = [task EXCEPT ![p] = NoJob]
        /\ cred' = [cred EXCEPT ![p] = NoCred]
    BY DEF Leave, Goto
  <1> QED BY <1>1, <1>2, Moves

\* A process that has no call leaves.
LEMMA LeavesFree ==
  ASSUME IInv, RowsStep, NEW p \in Workers, Leave(p), LockFree(p), UNCHANGED call
  PROVE  IInv'
  <1>1. call' = [call EXCEPT ![p] = NoCall]
    BY Types DEF IInv, LockFree
  <1> QED BY <1>1, Leaves

\* A process takes other credentials of its task.
LEMMA Reads ==
  ASSUME IInv, RowsStep, NEW p \in Workers, NEW place \in SupervisedPlaces,
         LockFree(p), pc[p] # "idle", ReadCredentials(p), Goto(p, place),
         UNCHANGED <<task, call>>
  PROVE  IInv'
  <1>1. /\ task[p] \in Jobs /\ call[p] \in Call
        /\ job \in [Jobs -> Row]
        /\ task = [task EXCEPT ![p] = task[p]]
        /\ call = [call EXCEPT ![p] = call[p]]
        /\ call[p] = NoCall
    BY Types DEF IInv, LockFree
  <1>2. PICK j \in Jobs : j = task[p]
    BY <1>1
  <1>3. <<job[j].worker, job[j].token>> \in Creds
    BY <1>1 DEF Row, Creds
  <1>4. PICK c \in Creds : c = <<job[j].worker, job[j].token>>
    BY <1>3
  <1>5. /\ pc' = [pc EXCEPT ![p] = place]
        /\ task' = [task EXCEPT ![p] = j]
        /\ cred' = [cred EXCEPT ![p] = c]
        /\ call' = [call EXCEPT ![p] = NoCall]
    BY <1>1, <1>2, <1>4 DEF Goto, ReadCredentials
  <1>6. NoCall \in Call
    BY <1>1
  <1> QED BY <1>5, <1>6, Moves

\* A process claims: its task is the row, in the place its caller says.
LEMMA Takes ==
  ASSUME IInv, RowsStep, NEW p \in Workers, NEW place \in SupervisedPlaces,
         NEW j \in Jobs, NEW c \in Creds, LockFree(p), UNCHANGED call,
         Goto(p, place), task' = [task EXCEPT ![p] = j], cred' = [cred EXCEPT ![p] = c]
  PROVE  IInv'
  <1>1. call' = [call EXCEPT ![p] = NoCall] /\ NoCall \in Call
    BY Types DEF IInv, LockFree
  <1>2. pc' = [pc EXCEPT ![p] = place]
    BY DEF Goto
  <1> QED BY <1>1, <1>2, Moves

\* The check of a finish with the credentials the process holds.
LEMMA Checks ==
  ASSUME IInv, NEW p \in Workers, pc[p] \in {"finishing", "failing"},
         NEW retry \in BOOLEAN, ~retry => cred[p][2] >= WorkerAttempts,
         FinishCheck(p, task[p], cred[p][1], cred[p][2], retry), UNCHANGED queueVars
  PROVE  IInv'
  <1>1. /\ task[p] \in Jobs /\ cred[p] \in Creds /\ pc[p] \in SupervisedPlaces
        /\ pc = [pc EXCEPT ![p] = pc[p]]
        /\ task = [task EXCEPT ![p] = task[p]]
        /\ cred = [cred EXCEPT ![p] = cred[p]]
        /\ job \in [Jobs -> Row]
    BY Types DEF IInv
  <1>2. PICK j \in Jobs : j = task[p]
    BY <1>1
  <1>3. PICK c \in Creds : c = cred[p]
    BY <1>1
  <1>4. PICK place \in SupervisedPlaces : place = pc[p]
    BY <1>1
  <1> DEFINE k == [op |-> IF retry THEN "retry" ELSE "fail",
                   job |-> j, worker |-> c[1], token |-> c[2]]
  <1>5. c = <<c[1], c[2]>> /\ c[1] \in Workers \union {NoWorker} /\ c[2] \in Nat
    BY DEF Creds
  <1>6. /\ k \in Call
        /\ k.op \in {"retry", "fail"}
        /\ k.job = j
        /\ <<k.worker, k.token>> = c
        /\ k.op = "fail" => k.token >= WorkerAttempts
    BY <1>3, <1>5 DEF Call
  <1>7. call' = [call EXCEPT ![p] = k] /\ UNCHANGED <<job, result>>
    BY <1>2, <1>3 DEF FinishCheck
  <1>8. /\ pc' = [pc EXCEPT ![p] = place]
        /\ task' = [task EXCEPT ![p] = j]
        /\ cred' = [cred EXCEPT ![p] = c]
    BY <1>1, <1>2, <1>3, <1>4 DEF queueVars
  <1>9. job'[j].status # "absent"
    BY <1>2, <1>7 DEF FinishCheck, OwnedBy, Running
  <1>10. RowsStep
    BY <1>7, NoRows
  <1> HIDE DEF k
  <1> QED BY <1>4, <1>6, <1>7, <1>8, <1>9, <1>10, Moves

-----------------------------------------------------------------------------
(* The steps *)

LEMMA Initially == Init => IInv
  <1> SUFFICES ASSUME Init PROVE IInv
    OBVIOUS
  <1>1. /\ NoRow \in Row /\ NoResult \in Verdict /\ NoCall \in Call /\ NoCred \in Creds
        /\ "idle" \in SupervisedPlaces
    <2>1. 0 \in 0..LeaseTicks
      BY TableAssumption
    <2> QED
      BY <2>1 DEF NoRow, Row, Statuses, NoResult, Verdict, NoCall, Call, NoCred, Creds,
                  SupervisedPlaces, Places
  <1>2. SupervisedTypeOK
    BY <1>1, Types DEF Init, TableInit
  <1>3. ASSUME NEW j \in Jobs PROVE RowInv(j)
    <2>1. job[j] = NoRow
      BY DEF Init, TableInit
    <2> QED BY <2>1, QueueAssumption DEF NoRow, RowInv, Running, Terminal
  <1> QED BY <1>2, <1>3 DEF Init, TableInit, IInv, LockFree

\* A process in any place but these two has no call.
LEMMA CallsArePlaced ==
  ASSUME IInv, NEW p \in Workers, pc[p] \notin {"finishing", "failing"}
  PROVE  LockFree(p)
  BY DEF IInv, CallInv

\* What holds after a step: the invariant, and the rows' life cycles.
Good == IInv' /\ RowsStep

LEMMA ClaimSteps ==
  ASSUME IInv, NEW p \in Workers, Execute(p) \/ ClaimSnapshot(p)
  PROVE  Good
  <1>1. LockFree(p)
    BY CallsArePlaced DEF Execute, ClaimSnapshot
  <1>2. MaxAttempts \in Nat /\ WorkerAttempts \in Nat /\ WorkerAttempts <= MaxAttempts
    BY QueueAssumption, WorkerAssumption
  <1>3. /\ "claimed" \in SupervisedPlaces /\ "piping" \in SupervisedPlaces
        /\ job \in [Jobs -> Row] /\ cred[p] \in Creds /\ cred \in [Workers -> Creds]
    BY Types DEF IInv, SupervisedPlaces, Places
  <1>4. CASE Execute(p)
    <2>1. PICK j \in Jobs : ClaimThisRow(p, j, MaxAttempts) /\ task' = [task EXCEPT ![p] = j]
      BY <1>4 DEF Execute
    <2>2. PICK c \in Creds : c = cred[p]
      BY <1>3
    <2>3. UNCHANGED call
      BY <2>1 DEF ClaimThisRow, ClaimRow
    <2>4. Goto(p, "claimed") /\ cred' = [cred EXCEPT ![p] = c]
      BY <1>3, <1>4, <2>2 DEF Execute
    <2>5. RowsStep
      BY <1>2, <2>1, Claims
    <2> QED BY <1>1, <1>3, <2>1, <2>3, <2>4, <2>5, Takes DEF Good
  <1>5. CASE ClaimSnapshot(p)
    <2>1. PICK j \in Jobs : /\ ClaimThisRow(p, j, WorkerAttempts)
                            /\ task' = [task EXCEPT ![p] = j]
                            /\ cred' = [cred EXCEPT ![p] = <<p, job[j].attempts + 1>>]
      BY <1>5 DEF ClaimSnapshot
    <2>2. <<p, job[j].attempts + 1>> \in Creds
      BY <1>3 DEF Row, Creds
    <2>3. PICK c \in Creds : c = <<p, job[j].attempts + 1>>
      BY <2>2
    <2>4. UNCHANGED call
      BY <2>1 DEF ClaimThisRow, ClaimRow
    <2>5. Goto(p, "piping") /\ cred' = [cred EXCEPT ![p] = c]
      BY <1>5, <2>1, <2>3 DEF ClaimSnapshot
    <2>6. RowsStep
      BY <1>2, <2>1, Claims
    <2> QED BY <1>1, <1>3, <2>1, <2>4, <2>5, <2>6, Takes DEF Good
  <1> QED BY <1>4, <1>5

LEMMA LeaseSteps ==
  ASSUME IInv, NEW p \in Workers, Beat(p) \/ LeaseBeat(p)
  PROVE  Good
  <1>1. task[p] \in Jobs
    BY DEF IInv, Beat, LeaseBeat
  <1>2. Heartbeat(p, task[p], cred[p][1], cred[p][2]) /\ UNCHANGED <<pc, task, cred, call>>
    BY DEF Beat, LeaseBeat, queueVars, Heartbeat
  <1>3. RowsStep
    <2>1. PICK j \in Jobs : j = task[p]
      BY <1>1
    <2> QED BY <1>2, <2>1, Renews
  <1> QED BY <1>2, <1>3, Stays DEF Good

LEMMA CompleteSteps ==
  ASSUME IInv, NEW p \in Workers, RunCompletes(p) \/ PipelineReturns(p)
  PROVE  Good
  <1>1. /\ LockFree(p) /\ pc[p] # "idle"
        /\ {"stored", "raised", "failing"} \subseteq SupervisedPlaces
    BY CallsArePlaced DEF RunCompletes, PipelineReturns, SupervisedPlaces, Places
  <1>2. task[p] \in Jobs /\ cred[p] \in Creds
    BY <1>1, Types DEF IInv
  <1>3. CompleteRow(p, task[p], cred[p][1], cred[p][2]) \/ UNCHANGED <<job, result>>
    BY DEF RunCompletes, PipelineReturns, tableVars
  <1>4. RowsStep
    <2>1. PICK j \in Jobs : j = task[p]
      BY <1>2
    <2>2. PICK t \in Nat : t = cred[p][2]
      BY <1>2 DEF Creds
    <2>3. CompleteRow(p, j, cred[p][1], t) \/ UNCHANGED <<job, result>>
      BY <1>3, <2>1, <2>2
    <2>4. CASE CompleteRow(p, j, cred[p][1], t)
      <3>1. PICK w \in Workers \union {NoWorker} : w = cred[p][1]
        BY <1>2 DEF Creds
      <3> QED BY <2>4, <3>1, Completes
    <2> QED BY <2>3, <2>4, NoRows
  <1>5. UNCHANGED call
    BY DEF RunCompletes, PipelineReturns, CompleteRow, tableVars
  <1>6. \/ Goto(p, "stored") /\ UNCHANGED <<task, cred>>
        \/ Goto(p, "raised") /\ UNCHANGED <<task, cred>>
        \/ Goto(p, "failing") /\ UNCHANGED <<task, cred>>
        \/ Leave(p)
    BY DEF RunCompletes, PipelineReturns
  <1> QED BY <1>1, <1>4, <1>5, <1>6, Goes, LeavesFree DEF Good

\* The steps that touch no row.
LEMMA PlainSteps ==
  ASSUME IInv, NEW p \in Workers,
         \/ RunnerReads(p) \/ RunRaises(p) \/ RunReturns(p) \/ HandlerReads(p)
         \/ PipelineRaises(p)
  PROVE  Good
  <1>1. /\ LockFree(p) /\ pc[p] # "idle"
        /\ {"working", "raised", "finishing", "failing"} \subseteq SupervisedPlaces
    BY CallsArePlaced
    DEF RunnerReads, RunRaises, RunReturns, HandlerReads, PipelineRaises, SupervisedPlaces, Places
  <1>2. UNCHANGED <<job, result, call>>
    BY DEF RunnerReads, RunRaises, RunReturns, HandlerReads, PipelineRaises, tableVars
  <1>3. RowsStep
    BY <1>2, NoRows
  <1>4. \/ Leave(p)
        \/ ReadCredentials(p) /\ Goto(p, "working") /\ UNCHANGED task
        \/ ReadCredentials(p) /\ Goto(p, "finishing") /\ UNCHANGED task
        \/ Goto(p, "raised") /\ UNCHANGED <<task, cred>>
        \/ Goto(p, "failing") /\ UNCHANGED <<task, cred>>
    BY DEF RunnerReads, RunRaises, RunReturns, HandlerReads, PipelineRaises
  <1> QED BY <1>1, <1>2, <1>3, <1>4, Leaves, LeavesFree, Reads, Goes DEF Good

LEMMA FinishSteps ==
  ASSUME IInv, NEW p \in Workers, CallFinish(p) \/ Finish(p)
  PROVE  Good
  <1>1. /\ LockFree(p) /\ pc[p] \in {"finishing", "failing"} /\ pc[p] # "idle"
        /\ "ended" \in SupervisedPlaces
    BY DEF CallFinish, Finish, SupervisedPlaces
  <1>2. cred[p][2] \in Nat /\ MaxAttempts \in Nat /\ WorkerAttempts \in Nat
        /\ WorkerAttempts <= MaxAttempts
    BY Types, QueueAssumption, WorkerAssumption DEF IInv, Creds
  <1>3. \/ /\ FinishCheck(p, task[p], cred[p][1], cred[p][2], cred[p][2] < MaxAttempts)
           /\ UNCHANGED queueVars
        \/ /\ FinishCheck(p, task[p], cred[p][1], cred[p][2], cred[p][2] < WorkerAttempts)
           /\ UNCHANGED queueVars
        \/ Leave(p) /\ UNCHANGED tableVars
        \/ Goto(p, "ended") /\ UNCHANGED <<tableVars, task, cred>>
    BY DEF CallFinish, Finish, Held
  <1>4. ASSUME NEW limit \in {MaxAttempts, WorkerAttempts},
               FinishCheck(p, task[p], cred[p][1], cred[p][2], cred[p][2] < limit),
               UNCHANGED queueVars
        PROVE  Good
    <2>1. PICK retry \in BOOLEAN : retry <=> cred[p][2] < limit
      OBVIOUS
    <2>2. ~retry => cred[p][2] >= WorkerAttempts
      BY <1>2, <2>1
    <2>3. FinishCheck(p, task[p], cred[p][1], cred[p][2], retry)
      BY <1>4, <2>1 DEF FinishCheck
    <2>4. UNCHANGED <<job, result>>
      BY <2>3 DEF FinishCheck
    <2> QED BY <1>1, <1>4, <2>2, <2>3, <2>4, Checks, NoRows DEF Good
  <1>5. CASE Leave(p) /\ UNCHANGED tableVars
    BY <1>1, <1>5, NoRows, LeavesFree DEF Good, tableVars
  <1>6. CASE Goto(p, "ended") /\ UNCHANGED <<tableVars, task, cred>>
    BY <1>1, <1>6, NoRows, Goes DEF Good, tableVars
  <1> QED BY <1>3, <1>4, <1>5, <1>6

LEMMA WriteSteps ==
  ASSUME IInv, NEW p \in Workers, FinishReturns(p) \/ FinishWrites(p)
  PROVE  Good
  <1>1. FinishApply(p) /\ Leave(p)
    BY DEF FinishReturns, FinishWrites
  <1>2. call' = [call EXCEPT ![p] = NoCall]
    BY <1>1 DEF FinishApply
  <1>3. RowsStep
    BY <1>1, Applies
  <1> QED BY <1>1, <1>2, <1>3, Leaves DEF Good

LEMMA OtherSteps ==
  ASSUME IInv, NEW p \in Workers, Crash(p) \/ ServiceStarts(p)
  PROVE  Good
  <1>1. CASE Crash(p)
    <2>1. Leave(p) /\ call' = [call EXCEPT ![p] = NoCall] /\ UNCHANGED <<job, result>>
      BY <1>1 DEF Crash, DropCall
    <2> QED BY <2>1, NoRows, Leaves DEF Good
  <1>2. CASE ServiceStarts(p)
    <2>1. LockFree(p) /\ Leave(p) /\ RecoverRows(MaxAttempts, FALSE)
      BY <1>2, CallsArePlaced DEF ServiceStarts
    <2>2. UNCHANGED call
      BY <2>1 DEF RecoverRows
    <2>3. RowsStep
      BY <2>1, Recovers
    <2> QED BY <2>1, <2>2, <2>3, LeavesFree DEF Good
  <1> QED BY <1>1, <1>2

\* Every step of the queues and of the supervised workers.
LEMMA Steps ==
  ASSUME IInv, [SupervisedNext]_vars
  PROVE  Good
  <1>1. ASSUME NEW j \in Jobs, Submit(j) PROVE Good
    <2>1. Enqueue(j) /\ UNCHANGED <<pc, task, cred, call>>
      BY <1>1 DEF Submit, Enqueue, queueVars
    <2> QED BY <2>1, Enqueues, Stays DEF Good
  <1>2. ASSUME Recover PROVE Good
    <2>1. PICK force \in BOOLEAN : RecoverRows(MaxAttempts, force) /\ UNCHANGED queueVars
      BY <1>2 DEF Recover
    <2>2. UNCHANGED <<pc, task, cred, call>>
      BY <2>1 DEF RecoverRows, queueVars
    <2> QED BY <2>1, <2>2, Recovers, Stays DEF Good
  <1>3. ASSUME TimePasses PROVE Good
    BY <1>3, Ticks, Stays DEF Good, TimePasses, Tick, queueVars
  <1>4. ASSUME UNCHANGED vars PROVE Good
    BY <1>4, NoRows, Stays DEF Good, vars
  <1>5. ASSUME NEW p \in Workers, Supervise(p) PROVE Good
    BY <1>5, ClaimSteps, LeaseSteps, CompleteSteps, PlainSteps, FinishSteps, WriteSteps, OtherSteps
    DEF Supervise
  <1> QED
    BY <1>1, <1>2, <1>3, <1>4, <1>5, ClaimSteps, LeaseSteps, CompleteSteps, PlainSteps,
       FinishSteps, WriteSteps, OtherSteps
    DEF SupervisedNext, Next

-----------------------------------------------------------------------------
(* The theorems *)

\* The inductive invariant holds in every state.
THEOREM Invariance == SupervisedSpec => []IInv
  <1>1. IInv /\ [SupervisedNext]_vars => IInv'
    BY Steps DEF Good
  <1> QED BY <1>1, Initially, PTL DEF SupervisedSpec

\* The table, the calls and the processes have their types.
THEOREM TypeCorrect == SupervisedSpec => []SupervisedTypeOK
  <1>1. IInv => SupervisedTypeOK
    BY DEF IInv
  <1> QED BY <1>1, Invariance, PTL

\* Each job follows the life cycle the store promises, for any number of queues
\* and services that read credentials again, finish late, crash and recover.
THEOREM WorkersImplementLifecycle == SupervisedSpec => ImplementsLifecycle
  <1>1. Init => Lifecycle!Init
    BY DEF Init, TableInit, NoRow, Lifecycle!Init
  <1>2. IInv /\ [SupervisedNext]_vars =>
          [Lifecycle!Next]_<<[j \in Jobs |-> job[j].status], result>>
    <2> SUFFICES ASSUME IInv, [SupervisedNext]_vars PROVE Lifecycle!Next
      OBVIOUS
    <2>1. RowsStep
      BY Steps DEF Good
    <2>2. /\ [j \in Jobs |-> job'[j].status] \in [Jobs -> Lifecycle!States]
          /\ \A j \in Jobs : Lifecycle!JobStep(j)
      BY <2>1 DEF RowsStep, RowStep, Row, Statuses, Terminal, Lifecycle!States
    <2>3. result' \in [Jobs -> (Verdict \ {NoResult}) \union {NoResult}]
      BY <2>1 DEF RowsStep
    <2> QED BY <2>2, <2>3 DEF Lifecycle!Next
  <1> QED
    BY <1>1, <1>2, Invariance, PTL DEF SupervisedSpec, ImplementsLifecycle, Lifecycle!Spec

\* A job is failed for good only after its last attempt, if the service's
\* limit is the one queues and recovery use (both are 3 by default).
THEOREM FailuresAreSpent ==
  ASSUME WorkerAttempts = MaxAttempts
  PROVE  SupervisedSpec => []FailedOnlyWhenSpent
  <1>1. IInv => FailedOnlyWhenSpent
    <2> SUFFICES ASSUME IInv, NEW j \in Jobs, job[j].status = "failed"
                 PROVE  job[j].attempts = MaxAttempts
      BY DEF FailedOnlyWhenSpent
    <2>1. job[j].attempts >= MaxAttempts /\ job[j].attempts <= MaxAttempts
      BY DEF IInv, RowInv
    <2>2. job[j].attempts \in Nat /\ MaxAttempts \in Nat
      BY Types, QueueAssumption DEF IInv, Row
    <2> QED BY <2>1, <2>2
  <1> QED BY <1>1, Invariance, PTL

\* A supervised worker writes to a row only under the credentials of its claim.
THEOREM OwnAttempts == SupervisedSpec => OwnAttemptOnly
  <1> DEFINE Own(p, j) == <<job[j].worker, job[j].token>> = cred[p]
             Bound(p, j) == /\ pc[p] \in {"piping", "failing"}
                            /\ pc'[p] \notin {pc[p], "ended"}
                            /\ job'[j] # job[j]
                            => Own(p, j)
  <1>1. IInv /\ [SupervisedNext]_vars => \A p \in Workers, j \in Jobs : Bound(p, j)
    <2> SUFFICES ASSUME IInv, [SupervisedNext]_vars, NEW p \in Workers, NEW j \in Jobs,
                        pc[p] \in {"piping", "failing"},
                        pc'[p] \notin {pc[p], "ended"},
                        job'[j] # job[j]
                 PROVE  Own(p, j)
      OBVIOUS
    <2>1. /\ pc \in [Workers -> SupervisedPlaces] /\ job \in [Jobs -> Row]
          /\ cred[p] \in Creds /\ task[p] \in Jobs
      BY Types DEF IInv
    <2>2. ~UNCHANGED job /\ ~UNCHANGED pc
      OBVIOUS
    <2>3. ASSUME NEW q \in Workers, NEW place, Goto(q, place) PROVE q = p
      BY <2>1, <2>3 DEF Goto
    <2>4. ASSUME NEW q \in Workers, Leave(q) PROVE q = p
      BY <2>3, <2>4 DEF Leave
    <2>5. ASSUME NEW q \in Workers,
                 \/ RunnerReads(q) \/ RunRaises(q) \/ RunReturns(q) \/ HandlerReads(q)
                 \/ CallFinish(q) \/ Crash(q) \/ PipelineRaises(q) \/ Finish(q)
          PROVE  FALSE
      BY <2>2, <2>5
      DEF RunnerReads, RunRaises, RunReturns, HandlerReads, CallFinish, Crash, PipelineRaises,
          Finish, FinishCheck, DropCall, tableVars
    <2>6. ASSUME NEW q \in Workers, Beat(q) \/ LeaseBeat(q) PROVE FALSE
      BY <2>2, <2>6 DEF Beat, LeaseBeat, queueVars
    <2>7. ASSUME NEW q \in Workers,
                 \/ Execute(q) \/ ClaimSnapshot(q) \/ RunCompletes(q) \/ FinishReturns(q)
                 \/ ServiceStarts(q)
          PROVE  FALSE
      <3>1. pc[q] \in {"idle", "working", "finishing", "ended"}
        BY <2>7 DEF Execute, ClaimSnapshot, RunCompletes, FinishReturns, ServiceStarts
      <3>2. q # p
        BY <3>1
      <3>3. Leave(q) \/ \E place \in SupervisedPlaces : Goto(q, place)
        BY <2>7 DEF Execute, ClaimSnapshot, RunCompletes, FinishReturns, ServiceStarts,
                    SupervisedPlaces, Places
      <3> QED BY <2>3, <2>4, <3>2, <3>3
    <2>8. ASSUME NEW q \in Workers, PipelineReturns(q) \/ FinishWrites(q) PROVE q = p
      <3>1. Leave(q) \/ Goto(q, "failing")
        BY <2>8 DEF PipelineReturns, FinishWrites
      <3> QED BY <2>3, <2>4, <3>1
    <2>9. \/ PipelineReturns(p) \/ FinishWrites(p)
      <3>1. ASSUME NEW i \in Jobs, Submit(i) PROVE FALSE
        BY <2>2, <3>1 DEF Submit, queueVars
      <3>2. ASSUME Recover \/ TimePasses \/ UNCHANGED vars PROVE FALSE
        BY <2>2, <3>2 DEF Recover, TimePasses, queueVars, vars
      <3> QED
        BY <2>5, <2>6, <2>7, <2>8, <3>1, <3>2 DEF SupervisedNext, Next, Supervise
    <2>10. CASE PipelineReturns(p)
      <3>1. CompleteRow(p, task[p], cred[p][1], cred[p][2])
        BY <2>2, <2>10 DEF PipelineReturns, tableVars
      <3>2. OwnedBy(task[p], cred[p][1], cred[p][2])
        BY <3>1 DEF CompleteRow, CompleteOutcome
      <3>3. j = task[p]
        BY <2>1, <3>1 DEF CompleteRow
      <3> QED BY <2>1, <3>2, <3>3 DEF OwnedBy, Creds
    <2>11. CASE FinishWrites(p)
      <3>1. FinishApply(p) /\ CallInv(p)
        BY <2>11 DEF FinishWrites, FinishApply, IInv, LockFree, NoCall
      <3>2. OwnedBy(call[p].job, call[p].worker, call[p].token) /\ j = call[p].job
        BY <2>1, <3>1 DEF FinishApply
      <3> QED BY <3>1, <3>2 DEF OwnedBy, CallInv
    <2> QED BY <2>9, <2>10, <2>11
  <1> QED BY <1>1, Invariance, PTL DEF SupervisedSpec, OwnAttemptOnly
=============================================================================
