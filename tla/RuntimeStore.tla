---------------------------- MODULE RuntimeStore ----------------------------
(***************************************************************************)
(* RuntimeStore as its callers see it: processes that claim jobs and then, *)
(* with the credentials their claims returned and in any order, heartbeat, *)
(* complete, finish and record results, while others recover abandoned     *)
(* rows.  A process keeps the credentials of every claim it made (they are *)
(* the JobRecords it got), also those that are stale, until it dies.       *)
(***************************************************************************)
EXTENDS JobTable

CONSTANTS
  ClaimLimit,    \* max_attempts of claim and claim_next
  RecoverLimit,  \* max_attempts of recover_running_jobs
  AllowForce     \* whether stale_after_seconds = 0 is ever passed

ASSUME StoreAssumption ==
  /\ ClaimLimit \in Nat \ {0}
  /\ RecoverLimit \in Nat \ {0}
  /\ AllowForce \in BOOLEAN

VARIABLE held   \* per process: the <<job, token>> pairs its claims returned

vars == <<job, result, call, held>>

TypeOK ==
  /\ TableTypeOK
  /\ held \in [Workers -> SUBSET (Jobs \X Nat)]

Init ==
  /\ TableInit
  /\ held = [w \in Workers |-> {}]

-----------------------------------------------------------------------------

Keep(w, j) == held' = [held EXCEPT ![w] = @ \union {<<j, job[j].attempts + 1>>}]

Submit(j) == Enqueue(j) /\ UNCHANGED held

ClaimNext(w) == \E j \in Jobs : ClaimNextRow(w, j, ClaimLimit) /\ Keep(w, j)

Claim(w) == \E j \in Jobs : ClaimThisRow(w, j, ClaimLimit) /\ Keep(w, j)

Renew(w) == \E c \in held[w] : Heartbeat(w, c[1], w, c[2]) /\ UNCHANGED held

Complete(w) == \E c \in held[w] : CompleteRow(w, c[1], w, c[2]) /\ UNCHANGED held

BeginFinish(w) ==
  \E c \in held[w], retry \in BOOLEAN :
    FinishCheck(w, c[1], w, c[2], retry) /\ UNCHANGED held

EndFinish(w) == FinishApply(w) /\ UNCHANGED held

BeginRecord(w) == \E c \in held[w] : RecordCheck(w, c[1], w, c[2]) /\ UNCHANGED held

EndRecord(w) == RecordApply(w) /\ UNCHANGED held

Recover ==
  \E force \in BOOLEAN :
    /\ force => AllowForce
    /\ Due(force) # {}
    /\ RecoverRows(RecoverLimit, force)
    /\ UNCHANGED held

TimePasses == Tick /\ UNCHANGED held

Crash(w) ==
  /\ DropCall(w)
  /\ held' = [held EXCEPT ![w] = {}]

Next ==
  \/ \E j \in Jobs : Submit(j)
  \/ \E w \in Workers :
       \/ ClaimNext(w) \/ Claim(w) \/ Renew(w) \/ Complete(w)
       \/ BeginFinish(w) \/ EndFinish(w) \/ BeginRecord(w) \/ EndRecord(w)
       \/ Crash(w)
  \/ Recover
  \/ TimePasses

Spec == Init /\ [][Next]_vars

-----------------------------------------------------------------------------
(* Properties *)

\* An execution that ended, either way and by whichever of complete, finish
\* and recovery, has its durable result
\* (docs/runtime-recovery-invariants.md, 4 and 5).
TerminalHasResult ==
  \A j \in Jobs : job[j].status \in Terminal => result[j] # NoResult

\* The credentials of a running row are in the hands of no process but its
\* owner: neither a crash, a recovery nor a second claim hands them out twice.
CredentialsAreExclusive ==
  \A w \in Workers : \A c \in held[w] :
    Running(c[1]) /\ job[c[1]].token = c[2] => job[c[1]].worker = w

\* The columns of a row agree: exactly a running row has an owner and a token,
\* and the token is that of the last claim.
OwnershipShape ==
  \A j \in Jobs :
    IF Running(j)
    THEN job[j].worker \in Workers /\ job[j].token = job[j].attempts /\ job[j].attempts > 0
    ELSE job[j].worker = NoWorker /\ job[j].token = 0 /\ job[j].lease = 0

\* Whatever is late, repeated or raced, the first durable result of an
\* execution is the one that stays
\* (docs/PERSISTENCE_AND_RECOVERY_V1.md: "cannot be overwritten").
ResultIsWriteOnce ==
  [][\A j \in Jobs : result[j] # NoResult => result'[j] = result[j]]_vars

\* No late call, recovery or claim moves a row out of its terminal state.
TerminalIsFinal ==
  [][\A j \in Jobs : job[j].status \in Terminal => job'[j].status = job[j].status]_vars

\* While its lease runs, only the owner takes a row out of running; everyone
\* else waits until the lease has passed.
LeaseProtectsOwner ==
  [][\A j \in Jobs :
       Running(j) /\ job[j].lease > 0 /\ job'[j].status # "running"
         => \E w \in Workers :
              /\ job[j].worker = w
              /\ <<j, job[j].token>> \in held[w]
              /\ Complete(w) \/ EndFinish(w)]_vars

\* The outcome of every job as the callers of the store may rely on it.
Lifecycle == INSTANCE JobLifecycle WITH
  Outcomes <- Verdict \ {NoResult},
  NoOutcome <- NoResult,
  state <- [j \in Jobs |-> job[j].status],
  outcome <- result

\* The store implements the abstract life cycle of a job.
ImplementsLifecycle == Lifecycle!Spec

\* The process that owns a running row is dead, and with it the credentials.
Orphaned(j) == Running(j) /\ <<j, job[j].token>> \notin held[job[j].worker]

\* A job whose owner died is not a success afterwards unless a handler's result
\* is on record (docs/runtime-recovery-invariants.md, 2: "recovered without being
\* treated as successful", and its last sentence: a restart "must not invent
\* success").  Nobody can complete such a row; only the recovery ends it.
RecoveryInventsNoSuccess ==
  [][\A j \in Jobs :
       Orphaned(j) /\ job'[j].status = "completed" => result[j].kind = "work"]_vars
=============================================================================
