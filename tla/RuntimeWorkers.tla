--------------------------- MODULE RuntimeWorkers ---------------------------
(***************************************************************************)
(* The worker loops over the durable store: AurelixRuntime.run_once inside *)
(* serve_forever / AurelixSystem.run_forever (src/aurelix_runtime/         *)
(* runtime.py).  One process runs one loop; a process recovers abandoned   *)
(* rows when it starts and at no other time.  In aurelix-server the loop is*)
(* a daemon thread: when an exception ends it the process stays, and       *)
(* nothing starts the loop again but a restart of the process.             *)
(*                                                                         *)
(* pc[w] is "down" before a start and after a crash, "idle" between two    *)
(* iterations, "handling" while the handler of mine[w] runs (a handler such*)
(* as AutonomyFabric.run_claimed may complete the job itself first),       *)
(* "failing" in the exception path that calls finish, "dead" when an       *)
(* exception left run_once and ended the loop.                             *)
(***************************************************************************)
EXTENDS JobTable

CONSTANTS
  MaxAttempts,   \* RuntimeConfig.max_attempts
  RecoverLimit,  \* the max_attempts the start-up recovery is called with
  MaxCrashes     \* bound: how often each process crashes

ASSUME WorkersAssumption ==
  /\ MaxAttempts \in Nat \ {0}
  /\ RecoverLimit \in Nat \ {0}
  /\ MaxCrashes \in Nat

VARIABLES
  pc,       \* where each loop is
  mine,     \* the <<job, token>> it claimed last
  beating,  \* its heartbeat thread runs
  claims,   \* history: every credential the process got
  audit,    \* history: audit events of each job
  crashes   \* history: crashes of each process

loopVars == <<pc, mine, beating, claims, audit, crashes>>
vars == <<job, result, call, pc, mine, beating, claims, audit, crashes>>

NoClaim == <<NoJob, 0>>
Events == {"completed", "lease_lost", "retry", "failed"}

TypeOK ==
  /\ TableTypeOK
  /\ pc \in [Workers -> {"down", "idle", "handling", "failing", "dead"}]
  /\ mine \in [Workers -> (Jobs \X Nat) \union {NoClaim}]
  /\ beating \in [Workers -> BOOLEAN]
  /\ claims \in [Workers -> SUBSET (Jobs \X Nat)]
  /\ audit \in [Jobs -> SUBSET Events]
  /\ crashes \in [Workers -> 0..MaxCrashes]

Init ==
  /\ TableInit
  /\ pc = [w \in Workers |-> "down"]
  /\ mine = [w \in Workers |-> NoClaim]
  /\ beating = [w \in Workers |-> FALSE]
  /\ claims = [w \in Workers |-> {}]
  /\ audit = [j \in Jobs |-> {}]
  /\ crashes = [w \in Workers |-> 0]

-----------------------------------------------------------------------------

Submit(j) == Enqueue(j) /\ UNCHANGED loopVars

\* AurelixRuntime.__init__, AurelixSystem.start
Start(w) ==
  /\ pc[w] \in {"down", "dead"}
  /\ pc' = [pc EXCEPT ![w] = "idle"]
  /\ RecoverRows(RecoverLimit, FALSE)
  /\ UNCHANGED <<mine, beating, claims, audit, crashes>>

\* The head of run_once: claim the oldest job, start the heartbeat thread.
ClaimNext(w) ==
  /\ pc[w] = "idle"
  /\ \E j \in Jobs :
       LET c == <<j, job[j].attempts + 1>>
       IN /\ ClaimNextRow(w, j, MaxAttempts)
          /\ mine' = [mine EXCEPT ![w] = c]
          /\ claims' = [claims EXCEPT ![w] = @ \union {c}]
  /\ pc' = [pc EXCEPT ![w] = "handling"]
  /\ beating' = [beating EXCEPT ![w] = TRUE]
  /\ UNCHANGED <<audit, crashes>>

\* The heartbeat thread: renew, or end when the lease is lost.
Beat(w) ==
  /\ beating[w]
  /\ \/ /\ Heartbeat(w, mine[w][1], w, mine[w][2])
        /\ UNCHANGED loopVars
     \/ /\ LockFree(w)
        /\ ~(OwnedBy(mine[w][1], w, mine[w][2]) /\ job[mine[w][1]].lease > 0)
        /\ beating' = [beating EXCEPT ![w] = FALSE]
        /\ UNCHANGED <<job, result, call, pc, mine, claims, audit, crashes>>

-----------------------------------------------------------------------------

\* The end of run_once: an audit event, and the heartbeat thread stops.
EndIteration(w, event) ==
  /\ pc' = [pc EXCEPT ![w] = "idle"]
  /\ beating' = [beating EXCEPT ![w] = FALSE]
  /\ audit' = [audit EXCEPT ![mine[w][1]] = @ \union {event}]
  /\ UNCHANGED <<mine, claims, crashes>>

\* An exception that is not LeaseLostError reaches run_once.
Fails(w) ==
  /\ pc' = [pc EXCEPT ![w] = "failing"]
  /\ UNCHANGED <<job, result, call, mine, beating, claims, audit, crashes>>

\* An exception leaves run_once; its finally stops the heartbeat thread.
Escapes(w) ==
  /\ pc' = [pc EXCEPT ![w] = "dead"]
  /\ beating' = [beating EXCEPT ![w] = FALSE]
  /\ UNCHANGED <<job, result, call, mine, claims, audit, crashes>>

Outcome(w) == CompleteOutcome(mine[w][1], w, mine[w][2])

\* A claimed handler completes the job itself and has work left to do.
HandlerCompletes(w) ==
  /\ pc[w] = "handling"
  /\ CompleteRow(w, mine[w][1], w, mine[w][2])
  /\ UNCHANGED loopVars

\* The handler returned and run_once completes the job (or, for a claimed
\* handler whose own complete raised, run_once sees the same exception).
HandlerReturns(w) ==
  /\ pc[w] = "handling"
  /\ LockFree(w)
  /\ \/ /\ Outcome(w) = "stored"
        /\ CompleteRow(w, mine[w][1], w, mine[w][2])
        /\ EndIteration(w, "completed")
     \/ /\ Outcome(w) = "existing"
        /\ UNCHANGED tableVars
        /\ EndIteration(w, "completed")
     \/ /\ Outcome(w) = "LeaseLostError"
        /\ UNCHANGED tableVars
        /\ EndIteration(w, "lease_lost")
     \/ /\ Outcome(w) = "RuntimeError"
        /\ Fails(w)

\* Mutant of HandlerRaises: the loop audits the failure and forgets finish.
HandlerRaisesForgotten(w) ==
  /\ pc[w] = "handling"
  /\ LockFree(w)
  /\ EndIteration(w, "failed")
  /\ UNCHANGED tableVars

HandlerRaises(w) ==
  /\ pc[w] = "handling"
  /\ LockFree(w)
  /\ Fails(w)

\* Mutant of Retries: one attempt too few.
RetriesOnceLess(w) == mine[w][2] + 1 < MaxAttempts

\* retry = job.attempts < max_attempts, of the record the claim returned.
Retries(w) == mine[w][2] < MaxAttempts

\* Mutant of CallFinish: it presents whatever credentials the row has now.
CallFinishRereads(w) ==
  LET j == mine[w][1]
  IN /\ pc[w] = "failing"
     /\ LockFree(w)
     /\ \/ /\ FinishCheck(w, j, job[j].worker, job[j].token, Retries(w))
           /\ UNCHANGED loopVars
        \/ /\ ~Running(j)
           /\ Escapes(w)

\* finish checks the row: it goes on, or raises one of two exceptions, and
\* run_once catches only LeaseLostError.
CallFinish(w) ==
  LET j == mine[w][1]
      t == mine[w][2]
  IN /\ pc[w] = "failing"
     /\ LockFree(w)
     /\ \/ /\ FinishCheck(w, j, w, t, Retries(w))
           /\ UNCHANGED loopVars
        \/ /\ Running(j) /\ ~OwnedBy(j, w, t)
           /\ UNCHANGED tableVars
           /\ EndIteration(w, "lease_lost")
        \/ /\ ~Running(j)
           /\ Escapes(w)

\* finish writes and returns; run_once audits what it asked for.
FinishReturns(w) ==
  /\ pc[w] = "failing"
  /\ FinishApply(w)
  /\ EndIteration(w, IF Retries(w) THEN "retry" ELSE "failed")

Crash(w) ==
  /\ pc[w] \notin {"down", "dead"}
  /\ crashes[w] < MaxCrashes
  /\ DropCall(w)
  /\ pc' = [pc EXCEPT ![w] = "down"]
  /\ beating' = [beating EXCEPT ![w] = FALSE]
  /\ claims' = [claims EXCEPT ![w] = {}]
  /\ crashes' = [crashes EXCEPT ![w] = @ + 1]
  /\ UNCHANGED <<mine, audit>>

TimePasses == Tick /\ UNCHANGED loopVars

Next ==
  \/ \E j \in Jobs : Submit(j)
  \/ \E w \in Workers :
       \/ Start(w) \/ ClaimNext(w) \/ Beat(w)
       \/ HandlerCompletes(w) \/ HandlerReturns(w) \/ HandlerRaises(w)
       \/ CallFinish(w) \/ FinishReturns(w)
       \/ Crash(w)
  \/ TimePasses

\* The deployment restarts a process that ended, a loop that has a job to
\* claim claims it, and every handler returns or raises.  Nothing makes a
\* heartbeat, a crash, a submission or the restart of a dead loop happen.
Fairness ==
  \A w \in Workers :
    /\ WF_vars(pc[w] = "down" /\ Start(w))
    /\ WF_vars(ClaimNext(w))
    /\ WF_vars(HandlerReturns(w) \/ HandlerRaises(w))
    /\ WF_vars(CallFinish(w) \/ FinishReturns(w))

Spec == Init /\ [][Next]_vars
FairSpec == Spec /\ Fairness

-----------------------------------------------------------------------------
(* Properties *)

\* The loops use the store only as its contract says: their steps on the
\* table are steps of RuntimeStore, so what is proved of it holds here.
Store == INSTANCE RuntimeStore WITH
  held <- claims, ClaimLimit <- MaxAttempts, AllowForce <- FALSE

ImplementsStore == Store!Spec

\* A running row is being worked on by the process that owns it, unless that
\* process crashed since: no path through run_once, with or without a lost
\* lease, walks away from a row it still owns.
RunningIsAttended ==
  \A j \in Jobs : Running(j) =>
    LET w == job[j].worker
    IN \/ pc[w] \in {"handling", "failing"} /\ mine[w] = <<j, job[j].token>>
       \/ crashes[w] > 0

\* Recoveries, late failures and retries, however they interleave, keep a job's
\* budget of attempts: it fails for good only when the budget is spent, and it
\* is queued only while a claim would still take it.
BudgetIsKept ==
  \A j \in Jobs :
    /\ job[j].status = "failed" => job[j].attempts = MaxAttempts
    /\ job[j].status = "queued" => job[j].attempts < MaxAttempts

\* A completed job has the result of a run.  The store does not promise it
\* (see RuntimeStore): it holds because the loop asks for a terminal failure
\* only of the last attempt, which recovery would fail as well.
NoInventedSuccess ==
  \A j \in Jobs : job[j].status = "completed" => result[j].kind = "work"

\* An audited completion is durable, also when the auditing worker had lost
\* its lease and complete returned the result of another.
AuditedCompletionIsDurable ==
  \A j \in Jobs : "completed" \in audit[j] => job[j].status = "completed"

\* Every submitted job ends, unless from some time on no loop is left (an
\* exception of finish ends a loop for good) or a process crashed: recovery
\* only runs at a start, so a process that restarts before the lease it left
\* has expired leaves the row running with nobody to take it up.
NoLoopLeft == \A w \in Workers : pc[w] = "dead"

JobsSettle ==
  \/ \A j \in Jobs : job[j].status = "queued" ~> job[j].status \in Terminal
  \/ <>[]NoLoopLeft
  \/ <>(\E w \in Workers : crashes[w] > 0)
=============================================================================
