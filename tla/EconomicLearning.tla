-------------------------- MODULE EconomicLearning --------------------------
(***************************************************************************)
(* Verified economic outcomes in aurelix-server: HTTP requests record them *)
(* in a ledger (POST /v1/actions/economic/outcomes), and the system cycle, *)
(* a durable job that the schedule and other requests submit, turns the    *)
(* ledger's entries into lessons, each one once (aurelix_core/server.py,   *)
(* system_orchestrator.py, economic_attribution.py,                        *)
(* verified_economic_learning.py, learning.py; aurelix_runtime/system.py,  *)
(* scheduler.py).                                                          *)
(*                                                                         *)
(* One process: its endpoints run in a pool of threads, its loop in one    *)
(* more thread.  The jobs are durable; the ledger, the emitted set and the *)
(* lessons are in memory and go with the process.                          *)
(*                                                                         *)
(* Abstractions.  The fields of an outcome that the ledger compares are one*)
(* value of Facts; requests whose fields it refuses are left out.  Cycle   *)
(* jobs run the same handler, so which of the queued ones is claimed, and  *)
(* what they are about, does not matter: a job that has ended is a free    *)
(* number.  The stages of a cycle before its lessons are one step.         *)
(***************************************************************************)
EXTENDS Naturals, FiniteSets

CONSTANTS
  Refs,            \* external references
  Facts,           \* what an outcome says: opportunity, source, amounts, ...
  NoFacts,         \* no entry
  Requests,        \* bound: requests that record outcomes at the same time
  Cycles,          \* bound: cycle jobs that have not ended (a lost lease or a
                   \* death may leave one running for good; one more is free)
  MaxAttempts,     \* RuntimeConfig.max_attempts
  MaxJobsPerTick,  \* SchedulerConfig.max_jobs_per_tick
  MaxFaults,       \* bound: attempts that raise or lose their lease
  MaxCrashes       \* bound: deaths of the process

ASSUME LearningAssumption ==
  /\ NoFacts \notin Facts
  /\ MaxAttempts \in Nat \ {0}
  /\ MaxJobsPerTick \in Nat \ {0}
  /\ MaxFaults \in Nat
  /\ MaxCrashes \in Nat
  /\ IsFiniteSet(Cycles) /\ Cardinality(Cycles) > MaxFaults + MaxCrashes

VARIABLES
  job,      \* table jobs: the system.cycle jobs
  due,      \* the schedule's next run has come
  pc,       \* where the loop is
  mine,     \* the job it runs
  left,     \* jobs it may still run in this tick
  ledger,   \* EconomicAttributionLedger._entries
  emitted,  \* VerifiedEconomicLearning._emitted
  lessons,  \* LearningEngine._items: how many there are of each signal
  request,  \* the outcome each request has checked and not yet written
  faults, crashes

vars == <<job, due, pc, mine, left, ledger, emitted, lessons, request, faults, crashes>>
memory == <<ledger, emitted, lessons, request>>

Signals == Refs \X Facts
NoRequest == <<>>
Job == [status: {"ended", "queued", "running"}, attempts: 0..MaxAttempts]
Ended == [status |-> "ended", attempts |-> 0]

TypeOK ==
  /\ job \in [Cycles -> Job]
  /\ due \in BOOLEAN
  /\ pc \in {"down", "tick", "work", "stages", "report"}
  /\ mine \in Cycles
  /\ left \in 0..MaxJobsPerTick
  /\ ledger \in [Refs -> Facts \union {NoFacts}]
  /\ emitted \subseteq Signals
  /\ lessons \in [Signals -> Nat]
  /\ request \in [Requests -> Signals \union {NoRequest}]
  /\ faults \in 0..MaxFaults
  /\ crashes \in 0..MaxCrashes

Init ==
  /\ job = [c \in Cycles |-> Ended]
  /\ due = TRUE
  /\ pc = "down"
  /\ mine \in Cycles
  /\ left = 0
  /\ ledger = [r \in Refs |-> NoFacts]
  /\ emitted = {}
  /\ lessons = [s \in Signals |-> 0]
  /\ request = [q \in Requests |-> NoRequest]
  /\ faults = 0
  /\ crashes = 0

-----------------------------------------------------------------------------
(* Requests *)

\* record looks for an entry of this reference: the same facts are answered
\* with it, other facts are refused, and no entry lets the request go on.
CheckOutcome(q, s) ==
  /\ pc # "down"
  /\ request[q] = NoRequest
  /\ ledger[s[1]] = NoFacts
  /\ request' = [request EXCEPT ![q] = s]
  /\ UNCHANGED <<job, due, pc, mine, left, ledger, emitted, lessons, faults, crashes>>

\* It writes its entry, whatever is there by now, and answers.
WriteOutcome(q) ==
  /\ request[q] # NoRequest
  /\ ledger' = [ledger EXCEPT ![request[q][1]] = request[q][2]]
  /\ request' = [request EXCEPT ![q] = NoRequest]
  /\ UNCHANGED <<job, due, pc, mine, left, emitted, lessons, faults, crashes>>

\* A cycle job is queued under a number that is free.
Queue(c) ==
  /\ job[c].status = "ended"
  /\ job' = [job EXCEPT ![c] = [status |-> "queued", attempts |-> 0]]

\* POST /v1/actions/objectives
SubmitObjective ==
  /\ pc # "down"
  /\ \E c \in Cycles : Queue(c)
  /\ UNCHANGED <<due, pc, mine, left, memory, faults, crashes>>

-----------------------------------------------------------------------------
(* The loop *)

ComesDue ==
  /\ ~due
  /\ due' = TRUE
  /\ UNCHANGED <<job, pc, mine, left, memory, faults, crashes>>

\* The head of AurelixSystem.tick.  (A full table is the bound of the model.)
EnqueueDue ==
  /\ pc = "tick"
  /\ \/ /\ due
        /\ \E c \in Cycles : Queue(c)
        /\ due' = FALSE
     \/ /\ ~due \/ \A c \in Cycles : job[c].status # "ended"
        /\ UNCHANGED <<job, due>>
  /\ pc' = "work"
  /\ left' = MaxJobsPerTick
  /\ UNCHANGED <<mine, memory, faults, crashes>>

Claimable == {c \in Cycles : job[c].status = "queued" /\ job[c].attempts < MaxAttempts}

ClaimCycle ==
  /\ pc = "work"
  /\ left > 0
  /\ \E c \in Claimable :
       /\ job' = [job EXCEPT ![c] = [status |-> "running", attempts |-> @.attempts + 1]]
       /\ mine' = c
  /\ pc' = "stages"
  /\ left' = left - 1
  /\ UNCHANGED <<due, memory, faults, crashes>>

EndTick ==
  /\ pc = "work"
  /\ left = 0 \/ Claimable = {}
  /\ pc' = "tick"
  /\ UNCHANGED <<job, due, mine, left, memory, faults, crashes>>

\* Mutant of Fresh: what signals returns, not what emit returns.
FreshAgain == {s \in Signals : ledger[s[1]] = s[2]}

\* emit: the signals of the ledger's entries that were not emitted before.
Fresh == {s \in Signals : ledger[s[1]] = s[2]} \ emitted

\* Mutant of Learn: the lessons are recorded with the report, if it comes.
LearnLater ==
  /\ pc = "stages"
  /\ emitted' = emitted \union Fresh
  /\ \E done \in BOOLEAN :
       lessons' = [s \in Signals |-> lessons[s] + IF done /\ s \in Fresh THEN 1 ELSE 0]
  /\ pc' = "report"
  /\ UNCHANGED <<job, due, mine, left, ledger, request, faults, crashes>>

\* run_cycle has its knowledge and its proposal: emit and record the lessons.
\* Only the loop emits; a request that writes meanwhile is seen next time.
Learn ==
  /\ pc = "stages"
  /\ emitted' = emitted \union Fresh
  /\ lessons' = [s \in Signals |-> lessons[s] + IF s \in Fresh THEN 1 ELSE 0]
  /\ pc' = "report"
  /\ UNCHANGED <<job, due, mine, left, ledger, request, faults, crashes>>

\* The cycle is audited, and its job completed.
Report ==
  /\ pc = "report"
  /\ job' = [job EXCEPT ![mine] = Ended]
  /\ pc' = "work"
  /\ UNCHANGED <<due, mine, left, memory, faults, crashes>>

\* A job whose attempt is over without a result: queued, or failed.
Released(c) == IF job[c].attempts < MaxAttempts THEN [job[c] EXCEPT !.status = "queued"]
               ELSE Ended

\* An exception in the stages, or in the audit that follows the lessons.
CycleRaises ==
  /\ pc \in {"stages", "report"}
  /\ faults < MaxFaults
  /\ job' = [job EXCEPT ![mine] = Released(mine)]
  /\ pc' = "work"
  /\ faults' = faults + 1
  /\ UNCHANGED <<due, mine, left, memory, crashes>>

\* The lease had passed when the cycle completed: the row stays as it is.
LeaseLost ==
  /\ pc = "report"
  /\ faults < MaxFaults
  /\ pc' = "work"
  /\ faults' = faults + 1
  /\ UNCHANGED <<job, due, mine, left, memory, crashes>>

\* The process dies.
Crash ==
  /\ pc # "down"
  /\ crashes < MaxCrashes
  /\ crashes' = crashes + 1
  /\ pc' = "down"
  /\ ledger' = [r \in Refs |-> NoFacts]
  /\ emitted' = {}
  /\ lessons' = [s \in Signals |-> 0]
  /\ request' = [q \in Requests |-> NoRequest]
  /\ UNCHANGED <<job, due, mine, left, faults>>

\* It starts: rows whose lease has passed are recovered, and the schedule is
\* due at once.
Start ==
  /\ pc = "down"
  /\ \E S \in SUBSET {c \in Cycles : job[c].status = "running"} :
       job' = [c \in Cycles |-> IF c \in S THEN Released(c) ELSE job[c]]
  /\ due' = TRUE
  /\ pc' = "tick"
  /\ UNCHANGED <<mine, left, memory, faults, crashes>>

-----------------------------------------------------------------------------

Next ==
  \/ \E q \in Requests : WriteOutcome(q) \/ \E s \in Signals : CheckOutcome(q, s)
  \/ SubmitObjective
  \/ ComesDue \/ EnqueueDue \/ ClaimCycle \/ EndTick
  \/ Learn \/ Report \/ CycleRaises \/ LeaseLost
  \/ Crash \/ Start

\* Time passes, the loop goes on, and the deployment restarts a process that
\* died.  Requests, faults and deaths need not come.
Fairness ==
  /\ WF_vars(ComesDue)
  /\ WF_vars(EnqueueDue \/ ClaimCycle \/ EndTick)
  /\ WF_vars(Learn \/ Report \/ CycleRaises)
  /\ WF_vars(Start)

Spec == Init /\ [][Next]_vars
FairSpec == Spec /\ Fairness

-----------------------------------------------------------------------------
(* Properties *)

\* No outcome is learned twice in the life of a process, however often the
\* cycle that learned it fails afterwards and is run again.
LearnedOnce == \A s \in Signals : lessons[s] <= 1

\* Every entry of the ledger becomes a lesson, whatever the cycles that were
\* to learn it met, unless another request overwrites it or the process dies.
OutcomesAreLearned ==
  \A s \in Signals :
    ledger[s[1]] = s[2] ~> lessons[s] > 0 \/ ledger[s[1]] # s[2]

\* A reference stands for one outcome: no two lessons rest on the same
\* external reference (economic_attribution.py: "idempotency key").
OneOutcomePerReference ==
  \A s, t \in Signals :
    s[1] = t[1] /\ lessons[s] > 0 /\ lessons[t] > 0 => s = t
=============================================================================
