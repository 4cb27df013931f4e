---------------------------- MODULE JobLifecycle ----------------------------
(***************************************************************************)
(* What the durable job store promises for each job, whoever calls it and  *)
(* in whatever order: a job moves absent -> queued -> running -> terminal, *)
(* may go back from running to queued, never leaves a terminal state, has  *)
(* an outcome when it is there, and its outcome is written at most once.   *)
(* Jobs move independently of each other, several in one step (a recovery  *)
(* moves every abandoned job).                                             *)
(***************************************************************************)
CONSTANTS Jobs, Outcomes, NoOutcome

VARIABLES state, outcome

States == {"absent", "queued", "running", "completed", "failed"}

Init ==
  /\ state = [j \in Jobs |-> "absent"]
  /\ outcome = [j \in Jobs |-> NoOutcome]

KeepOutcome(j) == outcome'[j] = outcome[j]

\* The outcome is set if there was none.
Decide(j) ==
  /\ outcome'[j] \in Outcomes
  /\ outcome[j] # NoOutcome => KeepOutcome(j)

Submit(j)  == state[j] = "absent"  /\ state'[j] = "queued"    /\ KeepOutcome(j)
Start(j)   == state[j] = "queued"  /\ state'[j] = "running"   /\ KeepOutcome(j)
Requeue(j) == state[j] = "running" /\ state'[j] = "queued"    /\ KeepOutcome(j)
Succeed(j) == state[j] = "running" /\ state'[j] = "completed" /\ Decide(j)
Fail(j)    == state[j] = "running" /\ state'[j] = "failed"    /\ Decide(j)

\* An outcome may be on record before the job ends, never after.
Record(j) ==
  /\ state[j] \in {"queued", "running"}
  /\ state'[j] = state[j]
  /\ Decide(j)

Rest(j) == state'[j] = state[j] /\ KeepOutcome(j)

JobStep(j) ==
  \/ Submit(j) \/ Start(j) \/ Requeue(j)
  \/ Succeed(j) \/ Fail(j) \/ Record(j)
  \/ Rest(j)

Next ==
  /\ state' \in [Jobs -> States]
  /\ outcome' \in [Jobs -> Outcomes \union {NoOutcome}]
  /\ \A j \in Jobs : JobStep(j)

Spec == Init /\ [][Next]_<<state, outcome>>
=============================================================================
