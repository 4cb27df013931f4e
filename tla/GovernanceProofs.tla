-------------------------- MODULE GovernanceProofs --------------------------
(***************************************************************************)
(* Proofs about OpportunityExecution, for any number of callers, requests, *)
(* costs and opportunities: what the governed execution of operations lets *)
(* overlapping callers do, and no more.                                    *)
(*                                                                         *)
(* Each result has three parts: what a step does to the few things it is   *)
(* about (a lemma with one case for each action), an inductive invariant   *)
(* over those things, and the property.                                    *)
(***************************************************************************)
EXTENDS OpportunityExecution, FiniteSetTheorems, TLAPS

N == Cardinality(Threads)

LEMMA NumberOfThreads == N \in Nat \ {0}
  BY GovernedAssumption, FS_CardinalityType, FS_EmptySet DEF N

\* A set of threads has at most N elements, and fewer if one is missing.
LEMMA ThreadSets ==
  ASSUME NEW S \in SUBSET Threads
  PROVE  /\ IsFiniteSet(S) /\ Cardinality(S) \in Nat /\ Cardinality(S) <= N
         /\ \A t \in Threads \ S : Cardinality(S \union {t}) = Cardinality(S) + 1
         /\ \A t \in S : Cardinality(S \ {t}) = Cardinality(S) - 1
         /\ \A t \in Threads \ S : Cardinality(S) <= N - 1
         /\ \A R \in SUBSET S : Cardinality(R) <= Cardinality(S)
  <1>1. IsFiniteSet(Threads)
    BY GovernedAssumption
  <1>2. IsFiniteSet(S) /\ Cardinality(S) <= N /\ Cardinality(S) \in Nat
    BY <1>1, FS_Subset, FS_CardinalityType DEF N
  <1>3. \A t \in Threads \ S : Cardinality(S \union {t}) = Cardinality(S) + 1
    BY <1>2, FS_AddElement
  <1>4. \A t \in S : Cardinality(S \ {t}) = Cardinality(S) - 1
    BY <1>2, FS_RemoveElement
  <1>5. ASSUME NEW t \in Threads \ S PROVE Cardinality(S) <= N - 1
    <2>1. Cardinality(S \union {t}) <= N
      BY <1>1, FS_Subset DEF N
    <2> QED BY <2>1, <1>2, <1>3, NumberOfThreads
  <1>6. \A R \in SUBSET S : Cardinality(R) <= Cardinality(S)
    BY <1>2, FS_Subset
  <1> QED BY <1>2, <1>3, <1>4, <1>5, <1>6

-----------------------------------------------------------------------------
(* The shape of the governed part of the state *)

\* Every step preserves the shape of the state.
LEMMA NextType == GovernedTypeOK /\ [Next]_vars => GovernedTypeOK'
  <1> SUFFICES ASSUME GovernedTypeOK, [Next]_vars PROVE GovernedTypeOK'
    OBVIOUS
  <1> USE GovernedAssumption, OpportunityAssumption DEF Steps
  <1>1. ASSUME NEW t \in Threads, NEW r \in Requests, Authorize(t, r), UNCHANGED revenueVars PROVE
       GovernedTypeOK'
    BY <1>1 DEF Authorize, Begin, Input, At, budgetVars, approvalVars, GovernedTypeOK
  <1>2. ASSUME NEW t \in Threads, NEW r \in Requests, Run(t, r), UNCHANGED revenueVars PROVE
       GovernedTypeOK'
    BY <1>2 DEF Run, Begin, Input, At, budgetVars, approvalVars, GovernedTypeOK
  <1>3. ASSUME NEW t \in Threads, NEW r \in Requests, Approve(t, r), UNCHANGED revenueVars PROVE
       GovernedTypeOK'
    BY <1>3 DEF Approve, Begin, Input, At, budgetVars, approvalVars, GovernedTypeOK
  <1>4. ASSUME NEW r \in Requests, Submit(r), UNCHANGED revenueVars PROVE GovernedTypeOK'
    BY <1>4 DEF Submit, Input, At, budgetVars, approvalVars, GovernedTypeOK
  <1>5. ASSUME NEW r \in Requests, Reject(r), UNCHANGED revenueVars PROVE GovernedTypeOK'
    BY <1>5 DEF Reject, Input, At, budgetVars, approvalVars, GovernedTypeOK
  <1>6. ASSUME NEW t \in Threads, CheckBudget(t), UNCHANGED revenueVars PROVE GovernedTypeOK'
    BY <1>6 DEF CheckBudget, Go, Leave, Idle, At, budgetVars, approvalVars, GovernedTypeOK
  <1>7. ASSUME NEW t \in Threads, Charge(t), UNCHANGED revenueVars PROVE GovernedTypeOK'
    BY <1>7 DEF Charge, Go, Leave, Idle, At, budgetVars, approvalVars, GovernedTypeOK
  <1>8. ASSUME NEW t \in Threads, Pay(t), UNCHANGED revenueVars PROVE GovernedTypeOK'
    BY <1>8 DEF Pay, Leave, Idle, At, budgetVars, approvalVars, GovernedTypeOK
  <1>9. ASSUME NEW t \in Threads, Enter(t), UNCHANGED revenueVars PROVE GovernedTypeOK'
    BY SMTT(30), <1>9 DEF Enter, Go, Leave, Idle, At, budgetVars, approvalVars, GovernedTypeOK
  <1>10. ASSUME NEW t \in Threads, Fail(t), UNCHANGED revenueVars PROVE GovernedTypeOK'
    BY <1>10 DEF Fail, Failed, Leave, Idle, At, budgetVars, approvalVars, GovernedTypeOK
  <1>11. ASSUME NEW t \in Threads, Succeed(t), UNCHANGED revenueVars PROVE GovernedTypeOK'
    <2>1. CASE call[t].for \in Budgeted
      BY <1>11, <2>1 DEF Succeed, Mended, Go, At, budgetVars, approvalVars, GovernedTypeOK
    <2>2. CASE call[t].for \notin Budgeted
      BY <1>11, <2>2 DEF Succeed, Mended, Leave, Idle, At, budgetVars, approvalVars,
           GovernedTypeOK
    <2> QED BY <2>1, <2>2
  <1>12. ASSUME NEW t \in Threads, Decide(t), UNCHANGED revenueVars PROVE GovernedTypeOK'
    BY <1>12 DEF Decide, Leave, Idle, At, budgetVars, approvalVars, GovernedTypeOK
  <1>13. ASSUME NEW o \in Opportunities, NEW c \in Claims, NEW q \in Qualities, NEW relation,
       AddEvidence(o, c, relation, q) PROVE GovernedTypeOK'
    BY <1>13 DEF AddEvidence, Input, At, objectVars, GovernedTypeOK
  <1>14. ASSUME NEW o \in Opportunities, Qualify(o) PROVE GovernedTypeOK'
    BY <1>14 DEF Qualify, At, governedVars, objectVars, GovernedTypeOK
  <1>15. ASSUME NEW t \in Threads, NEW o \in Opportunities,
            NEW risk, NEW capital, NEW production, Execute(t, o, risk, capital, production) PROVE
                 GovernedTypeOK'
    BY <1>15 DEF Execute, Begin, Input, At, budgetVars, approvalVars, GovernedTypeOK
  <1>16. ASSUME NEW t \in Threads, Admit(t) PROVE GovernedTypeOK'
    <2>1. /\ call' = [call EXCEPT ![t].at = "breaker"]
          /\ UNCHANGED <<breaker, spent, charged, refused, pending, submitted, approved, inputs>>
      BY <1>16 DEF Admit, Go, budgetVars, approvalVars
    <2> QED BY <2>1 DEF GovernedTypeOK, Steps
  <1>17. ASSUME NEW t \in Threads, Return(t) PROVE GovernedTypeOK'
    BY <1>17 DEF Return, Mended, Go, Leave, Idle, At, budgetVars, approvalVars, GovernedTypeOK
  <1>18. ASSUME NEW t \in Threads, NEW s \in Sources, NEW e \in Earnings, Observe(t, s, e) PROVE
       GovernedTypeOK'
    BY <1>18 DEF Observe, Begin, Input, At, budgetVars, approvalVars, GovernedTypeOK
  <1>19. ASSUME NEW t \in Threads, Record(t) PROVE GovernedTypeOK'
    BY <1>19 DEF Record, Go, At, budgetVars, approvalVars, GovernedTypeOK
  <1>20. ASSUME NEW t \in Threads, Total(t) PROVE GovernedTypeOK'
    BY <1>20 DEF Total, Go, At, budgetVars, approvalVars, GovernedTypeOK
  <1>21. ASSUME NEW t \in Threads, Store(t) PROVE GovernedTypeOK'
    BY <1>21 DEF Store, Leave, Idle, At, budgetVars, approvalVars, GovernedTypeOK
  <1>22. ASSUME NEW s \in Sources, Degrade(s) PROVE GovernedTypeOK'
    BY <1>22 DEF Degrade, Input, At, objectVars, GovernedTypeOK
  <1>23. ASSUME NEW s \in Sources, Look(s) PROVE GovernedTypeOK'
    BY <1>23 DEF Look, Input, At, objectVars, GovernedTypeOK
  <1>24. ASSUME NEW s \in Sources, Replace(s) PROVE GovernedTypeOK'
    BY <1>24 DEF Replace, Input, At, objectVars, GovernedTypeOK
  <1>25. CASE UNCHANGED vars
    BY <1>25 DEF vars, governedVars, GovernedTypeOK
  <1> QED
    BY <1>1, <1>2, <1>3, <1>4, <1>5, <1>6, <1>7, <1>8, <1>9, <1>10,
       <1>11, <1>12, <1>13, <1>14, <1>15, <1>16, <1>17, <1>18, <1>19,
       <1>20, <1>21, <1>22, <1>23, <1>24, <1>25
       DEF Next, Governed

LEMMA InitType == OpportunityInit => GovernedTypeOK
  BY GovernedAssumption DEF OpportunityInit, Init, Mended, GovernedTypeOK, Idle, Steps

-----------------------------------------------------------------------------
(* The breaker *)

\* What a step does to the breaker and to the operations that run.
BreakerStep ==
  \/ breaker' = breaker /\ Running' \subseteq Running
  \/ breaker' = breaker /\ breaker.state # "open"
  \/ breaker' = Mended /\ Running # {}
  \/ \E t \in Running : breaker' = Failed(breaker) /\ Running' = Running \ {t}

\* An operation starts under a closed breaker, and ends with a record.
LEMMA NextBreaker == GovernedTypeOK /\ [Next]_vars => BreakerStep
  <1> SUFFICES ASSUME GovernedTypeOK, [Next]_vars PROVE BreakerStep
    OBVIOUS
  <1> USE GovernedAssumption, OpportunityAssumption DEF Steps
  <1>1. ASSUME NEW t \in Threads, NEW r \in Requests, Authorize(t, r), UNCHANGED revenueVars PROVE
       BreakerStep
    BY <1>1 DEF Authorize, Begin, Input, At, budgetVars, approvalVars, BreakerStep, Running,
         GovernedTypeOK
  <1>2. ASSUME NEW t \in Threads, NEW r \in Requests, Run(t, r), UNCHANGED revenueVars PROVE
       BreakerStep
    BY <1>2 DEF Run, Begin, Input, At, budgetVars, approvalVars, BreakerStep, Running,
         GovernedTypeOK
  <1>3. ASSUME NEW t \in Threads, NEW r \in Requests, Approve(t, r), UNCHANGED revenueVars PROVE
       BreakerStep
    BY <1>3 DEF Approve, Begin, Input, At, budgetVars, approvalVars, BreakerStep, Running,
         GovernedTypeOK
  <1>4. ASSUME NEW r \in Requests, Submit(r), UNCHANGED revenueVars PROVE BreakerStep
    BY <1>4 DEF Submit, Input, At, budgetVars, approvalVars, BreakerStep, Running, GovernedTypeOK
  <1>5. ASSUME NEW r \in Requests, Reject(r), UNCHANGED revenueVars PROVE BreakerStep
    BY <1>5 DEF Reject, Input, At, budgetVars, approvalVars, BreakerStep, Running, GovernedTypeOK
  <1>6. ASSUME NEW t \in Threads, CheckBudget(t), UNCHANGED revenueVars PROVE BreakerStep
    BY <1>6 DEF CheckBudget, Go, Leave, Idle, At, budgetVars, approvalVars, BreakerStep, Running,
         GovernedTypeOK
  <1>7. ASSUME NEW t \in Threads, Charge(t), UNCHANGED revenueVars PROVE BreakerStep
    BY <1>7 DEF Charge, Go, Leave, Idle, At, budgetVars, approvalVars, BreakerStep, Running,
         GovernedTypeOK
  <1>8. ASSUME NEW t \in Threads, Pay(t), UNCHANGED revenueVars PROVE BreakerStep
    BY <1>8 DEF Pay, Leave, Idle, At, budgetVars, approvalVars, BreakerStep, Running,
         GovernedTypeOK
  <1>9. ASSUME NEW t \in Threads, Enter(t), UNCHANGED revenueVars PROVE BreakerStep
    BY <1>9 DEF Enter, Go, Leave, Idle, At, budgetVars, approvalVars, BreakerStep, Running,
         GovernedTypeOK
  <1>10. ASSUME NEW t \in Threads, Fail(t), UNCHANGED revenueVars PROVE BreakerStep
    <2>1. t \in Running /\ breaker' = Failed(breaker)
      BY <1>10 DEF Fail, Running
    <2>2. Running' = Running \ {t}
      BY <1>10 DEF Fail, Leave, Idle, At, Running, GovernedTypeOK
    <2> QED BY <2>1, <2>2 DEF BreakerStep
  <1>11. ASSUME NEW t \in Threads, Succeed(t), UNCHANGED revenueVars PROVE BreakerStep
    BY <1>11 DEF Succeed, Mended, Go, Leave, Idle, At, budgetVars, approvalVars, BreakerStep,
         Running, GovernedTypeOK
  <1>12. ASSUME NEW t \in Threads, Decide(t), UNCHANGED revenueVars PROVE BreakerStep
    BY <1>12 DEF Decide, Leave, Idle, At, budgetVars, approvalVars, BreakerStep, Running,
         GovernedTypeOK
  <1>13. ASSUME NEW o \in Opportunities, NEW c \in Claims, NEW q \in Qualities, NEW relation,
       AddEvidence(o, c, relation, q) PROVE BreakerStep
    BY <1>13 DEF AddEvidence, Input, At, objectVars, BreakerStep, Running, GovernedTypeOK
  <1>14. ASSUME NEW o \in Opportunities, Qualify(o) PROVE BreakerStep
    BY <1>14 DEF Qualify, At, governedVars, objectVars, BreakerStep, Running, GovernedTypeOK
  <1>15. ASSUME NEW t \in Threads, NEW o \in Opportunities,
            NEW risk, NEW capital, NEW production, Execute(t, o, risk, capital, production) PROVE
                 BreakerStep
    BY <1>15 DEF Execute, Begin, Input, At, budgetVars, approvalVars, BreakerStep, Running,
         GovernedTypeOK
  <1>16. ASSUME NEW t \in Threads, Admit(t) PROVE BreakerStep
    BY <1>16 DEF Admit, Go, At, budgetVars, approvalVars, BreakerStep, Running, GovernedTypeOK
  <1>17. ASSUME NEW t \in Threads, Return(t) PROVE BreakerStep
    BY <1>17 DEF Return, Mended, Go, Leave, Idle, At, budgetVars, approvalVars, BreakerStep,
         Running, GovernedTypeOK
  <1>18. ASSUME NEW t \in Threads, NEW s \in Sources, NEW e \in Earnings, Observe(t, s, e) PROVE
       BreakerStep
    BY <1>18 DEF Observe, Begin, Input, At, budgetVars, approvalVars, BreakerStep, Running,
         GovernedTypeOK
  <1>19. ASSUME NEW t \in Threads, Record(t) PROVE BreakerStep
    BY <1>19 DEF Record, Go, At, budgetVars, approvalVars, BreakerStep, Running, GovernedTypeOK
  <1>20. ASSUME NEW t \in Threads, Total(t) PROVE BreakerStep
    BY <1>20 DEF Total, Go, At, budgetVars, approvalVars, BreakerStep, Running, GovernedTypeOK
  <1>21. ASSUME NEW t \in Threads, Store(t) PROVE BreakerStep
    BY <1>21 DEF Store, Leave, Idle, At, budgetVars, approvalVars, BreakerStep, Running,
         GovernedTypeOK
  <1>22. ASSUME NEW s \in Sources, Degrade(s) PROVE BreakerStep
    BY <1>22 DEF Degrade, Input, At, objectVars, BreakerStep, Running, GovernedTypeOK
  <1>23. ASSUME NEW s \in Sources, Look(s) PROVE BreakerStep
    BY <1>23 DEF Look, Input, At, objectVars, BreakerStep, Running, GovernedTypeOK
  <1>24. ASSUME NEW s \in Sources, Replace(s) PROVE BreakerStep
    BY <1>24 DEF Replace, Input, At, objectVars, BreakerStep, Running, GovernedTypeOK
  <1>25. CASE UNCHANGED vars
    BY <1>25 DEF vars, governedVars, BreakerStep, Running, At
  <1> QED
    BY <1>1, <1>2, <1>3, <1>4, <1>5, <1>6, <1>7, <1>8, <1>9, <1>10,
       <1>11, <1>12, <1>13, <1>14, <1>15, <1>16, <1>17, <1>18, <1>19,
       <1>20, <1>21, <1>22, <1>23, <1>24, <1>25
       DEF Next, Governed

\* The invariant: each running operation may add one more failure to a breaker
\* that is open.
BreakerInv ==
  /\ breaker.state # "open" => breaker.failures < Threshold
  /\ breaker.failures + Cardinality(Running) <= Threshold - 1 + N \/ breaker.state # "open"

LEMMA BreakerInvariant == GovernedTypeOK /\ BreakerInv /\ [Next]_vars => BreakerInv'
  <1> SUFFICES ASSUME GovernedTypeOK, BreakerInv, [Next]_vars PROVE BreakerInv'
    OBVIOUS
  <1>1. BreakerStep
    BY NextBreaker
  <1>2. Running \in SUBSET Threads /\ Running' \in SUBSET Threads
    BY DEF Running
  <1>3. breaker.failures \in Nat /\ Threshold \in Nat \ {0} /\ N \in Nat \ {0}
    BY GovernedAssumption, NumberOfThreads DEF GovernedTypeOK
  <1>4. CASE breaker' = breaker /\ Running' \subseteq Running
    <2>1. Cardinality(Running') <= Cardinality(Running)
      BY <1>2, <1>4, ThreadSets
    <2>2. Cardinality(Running) \in Nat /\ Cardinality(Running') \in Nat
      BY <1>2, ThreadSets
    <2> QED BY <1>3, <1>4, <2>1, <2>2 DEF BreakerInv
  <1>5. CASE breaker' = breaker /\ breaker.state # "open"
    BY <1>5 DEF BreakerInv
  <1>6. CASE breaker' = Mended
    BY <1>3, <1>6 DEF BreakerInv, Mended
  <1>7. ASSUME NEW t \in Running, breaker' = Failed(breaker), Running' = Running \ {t}
        PROVE  BreakerInv'
    <2>1. Cardinality(Running') = Cardinality(Running) - 1 /\ Cardinality(Running) \in Nat
      BY <1>2, <1>7, ThreadSets
    <2>2. Cardinality(Running) <= N
      BY <1>2, ThreadSets
    <2>3. breaker'.failures = breaker.failures + 1
      BY <1>7 DEF Failed
    <2>4. CASE breaker.failures + 1 >= Threshold
      <3>1. breaker'.state = "open"
        BY <1>7, <2>4 DEF Failed
      <3>2. CASE breaker.state = "open"
        BY <1>3, <2>1, <2>3, <3>1, <3>2 DEF BreakerInv
      <3>3. CASE breaker.state # "open"
        BY <1>3, <2>1, <2>2, <2>3, <3>1, <3>3 DEF BreakerInv
      <3> QED BY <3>2, <3>3
    <2>5. CASE ~(breaker.failures + 1 >= Threshold)
      <3>1. breaker'.state = breaker.state
        BY <1>7, <2>5 DEF Failed
      <3> QED BY <1>3, <2>1, <2>3, <2>5, <3>1 DEF BreakerInv
    <2> QED BY <2>4, <2>5
  <1> QED BY <1>1, <1>4, <1>5, <1>6, <1>7 DEF BreakerStep

\* For any number of callers and any threshold, the breaker counts at most the
\* threshold and one failure for each other caller (circuit_breaker.py:30-33).
THEOREM FailuresStayBounded == Spec => []FailuresAreBounded
  <1>1. OpportunityInit => BreakerInv
    BY GovernedAssumption DEF OpportunityInit, Init, Mended, BreakerInv
  <1>2. GovernedTypeOK /\ BreakerInv => FailuresAreBounded
    <2> SUFFICES ASSUME GovernedTypeOK, BreakerInv PROVE FailuresAreBounded
      OBVIOUS
    <2>1. Cardinality(Running) \in Nat
      BY ThreadSets DEF Running
    <2>2. breaker.failures \in Nat /\ Threshold \in Nat \ {0} /\ N \in Nat \ {0}
      BY GovernedAssumption, NumberOfThreads DEF GovernedTypeOK
    <2> QED BY <2>1, <2>2 DEF BreakerInv, FailuresAreBounded, N
  <1> QED BY <1>1, <1>2, InitType, NextType, BreakerInvariant, PTL DEF Spec

\* Nothing runs again once the breaker is open and no operation is running
\* (execution.py:43): the only way back is a success that was under way.
THEOREM OpenBreakerStaysOpen == Spec => OpenBreakerIsFinal
  <1>1. GovernedTypeOK /\ [Next]_vars
          => [breaker.state = "open" /\ Running = {} => breaker'.state = "open" /\ Running' =
               {}]_vars
    BY NextBreaker DEF BreakerStep
  <1> QED BY <1>1, InitType, NextType, PTL DEF Spec, OpenBreakerIsFinal

-----------------------------------------------------------------------------
(* The budget *)

Paying == {t \in Threads : At(t, "pay")}

\* Threads on the way from their check of the budget to their charge for which
\* the budget has too little left by now.
Spoiled == {t \in Threads : /\ call[t].for \in Budgeted
                            /\ call[t].at \in {"breaker", "running", "charge"}
                            /\ ~Fits(Cost[call[t].for])}

KeepCost(S) == \A u \in S : call'[u].for = call[u].for

\* What a step does to the budget, to the threads that are about to pay and to
\* those whose charge will be refused.
BudgetStep ==
  \/ /\ UNCHANGED budgetVars
     /\ Paying' = Paying /\ KeepCost(Paying) /\ Spoiled' \subseteq Spoiled
  \/ \E t \in Threads \ Paying :
       /\ UNCHANGED budgetVars /\ Fits(Cost[call[t].for]) /\ call[t].for \in Budgeted
       /\ Paying' = Paying \union {t} /\ KeepCost(Paying') /\ Spoiled' \subseteq Spoiled
  \/ \E t \in Paying :
       /\ spent' = spent + Cost[call[t].for] /\ charged' = charged + 1 /\ refused' = refused
       /\ Paying' = Paying \ {t} /\ KeepCost(Paying') /\ t \notin Spoiled'
  \/ \E t \in Spoiled :
       /\ refused' = refused + 1 /\ UNCHANGED <<spent, charged>>
       /\ Paying' = Paying /\ KeepCost(Paying) /\ Spoiled' = Spoiled \ {t}

On == {"breaker", "running", "charge"}

\* A thread that is not about to pay and leaves, or goes to a step at which it
\* is no more spoiled than before, changes nothing for the others.
LEMMA ThreadLeaves ==
  ASSUME GovernedTypeOK, NEW t \in Threads, ~At(t, "pay"), UNCHANGED budgetVars,
         call' = [call EXCEPT ![t] = Idle]
  PROVE  BudgetStep
  <1>1. Paying' = Paying /\ KeepCost(Paying)
    BY DEF Paying, KeepCost, At, Idle, GovernedTypeOK
  <1>2. Spoiled' \subseteq Spoiled
    BY DEF Spoiled, Fits, Idle, budgetVars, GovernedTypeOK
  <1> QED BY <1>1, <1>2 DEF BudgetStep

LEMMA ThreadGoes ==
  ASSUME GovernedTypeOK, NEW t \in Threads, ~At(t, "pay"), UNCHANGED budgetVars,
         NEW step, call' = [call EXCEPT ![t].at = step], step # "pay",
         step \in On => \/ call[t].at \in On
                        \/ call[t].for \notin Budgeted
                        \/ Fits(Cost[call[t].for])
  PROVE  BudgetStep
  <1>1. Paying' = Paying /\ KeepCost(Paying)
    BY DEF Paying, KeepCost, At, GovernedTypeOK
  <1>2. Spoiled' \subseteq Spoiled
    BY DEF Spoiled, Fits, On, budgetVars, GovernedTypeOK
  <1> QED BY <1>1, <1>2 DEF BudgetStep

\* Every step is one of these: the check of consume lets a thread pay, or
\* refuses one that was spoiled.
LEMMA NextBudget == GovernedTypeOK /\ [Next]_vars => BudgetStep
  <1> SUFFICES ASSUME GovernedTypeOK, [Next]_vars PROVE BudgetStep
    OBVIOUS
  <1> USE GovernedAssumption, OpportunityAssumption DEF Steps
  <1>1. ASSUME NEW t \in Threads, NEW r \in Requests, Authorize(t, r), UNCHANGED revenueVars PROVE
       BudgetStep
    BY <1>1 DEF Authorize, Begin, Input, At, approvalVars, budgetVars, BudgetStep, Paying,
         Spoiled, KeepCost, Fits, GovernedTypeOK
  <1>2. ASSUME NEW t \in Threads, NEW r \in Requests, Run(t, r), UNCHANGED revenueVars PROVE
       BudgetStep
    BY <1>2 DEF Run, Begin, Input, At, approvalVars, budgetVars, BudgetStep, Paying, Spoiled,
         KeepCost, Fits, GovernedTypeOK
  <1>3. ASSUME NEW t \in Threads, NEW r \in Requests, Approve(t, r), UNCHANGED revenueVars PROVE
       BudgetStep
    BY <1>3 DEF Approve, Begin, Input, At, approvalVars, budgetVars, BudgetStep, Paying, Spoiled,
         KeepCost, Fits, GovernedTypeOK
  <1>4. ASSUME NEW r \in Requests, Submit(r), UNCHANGED revenueVars PROVE BudgetStep
    BY <1>4 DEF Submit, Input, At, approvalVars, budgetVars, BudgetStep, Paying, Spoiled,
         KeepCost, Fits, GovernedTypeOK
  <1>5. ASSUME NEW r \in Requests, Reject(r), UNCHANGED revenueVars PROVE BudgetStep
    BY <1>5 DEF Reject, Input, At, approvalVars, budgetVars, BudgetStep, Paying, Spoiled,
         KeepCost, Fits, GovernedTypeOK
  <1>6. ASSUME NEW t \in Threads, CheckBudget(t), UNCHANGED revenueVars PROVE BudgetStep
    <2>1. CASE Fits(Cost[call[t].for])
      BY <1>6, <2>1, ThreadGoes DEF CheckBudget, Go, At, budgetVars
    <2>2. CASE ~Fits(Cost[call[t].for])
      BY <1>6, <2>2, ThreadLeaves DEF CheckBudget, Leave, At, budgetVars
    <2> QED BY <2>1, <2>2
  <1>7. ASSUME NEW t \in Threads, Charge(t), UNCHANGED revenueVars PROVE BudgetStep
    <2>1. t \notin Paying /\ call[t].for \in Budgeted
      BY <1>7 DEF Charge, At, Paying, GovernedTypeOK
    <2>2. CASE Fits(Cost[call[t].for])
      <3>1. UNCHANGED budgetVars /\ call' = [call EXCEPT ![t].at = "pay"]
        BY <1>7, <2>2 DEF Charge, Go, budgetVars
      <3>2. Paying' = Paying \union {t} /\ KeepCost(Paying') /\ Spoiled' \subseteq Spoiled
        BY <3>1 DEF Paying, KeepCost, Spoiled, Fits, At, budgetVars, GovernedTypeOK
      <3> QED BY <2>1, <2>2, <3>1, <3>2 DEF BudgetStep
    <2>3. CASE ~Fits(Cost[call[t].for])
      <3>1. refused' = refused + 1 /\ UNCHANGED <<spent, charged>> /\ call' = [call EXCEPT ![t] =
           Idle]
        BY <1>7, <2>3 DEF Charge, Leave
      <3>2. t \in Spoiled
        BY <1>7, <2>1, <2>3 DEF Charge, At, Spoiled
      <3>3. Paying' = Paying /\ KeepCost(Paying) /\ Spoiled' = Spoiled \ {t}
        BY <1>7, <3>1 DEF Charge, Paying, KeepCost, Spoiled, Fits, At, Idle, GovernedTypeOK
      <3> QED BY <3>1, <3>2, <3>3 DEF BudgetStep
    <2> QED BY <2>2, <2>3
  <1>8. ASSUME NEW t \in Threads, Pay(t), UNCHANGED revenueVars PROVE BudgetStep
    <2>1. t \in Paying
      BY <1>8 DEF Pay, Paying
    <2>2. spent' = spent + Cost[call[t].for] /\ charged' = charged + 1 /\ refused' = refused
      BY <1>8 DEF Pay
    <2>3. Paying' = Paying \ {t} /\ KeepCost(Paying') /\ t \notin Spoiled'
      BY <1>8 DEF Pay, Leave, Idle, At, Paying, KeepCost, Spoiled, GovernedTypeOK
    <2> QED BY <2>1, <2>2, <2>3 DEF BudgetStep
  <1>9. ASSUME NEW t \in Threads, Enter(t), UNCHANGED revenueVars PROVE BudgetStep
    <2>1. CASE breaker.state # "open" /\ Covered(call[t].for)
      BY <1>9, <2>1, ThreadGoes DEF Enter, Go, At, On, budgetVars
    <2>2. CASE ~(breaker.state # "open" /\ Covered(call[t].for))
      BY <1>9, <2>2, ThreadLeaves DEF Enter, Leave, At, budgetVars
    <2> QED BY <2>1, <2>2
  <1>10. ASSUME NEW t \in Threads, Fail(t), UNCHANGED revenueVars PROVE BudgetStep
    BY <1>10, ThreadLeaves DEF Fail, Leave, At, budgetVars
  <1>11. ASSUME NEW t \in Threads, Succeed(t), UNCHANGED revenueVars PROVE BudgetStep
    <2>1. CASE call[t].for \in Budgeted
      BY <1>11, <2>1, ThreadGoes DEF Succeed, Go, At, On, budgetVars
    <2>2. CASE call[t].for \notin Budgeted
      BY <1>11, <2>2, ThreadLeaves DEF Succeed, Leave, At, budgetVars
    <2> QED BY <2>1, <2>2
  <1>12. ASSUME NEW t \in Threads, Decide(t), UNCHANGED revenueVars PROVE BudgetStep
    BY <1>12, ThreadLeaves DEF Decide, Leave, At, budgetVars
  <1>13. ASSUME NEW o \in Opportunities, NEW c \in Claims, NEW q \in Qualities, NEW relation,
       AddEvidence(o, c, relation, q) PROVE BudgetStep
    BY <1>13 DEF AddEvidence, Input, At, objectVars, budgetVars, BudgetStep, Paying, Spoiled,
         KeepCost, Fits, GovernedTypeOK
  <1>14. ASSUME NEW o \in Opportunities, Qualify(o) PROVE BudgetStep
    BY <1>14 DEF Qualify, At, governedVars, objectVars, budgetVars, BudgetStep, Paying, Spoiled,
         KeepCost, Fits, GovernedTypeOK
  <1>15. ASSUME NEW t \in Threads, NEW o \in Opportunities,
            NEW risk, NEW capital, NEW production, Execute(t, o, risk, capital, production) PROVE
                 BudgetStep
    BY <1>15 DEF Execute, Begin, Input, At, approvalVars, budgetVars, BudgetStep, Paying, Spoiled,
         KeepCost, Fits, GovernedTypeOK
  <1>16. ASSUME NEW t \in Threads, Admit(t) PROVE BudgetStep
    <2>1. call[t].at = "admit" /\ call[t].for \notin Budgeted
      BY <1>16 DEF Admit, At, GovernedTypeOK
    <2> QED BY <1>16, <2>1, ThreadGoes DEF Admit, Go, At, budgetVars
  <1>17. ASSUME NEW t \in Threads, Return(t) PROVE BudgetStep
    <2>1. CASE call' = [call EXCEPT ![t].at = "record"]
      BY <1>17, <2>1, ThreadGoes DEF Return, At, On, budgetVars
    <2>2. CASE call' = [call EXCEPT ![t] = Idle]
      BY <1>17, <2>2, ThreadLeaves DEF Return, At, budgetVars
    <2> QED BY <1>17, <2>1, <2>2 DEF Return, Go, Leave
  <1>18. ASSUME NEW t \in Threads, NEW s \in Sources, NEW e \in Earnings, Observe(t, s, e) PROVE
       BudgetStep
    BY <1>18 DEF Observe, Begin, Input, At, approvalVars, budgetVars, BudgetStep, Paying, Spoiled,
         KeepCost, Fits, GovernedTypeOK
  <1>19. ASSUME NEW t \in Threads, Record(t) PROVE BudgetStep
    BY <1>19, ThreadGoes DEF Record, Go, At, On, budgetVars
  <1>20. ASSUME NEW t \in Threads, Total(t) PROVE BudgetStep
    BY <1>20, ThreadGoes DEF Total, Go, At, On, budgetVars
  <1>21. ASSUME NEW t \in Threads, Store(t) PROVE BudgetStep
    BY <1>21, ThreadLeaves DEF Store, Leave, At, budgetVars
  <1>22. ASSUME NEW s \in Sources, Degrade(s) PROVE BudgetStep
    BY <1>22 DEF Degrade, Input, At, objectVars, budgetVars, BudgetStep, Paying, Spoiled,
         KeepCost, Fits, GovernedTypeOK
  <1>23. ASSUME NEW s \in Sources, Look(s) PROVE BudgetStep
    BY <1>23 DEF Look, Input, At, objectVars, budgetVars, BudgetStep, Paying, Spoiled, KeepCost,
         Fits, GovernedTypeOK
  <1>24. ASSUME NEW s \in Sources, Replace(s) PROVE BudgetStep
    BY <1>24 DEF Replace, Input, At, objectVars, budgetVars, BudgetStep, Paying, Spoiled,
         KeepCost, Fits, GovernedTypeOK
  <1>25. CASE UNCHANGED vars
    BY <1>25 DEF vars, governedVars, budgetVars, BudgetStep, Paying, Spoiled, KeepCost, Fits, At
  <1> QED
    BY <1>1, <1>2, <1>3, <1>4, <1>5, <1>6, <1>7, <1>8, <1>9, <1>10,
       <1>11, <1>12, <1>13, <1>14, <1>15, <1>16, <1>17, <1>18, <1>19,
       <1>20, <1>21, <1>22, <1>23, <1>24, <1>25
       DEF Next, Governed

Others == (N - 1) * MaxCost

\* The invariant: of the threads that are about to pay one may be named whose
\* cost leaves room for the others'.
SpendInv ==
  /\ spent <= Limit + Others
  /\ Paying # {} => \E t \in Paying :
       spent + Cost[call[t].for] + (Cardinality(Paying) - 1) * MaxCost <= Limit + Others

\* A number of threads, one fewer: one cost less.
LEMMA OneLess ==
  ASSUME NEW k \in Nat
  PROVE  /\ (k + 1) * MaxCost = k * MaxCost + MaxCost
         /\ k * MaxCost \in Nat
         /\ k <= N - 1 => k * MaxCost <= Others
  <1>1. MaxCost \in Nat /\ N \in Nat \ {0}
    BY GovernedAssumption, NumberOfThreads
  <1>2. ASSUME k <= N - 1 PROVE k * MaxCost <= (N - 1) * MaxCost
    <2>1. PICK j \in Nat : N - 1 = k + j
      <3>1. N - 1 - k \in Nat /\ N - 1 = k + (N - 1 - k)
        BY <1>1, <1>2
      <3> QED BY <3>1
    <2>2. (k + j) * MaxCost = k * MaxCost + j * MaxCost /\ j * MaxCost \in Nat /\ k * MaxCost \in
         Nat
      BY <1>1
    <2> QED BY <2>1, <2>2
  <1> QED BY <1>1, <1>2 DEF Others

LEMMA SpendInvariant == GovernedTypeOK /\ SpendInv /\ [Next]_vars => SpendInv'
  <1> SUFFICES ASSUME GovernedTypeOK, SpendInv, [Next]_vars PROVE SpendInv'
    OBVIOUS
  <1>1. BudgetStep
    BY NextBudget
  <1>2. Paying \in SUBSET Threads /\ Paying' \in SUBSET Threads
    BY DEF Paying
  <1>3. /\ spent \in Nat /\ Limit \in Nat /\ MaxCost \in Nat
        /\ \A t \in Paying : Cost[call[t].for] \in 0..MaxCost
    BY GovernedAssumption DEF GovernedTypeOK, Paying, At
  <1>4. N \in Nat \ {0} /\ N - 1 \in Nat /\ Others \in Nat
    <2>1. N \in Nat \ {0} /\ N - 1 \in Nat
      BY NumberOfThreads
    <2> QED BY <2>1, OneLess DEF Others
  <1>5. ASSUME spent' = spent, Paying' = Paying, KeepCost(Paying) PROVE SpendInv'
    BY <1>5 DEF SpendInv, KeepCost
  <1>6. ASSUME NEW t \in Threads \ Paying, spent' = spent, Fits(Cost[call[t].for]), call[t].for
       \in Budgeted,
               Paying' = Paying \union {t}, KeepCost(Paying')
        PROVE  SpendInv'
    <2>1. Cardinality(Paying') - 1 = Cardinality(Paying) /\ Cardinality(Paying) \in Nat
      BY <1>2, <1>6, ThreadSets
    <2>2. Cardinality(Paying) <= N - 1
      BY <1>2, <1>6, ThreadSets
    <2>3. Cost[call[t].for] \in 0..MaxCost
      BY <1>6, GovernedAssumption
    <2>4. spent + Cost[call[t].for] <= Limit
      BY <1>3, <1>6, <2>3 DEF Fits
    <2>5. Cardinality(Paying) * MaxCost \in Nat /\ Cardinality(Paying) * MaxCost <= Others
      BY <2>1, <2>2, OneLess
    <2>6. spent' + Cost[call'[t].for] + (Cardinality(Paying') - 1) * MaxCost <= Limit + Others
      <3>1. call'[t].for = call[t].for
        BY <1>6 DEF KeepCost
      <3>2. (Cardinality(Paying') - 1) * MaxCost = Cardinality(Paying) * MaxCost
        BY <2>1
      <3>3. spent + Cost[call[t].for] + Cardinality(Paying) * MaxCost <= Limit + Others
        BY <1>3, <1>4, <2>3, <2>4, <2>5
      <3> QED BY <1>6, <3>1, <3>2, <3>3
    <2>7. Others' = Others
      BY DEF Others, N
    <2>8. t \in Paying' /\ Cost' = Cost
      BY <1>6
    <2> QED BY <1>6, <2>6, <2>7, <2>8 DEF SpendInv
  <1>7. ASSUME NEW t \in Paying, spent' = spent + Cost[call[t].for], Paying' = Paying \ {t},
       KeepCost(Paying')
        PROVE  SpendInv'
    <2> DEFINE k == Cardinality(Paying')
    <2>1. k \in Nat /\ Cardinality(Paying) = k + 1
      <3>1. Cardinality(Paying') = Cardinality(Paying) - 1 /\ Cardinality(Paying) \in Nat /\ k \in
           Nat
        BY <1>2, <1>7, ThreadSets
      <3> QED BY <3>1
    <2>2. PICK u \in Paying : spent + Cost[call[u].for] + k * MaxCost <= Limit + Others
      <3>1. PICK u \in Paying : spent + Cost[call[u].for] + (Cardinality(Paying) - 1) * MaxCost <=
           Limit + Others
        BY DEF SpendInv
      <3>2. Cardinality(Paying) - 1 = k
        BY <2>1
      <3> HIDE DEF k
      <3> QED BY <3>1, <3>2
    <2>3. Cost[call[t].for] \in 0..MaxCost /\ Cost[call[u].for] \in 0..MaxCost
      BY <1>3
    <2>4. k * MaxCost \in Nat
      BY <2>1, OneLess
    <2>5. CASE Paying' = {}
      <3>1. u = t
        BY <1>7, <2>5
      <3>2. spent' <= Limit + Others
        <4> HIDE DEF k
        <4> QED BY <1>3, <1>4, <1>7, <2>2, <2>3, <2>4, <3>1
      <3> QED BY <2>5, <3>2 DEF SpendInv, Others, N
    <2>6. CASE Paying' # {}
      <3>1. k # 0
        BY <1>2, <2>6, ThreadSets, FS_EmptySet
      <3>2. PICK j \in Nat : k = j + 1
        <4> HIDE DEF k
        <4>1. k - 1 \in Nat /\ k = (k - 1) + 1
          BY <2>1, <3>1
        <4> QED BY <4>1
      <3>3. k * MaxCost = j * MaxCost + MaxCost /\ j * MaxCost \in Nat
        BY <3>2, OneLess
      <3>4. spent' <= Limit + Others
        <4> HIDE DEF k
        <4>1. CASE u = t
          BY <1>3, <1>4, <1>7, <2>2, <2>3, <2>4, <4>1
        <4>2. CASE u # t
          BY <1>3, <1>4, <1>7, <2>2, <2>3, <2>4, <3>3
        <4> QED BY <4>1, <4>2
      <3>5. \E v \in Paying' : spent' + Cost[call[v].for] + j * MaxCost <= Limit + Others
        <4>1. CASE u = t
          <5>1. PICK v : v \in Paying'
            BY <2>6
          <5>2. Cost[call[v].for] \in 0..MaxCost
            BY <1>3, <1>7, <5>1
          <5> HIDE DEF k
          <5>3. spent' + Cost[call[v].for] + j * MaxCost <= Limit + Others
            BY <1>3, <1>4, <1>7, <2>2, <2>3, <3>3, <4>1, <5>2
          <5> QED BY <5>1, <5>3
        <4>2. CASE u # t
          <5> HIDE DEF k
          <5>1. spent' + Cost[call[u].for] + j * MaxCost <= Limit + Others
            BY <1>3, <1>4, <1>7, <2>2, <2>3, <3>3
          <5>2. u \in Paying'
            BY <1>7, <4>2
          <5> QED BY <5>1, <5>2
        <4> QED BY <4>1, <4>2
      <3>6. j = Cardinality(Paying') - 1
        BY <3>2
      <3>7. \A v \in Paying' : call'[v].for = call[v].for
        BY <1>7 DEF KeepCost
      <3>8. \E v \in Paying' : spent' + Cost[call'[v].for] + (Cardinality(Paying') - 1) * MaxCost
           <= Limit + Others
        <4> HIDE DEF k
        <4> QED BY <3>5, <3>6, <3>7
      <3> QED BY <3>4, <3>8 DEF SpendInv, Others, N
    <2> QED BY <2>5, <2>6
  <1> QED
    BY <1>1, <1>5, <1>6, <1>7 DEF BudgetStep, budgetVars

\* For any costs and callers, spending exceeds the limit by at most one
\* operation for each other caller (budget.py:43-47).
THEOREM OverspendStaysBounded == Spec => []OverspendIsBounded
  <1>1. OpportunityInit => SpendInv
    <2> SUFFICES ASSUME OpportunityInit PROVE SpendInv
      OBVIOUS
    <2>1. N - 1 \in Nat /\ Limit \in Nat
      BY NumberOfThreads, GovernedAssumption
    <2>2. Others \in Nat
      BY <2>1, OneLess DEF Others
    <2>3. spent = 0 /\ Paying = {}
      BY DEF OpportunityInit, Init, Idle, Paying, At
    <2> QED BY <2>1, <2>2, <2>3 DEF SpendInv
  <1>2. SpendInv => OverspendIsBounded
    BY DEF SpendInv, OverspendIsBounded, Others, N
  <1> QED BY <1>1, <1>2, InitType, NextType, SpendInvariant, PTL DEF Spec

\* The invariant: what was refused and what will be is within the charges made.
RefusalInv == refused + Cardinality(Spoiled) <= (N - 1) * charged

LEMMA RefusalInvariant == GovernedTypeOK /\ RefusalInv /\ [Next]_vars => RefusalInv'
  <1> SUFFICES ASSUME GovernedTypeOK, RefusalInv, [Next]_vars PROVE RefusalInv'
    OBVIOUS
  <1>1. BudgetStep
    BY NextBudget
  <1>2. Spoiled \in SUBSET Threads /\ Spoiled' \in SUBSET Threads
    BY DEF Spoiled
  <1>3. refused \in Nat /\ charged \in Nat /\ N - 1 \in Nat
    BY NumberOfThreads DEF GovernedTypeOK
  <1>4. Cardinality(Spoiled) \in Nat /\ Cardinality(Spoiled') \in Nat /\ N' = N
    BY <1>2, ThreadSets DEF N
  <1>5. ASSUME refused' = refused, charged' = charged, Spoiled' \subseteq Spoiled PROVE
       RefusalInv'
    <2>1. Cardinality(Spoiled') <= Cardinality(Spoiled)
      BY <1>2, <1>5, ThreadSets
    <2>2. (N - 1) * charged \in Nat
      BY <1>3
    <2> QED BY <1>3, <1>4, <1>5, <2>1, <2>2 DEF RefusalInv
  <1>6. ASSUME NEW t \in Threads, charged' = charged + 1, refused' = refused, t \notin Spoiled'
       PROVE RefusalInv'
    <2>1. Cardinality(Spoiled') <= N - 1
      BY <1>2, <1>6, ThreadSets
    <2>2. (N - 1) * (charged + 1) = (N - 1) * charged + (N - 1) /\ (N - 1) * charged \in Nat
      BY <1>3
    <2>3. refused <= (N - 1) * charged
      BY <1>3, <1>4, <2>2 DEF RefusalInv
    <2>4. refused + Cardinality(Spoiled') <= (N - 1) * charged + (N - 1)
      BY <1>3, <1>4, <2>1, <2>2, <2>3
    <2>5. refused + Cardinality(Spoiled') <= (N - 1) * (charged + 1)
      BY <2>2, <2>4
    <2> QED BY <1>4, <1>6, <2>5 DEF RefusalInv
  <1>7. ASSUME NEW t \in Spoiled, refused' = refused + 1, charged' = charged, Spoiled' = Spoiled \
       {t}
        PROVE  RefusalInv'
    <2>1. Cardinality(Spoiled') = Cardinality(Spoiled) - 1
      BY <1>2, <1>7, ThreadSets
    <2>2. (N - 1) * charged \in Nat
      BY <1>3
    <2> QED BY <1>3, <1>4, <1>7, <2>1, <2>2 DEF RefusalInv
  <1> QED
    BY <1>1, <1>5, <1>6, <1>7 DEF BudgetStep, budgetVars, Paying

\* For any costs and callers, charges are refused after the operation only as
\* often as charges of others explain it (control_plane.py:53-63).
THEOREM RefusalsWereContended == Spec => []RefusedChargesWereContended
  <1>1. OpportunityInit => RefusalInv
    <2> SUFFICES ASSUME OpportunityInit PROVE RefusalInv
      OBVIOUS
    <2>1. Spoiled = {} /\ refused = 0 /\ charged = 0
      BY DEF OpportunityInit, Init, Idle, Spoiled
    <2>2. N - 1 \in Nat
      BY NumberOfThreads
    <2> QED BY <2>1, <2>2, FS_EmptySet DEF RefusalInv
  <1>2. GovernedTypeOK /\ RefusalInv => RefusedChargesWereContended
    <2> SUFFICES ASSUME GovernedTypeOK, RefusalInv PROVE RefusedChargesWereContended
      OBVIOUS
    <2>1. Cardinality(Spoiled) \in Nat
      BY ThreadSets DEF Spoiled
    <2>2. refused \in Nat /\ charged \in Nat /\ N - 1 \in Nat
      BY NumberOfThreads DEF GovernedTypeOK
    <2>3. (N - 1) * charged \in Nat
      BY <2>2
    <2>4. refused <= (N - 1) * charged
      BY <2>1, <2>2, <2>3 DEF RefusalInv
    <2> QED BY <2>4 DEF RefusedChargesWereContended, N
  <1> QED BY <1>1, <1>2, InitType, NextType, RefusalInvariant, PTL DEF Spec

-----------------------------------------------------------------------------
(* Approvals *)

Deciding(r) == {t \in Threads : At(t, "approve") /\ call[t].for = r}

\* What a step does to the approvals of a request.
ApprovalStep(r) ==
  \/ /\ (r \in pending') <=> (r \in pending)
     /\ submitted'[r] = submitted[r] /\ approved'[r] = approved[r] /\ Deciding(r)' \subseteq Deciding(r)
  \/ /\ r \in pending /\ r \in pending'
     /\ submitted'[r] = submitted[r] /\ approved'[r] = approved[r]
  \/ r \in pending' /\ submitted'[r] = submitted[r] + 1 /\ approved'[r] = approved[r]
  \/ r \in pending /\ r \notin pending' /\ submitted'[r] = submitted[r] /\ approved'[r] =
       approved[r]
  \/ \E t \in Deciding(r) :
       /\ r \notin pending' /\ submitted'[r] = submitted[r] /\ approved'[r] = approved[r] + 1
       /\ Deciding(r)' = Deciding(r) \ {t}

\* Every step is one of these: an approval is given by a thread that found the
\* request pending.
LEMMA NextApproval == GovernedTypeOK /\ [Next]_vars => \A r \in Requests : ApprovalStep(r)
  <1> SUFFICES ASSUME GovernedTypeOK, [Next]_vars PROVE \A r \in Requests : ApprovalStep(r)
    OBVIOUS
  <1> TAKE r \in Requests
  <1> USE GovernedAssumption, OpportunityAssumption DEF Steps
  <1>1. ASSUME NEW t \in Threads, NEW s \in Requests, Authorize(t, s), UNCHANGED revenueVars PROVE
       ApprovalStep(r)
    BY <1>1 DEF Authorize, Begin, Input, At, budgetVars, approvalVars, ApprovalStep, Deciding,
         GovernedTypeOK
  <1>2. ASSUME NEW t \in Threads, NEW s \in Requests, Run(t, s), UNCHANGED revenueVars PROVE
       ApprovalStep(r)
    BY <1>2 DEF Run, Begin, Input, At, budgetVars, approvalVars, ApprovalStep, Deciding,
         GovernedTypeOK
  <1>3. ASSUME NEW t \in Threads, NEW s \in Requests, Approve(t, s), UNCHANGED revenueVars PROVE
       ApprovalStep(r)
    <2>1. UNCHANGED approvalVars /\ s \in pending
      BY <1>3 DEF Approve
    <2>2. CASE s = r
      BY <2>1, <2>2 DEF ApprovalStep, approvalVars
    <2>3. CASE s # r
      <3>1. Deciding(r)' \subseteq Deciding(r)
        BY <1>3, <2>3 DEF Approve, Begin, At, Deciding, GovernedTypeOK
      <3> QED BY <2>1, <3>1 DEF ApprovalStep, approvalVars
    <2> QED BY <2>2, <2>3
  <1>4. ASSUME NEW s \in Requests, Submit(s), UNCHANGED revenueVars PROVE ApprovalStep(r)
    <2>1. Deciding(r)' = Deciding(r) /\ approved' = approved
      BY <1>4 DEF Submit, Deciding, At
    <2>2. CASE s = r
      <3>1. r \in pending' /\ submitted'[r] = submitted[r] + 1
        BY <1>4, <2>2 DEF Submit, GovernedTypeOK
      <3> QED BY <2>1, <3>1 DEF ApprovalStep
    <2>3. CASE s # r
      <3>1. r \in pending' <=> r \in pending
        BY <1>4, <2>3 DEF Submit
      <3>2. submitted'[r] = submitted[r]
        BY <1>4, <2>3 DEF Submit, GovernedTypeOK
      <3> QED BY <2>1, <3>1, <3>2 DEF ApprovalStep
    <2> QED BY <2>2, <2>3
  <1>5. ASSUME NEW s \in Requests, Reject(s), UNCHANGED revenueVars PROVE ApprovalStep(r)
    <2>1. Deciding(r)' = Deciding(r) /\ approved' = approved /\ submitted' = submitted
      BY <1>5 DEF Reject, Deciding, At
    <2>2. CASE s = r
      <3>1. r \in pending /\ r \notin pending'
        BY <1>5, <2>2 DEF Reject
      <3> QED BY <2>1, <3>1 DEF ApprovalStep
    <2>3. CASE s # r
      <3>1. r \in pending' <=> r \in pending
        BY <1>5, <2>3 DEF Reject
      <3> QED BY <2>1, <3>1 DEF ApprovalStep
    <2> QED BY <2>2, <2>3
  <1>6. ASSUME NEW t \in Threads, CheckBudget(t), UNCHANGED revenueVars PROVE ApprovalStep(r)
    BY <1>6 DEF CheckBudget, Go, Leave, Idle, At, budgetVars, approvalVars, ApprovalStep,
         Deciding, GovernedTypeOK
  <1>7. ASSUME NEW t \in Threads, Charge(t), UNCHANGED revenueVars PROVE ApprovalStep(r)
    BY <1>7 DEF Charge, Go, Leave, Idle, At, budgetVars, approvalVars, ApprovalStep, Deciding,
         GovernedTypeOK
  <1>8. ASSUME NEW t \in Threads, Pay(t), UNCHANGED revenueVars PROVE ApprovalStep(r)
    BY <1>8 DEF Pay, Leave, Idle, At, budgetVars, approvalVars, ApprovalStep, Deciding,
         GovernedTypeOK
  <1>9. ASSUME NEW t \in Threads, Enter(t), UNCHANGED revenueVars PROVE ApprovalStep(r)
    BY <1>9 DEF Enter, Go, Leave, Idle, At, budgetVars, approvalVars, ApprovalStep, Deciding,
         GovernedTypeOK
  <1>10. ASSUME NEW t \in Threads, Fail(t), UNCHANGED revenueVars PROVE ApprovalStep(r)
    BY <1>10 DEF Fail, Failed, Leave, Idle, At, budgetVars, approvalVars, ApprovalStep, Deciding,
         GovernedTypeOK
  <1>11. ASSUME NEW t \in Threads, Succeed(t), UNCHANGED revenueVars PROVE ApprovalStep(r)
    BY <1>11 DEF Succeed, Mended, Go, Leave, Idle, At, budgetVars, approvalVars, ApprovalStep,
         Deciding, GovernedTypeOK
  <1>12. ASSUME NEW t \in Threads, Decide(t), UNCHANGED revenueVars PROVE ApprovalStep(r)
    <2>1. Deciding(r)' = Deciding(r) \ {t} /\ submitted' = submitted /\ call[t].for \in Requests
      BY <1>12 DEF Decide, Leave, Idle, At, Deciding, GovernedTypeOK
    <2>2. \/ UNCHANGED <<pending, approved>>
          \/ /\ pending' = pending \ {call[t].for}
             /\ approved' = [approved EXCEPT ![call[t].for] = approved[call[t].for] + 1]
      BY <1>12 DEF Decide
    <2>3. CASE UNCHANGED <<pending, approved>>
      BY <2>1, <2>3 DEF ApprovalStep
    <2>4. CASE /\ pending' = pending \ {call[t].for}
               /\ approved' = [approved EXCEPT ![call[t].for] = approved[call[t].for] + 1]
      <3>1. CASE call[t].for = r
        <4>1. t \in Deciding(r)
          BY <1>12, <3>1 DEF Decide, Deciding
        <4> QED BY <2>1, <2>4, <3>1, <4>1 DEF ApprovalStep, GovernedTypeOK
      <3>2. CASE call[t].for # r
        <4>1. r \in pending' <=> r \in pending
          BY <2>4, <3>2
        <4>2. approved'[r] = approved[r]
          BY <2>1, <2>4, <3>2 DEF GovernedTypeOK
        <4> QED BY <2>1, <4>1, <4>2 DEF ApprovalStep
      <3> QED BY <3>1, <3>2
    <2> QED BY <2>2, <2>3, <2>4
  <1>13. ASSUME NEW o \in Opportunities, NEW c \in Claims, NEW q \in Qualities, NEW relation,
       AddEvidence(o, c, relation, q) PROVE ApprovalStep(r)
    BY <1>13 DEF AddEvidence, Input, At, objectVars, approvalVars, ApprovalStep, Deciding,
         GovernedTypeOK
  <1>14. ASSUME NEW o \in Opportunities, Qualify(o) PROVE ApprovalStep(r)
    BY <1>14 DEF Qualify, At, governedVars, objectVars, approvalVars, ApprovalStep, Deciding,
         GovernedTypeOK
  <1>15. ASSUME NEW t \in Threads, NEW o \in Opportunities,
            NEW risk, NEW capital, NEW production, Execute(t, o, risk, capital, production) PROVE
                 ApprovalStep(r)
    BY <1>15 DEF Execute, Begin, Input, At, budgetVars, approvalVars, ApprovalStep, Deciding,
         GovernedTypeOK
  <1>16. ASSUME NEW t \in Threads, Admit(t) PROVE ApprovalStep(r)
    BY <1>16 DEF Admit, Go, At, budgetVars, approvalVars, ApprovalStep, Deciding, GovernedTypeOK
  <1>17. ASSUME NEW t \in Threads, Return(t) PROVE ApprovalStep(r)
    BY <1>17 DEF Return, Mended, Go, Leave, Idle, At, budgetVars, approvalVars, ApprovalStep,
         Deciding, GovernedTypeOK
  <1>18. ASSUME NEW t \in Threads, NEW n \in Sources, NEW e \in Earnings, Observe(t, n, e) PROVE
       ApprovalStep(r)
    BY <1>18 DEF Observe, Begin, Input, At, budgetVars, approvalVars, ApprovalStep, Deciding,
         GovernedTypeOK
  <1>19. ASSUME NEW t \in Threads, Record(t) PROVE ApprovalStep(r)
    BY <1>19 DEF Record, Go, At, budgetVars, approvalVars, ApprovalStep, Deciding, GovernedTypeOK
  <1>20. ASSUME NEW t \in Threads, Total(t) PROVE ApprovalStep(r)
    BY <1>20 DEF Total, Go, At, budgetVars, approvalVars, ApprovalStep, Deciding, GovernedTypeOK
  <1>21. ASSUME NEW t \in Threads, Store(t) PROVE ApprovalStep(r)
    BY <1>21 DEF Store, Leave, Idle, At, budgetVars, approvalVars, ApprovalStep, Deciding,
         GovernedTypeOK
  <1>22. ASSUME NEW n \in Sources, Degrade(n) PROVE ApprovalStep(r)
    BY <1>22 DEF Degrade, Input, At, objectVars, approvalVars, ApprovalStep, Deciding,
         GovernedTypeOK
  <1>23. ASSUME NEW n \in Sources, Look(n) PROVE ApprovalStep(r)
    BY <1>23 DEF Look, Input, At, objectVars, approvalVars, ApprovalStep, Deciding, GovernedTypeOK
  <1>24. ASSUME NEW n \in Sources, Replace(n) PROVE ApprovalStep(r)
    BY <1>24 DEF Replace, Input, At, objectVars, approvalVars, ApprovalStep, Deciding,
         GovernedTypeOK
  <1>25. CASE UNCHANGED vars
    BY <1>25 DEF vars, governedVars, approvalVars, ApprovalStep, Deciding, At
  <1> QED
    BY <1>1, <1>2, <1>3, <1>4, <1>5, <1>6, <1>7, <1>8, <1>9, <1>10,
       <1>11, <1>12, <1>13, <1>14, <1>15, <1>16, <1>17, <1>18, <1>19,
       <1>20, <1>21, <1>22, <1>23, <1>24, <1>25
       DEF Next, Governed

\* The invariant: a pending request may still be approved once by each thread,
\* one that is not by those that found it.
ApprovalInv ==
  \A r \in Requests :
    /\ r \in pending => approved[r] + N <= N * submitted[r]
    /\ r \notin pending => approved[r] + Cardinality(Deciding(r)) <= N * submitted[r]

LEMMA ApprovalInvariant == GovernedTypeOK /\ ApprovalInv /\ [Next]_vars => ApprovalInv'
  <1> SUFFICES ASSUME GovernedTypeOK, ApprovalInv, [Next]_vars, NEW r \in Requests
               PROVE  /\ r \in pending' => approved'[r] + N <= N * submitted'[r]
                      /\ r \notin pending' => approved'[r] + Cardinality(Deciding(r)') <= N * submitted'[r]
    BY DEF ApprovalInv, N
  <1>1. ApprovalStep(r)
    BY NextApproval
  <1>2. Deciding(r) \in SUBSET Threads /\ Deciding(r)' \in SUBSET Threads
    BY DEF Deciding
  <1>3. /\ approved[r] \in Nat /\ submitted[r] \in Nat /\ N \in Nat \ {0}
        /\ Cardinality(Deciding(r)) \in Nat /\ Cardinality(Deciding(r)) <= N
        /\ Cardinality(Deciding(r)') \in Nat /\ Cardinality(Deciding(r)') <= N
    BY <1>2, NumberOfThreads, ThreadSets DEF GovernedTypeOK
  <1>4. N * submitted[r] \in Nat /\ N * (submitted[r] + 1) = N * submitted[r] + N
    BY <1>3
  <1>5. /\ r \in pending => approved[r] + N <= N * submitted[r]
        /\ r \notin pending => approved[r] + Cardinality(Deciding(r)) <= N * submitted[r]
    BY DEF ApprovalInv
  <1>6. CASE /\ (r \in pending') <=> (r \in pending)
             /\ submitted'[r] = submitted[r] /\ approved'[r] = approved[r] /\ Deciding(r)' \subseteq Deciding(r)
    <2>1. Cardinality(Deciding(r)') <= Cardinality(Deciding(r))
      BY <1>2, <1>6, ThreadSets
    <2> QED BY <1>3, <1>4, <1>5, <1>6, <2>1
  <1>7. CASE /\ r \in pending /\ r \in pending'
             /\ submitted'[r] = submitted[r] /\ approved'[r] = approved[r]
    BY <1>5, <1>7
  <1>8. CASE r \in pending' /\ submitted'[r] = submitted[r] + 1 /\ approved'[r] = approved[r]
    BY <1>3, <1>4, <1>5, <1>8
  <1>9. CASE r \in pending /\ r \notin pending' /\ submitted'[r] = submitted[r] /\ approved'[r] =
       approved[r]
    BY <1>3, <1>4, <1>5, <1>9
  <1>10. ASSUME NEW t \in Deciding(r), r \notin pending', submitted'[r] = submitted[r],
                approved'[r] = approved[r] + 1, Deciding(r)' = Deciding(r) \ {t}
         PROVE  approved'[r] + Cardinality(Deciding(r)') <= N * submitted'[r]
    <2>1. Cardinality(Deciding(r)') = Cardinality(Deciding(r)) - 1
      BY <1>2, <1>10, ThreadSets
    <2> QED BY <1>3, <1>4, <1>5, <1>10, <2>1
  <1> QED BY <1>1, <1>6, <1>7, <1>8, <1>9, <1>10 DEF ApprovalStep

\* A request is approved at most once for each caller and each submission,
\* however the calls of approve, reject and submit overlap
\* (approval_workflow.py:53-72).
THEOREM ApprovalsStayBounded == Spec => []ApprovalsAreBounded
  <1>1. OpportunityInit => ApprovalInv
    <2> SUFFICES ASSUME OpportunityInit, NEW r \in Requests
                 PROVE  r \notin pending /\ approved[r] + Cardinality(Deciding(r)) <= N *
                      submitted[r]
      BY DEF ApprovalInv
    <2>1. Deciding(r) = {} /\ approved[r] = 0 /\ submitted[r] = 0 /\ r \notin pending
      BY DEF OpportunityInit, Init, Idle, Deciding, At
    <2>2. N * 0 = 0
      BY NumberOfThreads
    <2> QED BY <2>1, <2>2, FS_EmptySet
  <1>2. GovernedTypeOK /\ ApprovalInv => ApprovalsAreBounded
    <2> SUFFICES ASSUME GovernedTypeOK, ApprovalInv, NEW r \in Requests
                 PROVE  approved[r] <= N * submitted[r]
      BY DEF ApprovalsAreBounded, N
    <2>1. approved[r] \in Nat /\ submitted[r] \in Nat /\ N \in Nat /\ Cardinality(Deciding(r)) \in
         Nat
      BY NumberOfThreads, ThreadSets DEF GovernedTypeOK, Deciding
    <2>2. N * submitted[r] \in Nat
      BY <2>1
    <2> QED BY <2>1, <2>2 DEF ApprovalInv
  <1> QED BY <1>1, <1>2, InitType, NextType, ApprovalInvariant, PTL DEF Spec

-----------------------------------------------------------------------------
(* Revenue *)

\* A source shows no more than the ledger has, and is active only with some.
Earned(source, total) ==
  /\ source.observed <= total
  /\ source.stage = "ACTIVE" => source.observed > 0

\* What a thread on its way through an execution or an observation holds: the
\* source it admitted or was given, an amount to record, a total to store.
SaleInv(t) ==
  /\ call[t].at \in {"breaker", "running"} /\ call[t].for \in Opportunities
       => sale[t].id \in Known
  /\ At(t, "record") => sale[t].id \in Known /\ sale[t].amount > 0
  /\ At(t, "total") => sale[t].id \in Known /\ ledger[sale[t].id] > 0
  /\ At(t, "store") => /\ sale[t].id \in Known
                       /\ sale[t].total > 0
                       /\ sale[t].total <= ledger[sale[t].id]

\* An object that the owner holds may be old, but the ledger only grows.
RevenueInv ==
  /\ RevenueTypeOK
  /\ \A s \in Sources : Earned(sources[s], ledger[s])
  /\ held.id # 0 => Earned(held.source, ledger[held.id])
  /\ \A t \in Threads : SaleInv(t)
  /\ \A o \in Opportunities, c \in Claims :
       evidence[o][c].supporting = 0 => evidence[o][c].for = 0

Sale == [id: {0} \union Sources, amount: Nat, source: Source, total: Nat]

LEMMA SourceFacts ==
  /\ NoSource \in Source /\ NoSale \in Sale
  /\ 0 \notin Sources
  BY OpportunityAssumption DEF NoSource, NoSale, Source, Sale, Sources

\* A step of one thread, which leaves the evidence and the owner's object: its
\* own sale has to be accounted for, and the sources.
LEMMA ThreadStep ==
  ASSUME RevenueInv, NEW t \in Threads,
         UNCHANGED <<evidence, qualified, held>>,
         sources' \in [Sources -> Source], ledger' \in [Sources -> Nat],
         sale' \in [Threads -> Sale],
         Known \subseteq Known', \A s \in Sources : ledger[s] <= ledger'[s],
         \A s \in Sources : Earned(sources'[s], ledger'[s]),
         \A u \in Threads \ {t} : call'[u] = call[u] /\ sale'[u] = sale[u],
         SaleInv(t)'
  PROVE  RevenueInv'
  <1>1. ledger \in [Sources -> Nat] /\ held \in [id: {0} \union Sources, source: Source]
        /\ \A u \in Threads : sale[u] \in Sale
    BY DEF RevenueInv, RevenueTypeOK, Sale
  <1>2. ASSUME NEW u \in Threads PROVE SaleInv(u)'
    <2>1. CASE u = t
      BY <2>1
    <2>2. CASE u # t
      <3>1. call'[u] = call[u] /\ sale'[u] = sale[u] /\ SaleInv(u)
        BY <2>2 DEF RevenueInv
      <3>2. sale[u].id \in Known => /\ sale[u].id \in Known'
                                    /\ ledger[sale[u].id] <= ledger'[sale[u].id]
                                    /\ ledger[sale[u].id] \in Nat /\ ledger'[sale[u].id] \in Nat
        BY <1>1 DEF Known
      <3>3. sale[u].total \in Nat
        BY <1>1 DEF Sale
      <3> QED BY <3>1, <3>2, <3>3 DEF SaleInv, At
    <2> QED BY <2>1, <2>2
  <1>3. RevenueTypeOK'
    BY <1>1, <1>2 DEF RevenueInv, RevenueTypeOK, SaleInv, At, Sale
  <1>4. held'.id # 0 => Earned(held'.source, ledger'[held'.id])
    <2>1. ASSUME held.id # 0 PROVE Earned(held.source, ledger'[held.id])
      <3>1. /\ Earned(held.source, ledger[held.id])
            /\ ledger[held.id] <= ledger'[held.id]
            /\ ledger[held.id] \in Nat /\ ledger'[held.id] \in Nat
            /\ held.source.observed \in Nat
        BY <1>1, <2>1 DEF RevenueInv, Source
      <3> QED BY <3>1 DEF Earned
    <2> QED BY <2>1
  <1> QED BY <1>2, <1>3, <1>4 DEF RevenueInv

\* A step of the owner or of a caller that takes a qualification.
LEMMA OwnerStep ==
  ASSUME RevenueInv, UNCHANGED <<call, sale, ledger>>,
         sources' \in [Sources -> Source],
         Known \subseteq Known',
         \A s \in Sources : Earned(sources'[s], ledger[s]),
         UNCHANGED held \/ (/\ held' \in [id: {0} \union Sources, source: Source]
                            /\ Earned(held'.source, ledger[held'.id])),
         evidence' \in [Opportunities -> [Claims ->
                         [for: Nat, against: Nat, supporting: Nat, count: Nat]]],
         qualified' \subseteq Opportunities,
         \A o \in Opportunities, c \in Claims :
           evidence'[o][c].supporting = 0 => evidence'[o][c].for = 0
  PROVE  RevenueInv'
  <1>1. ASSUME NEW u \in Threads PROVE SaleInv(u)'
    <2>1. SaleInv(u)
      BY DEF RevenueInv
    <2> QED BY <2>1 DEF SaleInv, At
  <1>2. RevenueTypeOK'
    BY <1>1 DEF RevenueInv, RevenueTypeOK, SaleInv, At
  <1> QED BY <1>1, <1>2 DEF RevenueInv

\* Where the governed requests take a thread: never among the steps of a sale,
\* and on with an opportunity only from the breaker to its operation.
GovernedCall(t) ==
  /\ \A u \in Threads \ {t} : call'[u] = call[u]
  /\ ~(call'[t].at \in {"record", "total", "store"})
  /\ call'[t].at \in {"breaker", "running"} /\ call'[t].for \in Opportunities
       => call'[t].for = call[t].for /\ At(t, "breaker")

LEMMA GovernedCalls ==
  ASSUME GovernedTypeOK, Governed
  PROVE  UNCHANGED call \/ \E t \in Threads : GovernedCall(t)
  <1>1. \A t \in Threads : /\ call[t] = [at |-> call[t].at, for |-> call[t].for]
                           /\ DOMAIN call = Threads
    BY DEF GovernedTypeOK
  <1>2. ASSUME NEW t \in Threads, NEW r \in Requests, NEW step, Begin(t, step, r),
               step \in {"budget", "breaker", "approve"}
        PROVE  GovernedCall(t)
    BY <1>1, <1>2, OpportunityAssumption DEF Begin, GovernedCall
  <1>3. ASSUME NEW t \in Threads, Leave(t) PROVE GovernedCall(t)
    BY <1>1, <1>3 DEF Leave, Idle, GovernedCall
  <1>0. ASSUME NEW t \in Threads, NEW step, Go(t, step)
        PROVE  /\ call'[t].at = step /\ call'[t].for = call[t].for
               /\ \A u \in Threads \ {t} : call'[u] = call[u]
    BY <1>0 DEF Go, GovernedTypeOK
  <1>4. ASSUME NEW t \in Threads, NEW step, Go(t, step), step \in {"charge", "pay"}
        PROVE  GovernedCall(t)
    BY <1>0, <1>4 DEF GovernedCall
  <1>5. ASSUME NEW t \in Threads, NEW step, Go(t, step),
               \/ At(t, "budget") /\ step = "breaker"
               \/ At(t, "breaker") /\ step = "running"
        PROVE  GovernedCall(t)
    <2>1. /\ call'[t].at = step /\ call'[t].for = call[t].for
          /\ \A u \in Threads \ {t} : call'[u] = call[u]
      BY <1>0, <1>5
    <2>2. At(t, "budget") => call[t].for \notin Opportunities
      BY GovernedAssumption, OpportunityAssumption DEF GovernedTypeOK, At
    <2> QED BY <1>5, <2>1, <2>2 DEF GovernedCall
  <1>6. ASSUME NEW t \in Threads, NEW r \in Requests, Authorize(t, r) \/ Run(t, r) \/ Approve(t, r)
        PROVE  GovernedCall(t)
    <2>1. Begin(t, "budget", r) \/ Begin(t, "breaker", r) \/ Begin(t, "approve", r)
      BY <1>6 DEF Authorize, Run, Approve
    <2> QED BY <1>2, <2>1
  <1>7. ASSUME NEW t \in Threads,
               \/ CheckBudget(t) \/ Charge(t) \/ Pay(t) \/ Enter(t)
               \/ Fail(t) \/ Succeed(t) \/ Decide(t)
        PROVE  GovernedCall(t)
    <2>1. \/ Leave(t) \/ Go(t, "charge") \/ Go(t, "pay")
          \/ At(t, "budget") /\ Go(t, "breaker")
          \/ At(t, "breaker") /\ Go(t, "running")
      BY <1>7 DEF CheckBudget, Charge, Pay, Enter, Fail, Succeed, Decide
    <2> QED BY <1>3, <1>4, <1>5, <2>1
  <1>8. ASSUME NEW r \in Requests, Submit(r) \/ Reject(r) PROVE UNCHANGED call
    BY <1>8 DEF Submit, Reject
  <1> QED BY <1>6, <1>7, <1>8 DEF Governed

LEMMA NextRevenue == GovernedTypeOK /\ RevenueInv /\ [Next]_vars => RevenueInv'
  <1> SUFFICES ASSUME GovernedTypeOK, RevenueInv, [Next]_vars PROVE RevenueInv'
    OBVIOUS
  <1>1. /\ sources \in [Sources -> Source] /\ ledger \in [Sources -> Nat]
        /\ sale \in [Threads -> Sale]
        /\ held \in [id: {0} \union Sources, source: Source]
        /\ qualified \subseteq Opportunities
        /\ evidence \in [Opportunities -> [Claims ->
             [for: Nat, against: Nat, supporting: Nat, count: Nat]]]
        /\ \A o \in Opportunities, c \in Claims :
             evidence[o][c].supporting = 0 => evidence[o][c].for = 0
        /\ \A s \in Sources : Earned(sources[s], ledger[s])
        /\ \A s \in Sources : ledger[s] <= ledger[s]
        /\ \A u \in Threads : SaleInv(u)
        /\ call \in [Threads -> [at: Steps, for: Requests \union Opportunities \union {None}]]
    BY DEF RevenueInv, RevenueTypeOK, Sale, GovernedTypeOK
  <1>2. ASSUME NEW t \in Threads, NEW step, Go(t, step)
        PROVE  /\ call'[t].at = step /\ call'[t].for = call[t].for
               /\ \A u \in Threads \ {t} : call'[u] = call[u]
    BY <1>1, <1>2 DEF Go
  <1>3. ASSUME NEW t \in Threads, Leave(t)
        PROVE  /\ call'[t].at = "idle"
               /\ \A u \in Threads \ {t} : call'[u] = call[u]
    BY <1>1, <1>3 DEF Leave, Idle
  <1>4. ASSUME Governed PROVE RevenueInv'
    <2>1. UNCHANGED revenueVars
      BY <1>4 DEF Governed
    <2>2. CASE UNCHANGED call
      BY <1>1, <2>1, <2>2, OwnerStep DEF revenueVars, Known
    <2>3. ASSUME NEW t \in Threads, GovernedCall(t) PROVE RevenueInv'
      <3>1. SaleInv(t)'
        BY <1>1, <2>1, <2>3 DEF SaleInv, GovernedCall, At, Known, revenueVars
      <3>2. Known \subseteq Known'
        BY <2>1 DEF revenueVars, Known
      <3> QED BY <1>1, <2>1, <2>3, <3>1, <3>2, ThreadStep DEF revenueVars, GovernedCall
    <2> QED BY <1>4, <2>2, <2>3, GovernedCalls
  <1>5. ASSUME NEW o \in Opportunities, NEW c \in Claims, NEW q \in Qualities,
               NEW relation \in {"supports", "contradicts", "context"},
               AddEvidence(o, c, relation, q)
        PROVE  RevenueInv'
    <2>1. UNCHANGED <<call, sale, ledger, sources, held, qualified>>
      BY <1>5 DEF AddEvidence, objectVars
    <2> DEFINE more == [for |-> evidence[o][c].for + IF relation = "supports" THEN q ELSE 0,
                        against |-> evidence[o][c].against
                                    + IF relation = "contradicts" THEN q ELSE 0,
                        supporting |-> evidence[o][c].supporting
                                       + IF relation = "supports" THEN 1 ELSE 0,
                        count |-> evidence[o][c].count + 1]
    <2>2. q \in Nat
      BY OpportunityAssumption
    <2>3. /\ more \in [for: Nat, against: Nat, supporting: Nat, count: Nat]
          /\ more.supporting = 0 => more.for = 0
      BY <1>1, <2>2
    <2>4. evidence' = [evidence EXCEPT ![o][c] = more]
      BY <1>1, <1>5 DEF AddEvidence
    <2> HIDE DEF more
    <2>5. evidence' \in [Opportunities -> [Claims ->
            [for: Nat, against: Nat, supporting: Nat, count: Nat]]]
      BY <1>1, <2>3, <2>4
    <2>6. \A p \in Opportunities, d \in Claims :
            evidence'[p][d].supporting = 0 => evidence'[p][d].for = 0
      BY <1>1, <2>3, <2>4
    <2> QED BY <1>1, <2>1, <2>5, <2>6, OwnerStep DEF Known
  <1>6. ASSUME NEW o \in Opportunities, Qualify(o) PROVE RevenueInv'
    <2>1. UNCHANGED <<call, sale, ledger, sources, held, evidence>>
      BY <1>6 DEF Qualify, governedVars
    <2>2. qualified' \subseteq Opportunities
      BY <1>1, <1>6 DEF Qualify
    <2> QED BY <1>1, <2>1, <2>2, OwnerStep DEF Known
  <1>7. ASSUME NEW t \in Threads, NEW o \in Opportunities, NEW risk, NEW capital, NEW production,
               Execute(t, o, risk, capital, production)
        PROVE  RevenueInv'
    <2>1. UNCHANGED revenueVars /\ Begin(t, "admit", o)
      BY <1>7 DEF Execute
    <2>2. call'[t].at = "admit" /\ \A u \in Threads \ {t} : call'[u] = call[u]
      BY <1>1, <2>1 DEF Begin
    <2>3. SaleInv(t)'
      BY <2>2 DEF SaleInv, At
    <2> QED BY <1>1, <2>1, <2>2, <2>3, ThreadStep DEF revenueVars, Known
  <1>8. ASSUME NEW t \in Threads, Admit(t) PROVE RevenueInv'
    <2>1. PICK s \in Sources :
            /\ Known = 1..(s - 1)
            /\ sources' = [sources EXCEPT ![s] = [NoSource EXCEPT !.stage = "VALIDATING"]]
            /\ sale' = [sale EXCEPT ![t] = [NoSale EXCEPT !.id = s]]
      BY <1>8 DEF Admit
    <2>2. UNCHANGED <<evidence, qualified, ledger, held>> /\ Go(t, "breaker")
      BY <1>8 DEF Admit
    <2>3. /\ [NoSource EXCEPT !.stage = "VALIDATING"] \in Source
          /\ [NoSource EXCEPT !.stage = "VALIDATING"] # NoSource
          /\ [NoSource EXCEPT !.stage = "VALIDATING"].observed = 0
          /\ [NoSource EXCEPT !.stage = "VALIDATING"].stage = "VALIDATING"
      BY DEF NoSource, Source
    <2>4. [NoSale EXCEPT !.id = s] \in Sale /\ [NoSale EXCEPT !.id = s].id = s
      BY SourceFacts DEF NoSale, Sale
    <2>5. sources' \in [Sources -> Source] /\ sale' \in [Threads -> Sale]
      BY <1>1, <2>1, <2>3, <2>4
    <2>6. Known \subseteq Known' /\ s \in Known'
      BY <1>1, <2>1, <2>3 DEF Known
    <2>7. \A i \in Sources : Earned(sources'[i], ledger'[i])
      BY <1>1, <2>1, <2>2, <2>3 DEF Earned
    <2>8. /\ sale'[t].id = s
          /\ \A u \in Threads \ {t} : sale'[u] = sale[u]
          /\ call'[t].at = "breaker"
          /\ \A u \in Threads \ {t} : call'[u] = call[u]
      BY <1>1, <1>2, <2>1, <2>2, <2>4
    <2>9. SaleInv(t)'
      BY <2>6, <2>8 DEF SaleInv, At
    <2> QED BY <1>1, <2>2, <2>5, <2>6, <2>7, <2>8, <2>9, ThreadStep
  <1>9. ASSUME NEW t \in Threads, Return(t) PROVE RevenueInv'
    <2>1. PICK e \in Earnings :
            IF e > 0 THEN Go(t, "record") /\ sale' = [sale EXCEPT ![t].amount = e]
            ELSE Leave(t) /\ UNCHANGED sale
      BY <1>9 DEF Return
    <2>2. UNCHANGED <<evidence, qualified, sources, ledger, held>>
      BY <1>9 DEF Return
    <2>3. sale[t].id \in Known /\ e \in Nat
      BY <1>1, <1>9, OpportunityAssumption DEF Return, SaleInv, At
    <2>4. Known' = Known
      BY <2>2 DEF Known
    <2>5. CASE e > 0
      <3>1. /\ sale' \in [Threads -> Sale]
            /\ sale'[t].id = sale[t].id /\ sale'[t].amount = e
            /\ \A u \in Threads \ {t} : sale'[u] = sale[u]
        <4> DEFINE mine == [sale[t] EXCEPT !.amount = e]
        <4>1. mine \in Sale /\ mine.id = sale[t].id /\ mine.amount = e
          BY <1>1, <2>3 DEF Sale
        <4>2. sale' = [sale EXCEPT ![t] = mine]
          BY <1>1, <2>1, <2>5
        <4> HIDE DEF mine
        <4> QED BY <1>1, <4>1, <4>2
      <3>2. call'[t].at = "record" /\ \A u \in Threads \ {t} : call'[u] = call[u]
        BY <1>2, <2>1, <2>5
      <3>3. SaleInv(t)'
        BY <2>3, <2>4, <2>5, <3>1, <3>2 DEF SaleInv, At
      <3> QED BY <1>1, <2>2, <2>4, <3>1, <3>2, <3>3, ThreadStep
    <2>6. CASE ~(e > 0)
      <3>1. UNCHANGED sale /\ call'[t].at = "idle" /\ \A u \in Threads \ {t} : call'[u] = call[u]
        BY <1>3, <2>1, <2>6
      <3>2. SaleInv(t)'
        BY <3>1 DEF SaleInv, At
      <3> QED BY <1>1, <2>2, <2>4, <3>1, <3>2, ThreadStep
    <2> QED BY <2>5, <2>6
  <1>10. ASSUME NEW t \in Threads, NEW s \in Sources, NEW e \in Earnings, Observe(t, s, e)
         PROVE  RevenueInv'
    <2>1. /\ s \in Known /\ e > 0 /\ e \in Nat
          /\ sale' = [sale EXCEPT ![t] = [NoSale EXCEPT !.id = s, !.amount = e]]
          /\ Begin(t, "record", None)
          /\ UNCHANGED <<evidence, qualified, sources, ledger, held>>
      BY <1>10, OpportunityAssumption DEF Observe
    <2> DEFINE mine == [NoSale EXCEPT !.id = s, !.amount = e]
    <2>2. mine \in Sale /\ mine.id = s /\ mine.amount = e
      BY <2>1, SourceFacts DEF NoSale, Sale
    <2>3. sale' = [sale EXCEPT ![t] = mine]
      BY <2>1
    <2> HIDE DEF mine
    <2>4. /\ sale' \in [Threads -> Sale] /\ sale'[t] = mine
          /\ \A u \in Threads \ {t} : sale'[u] = sale[u]
      BY <1>1, <2>2, <2>3
    <2>5. call'[t].at = "record" /\ \A u \in Threads \ {t} : call'[u] = call[u]
      BY <1>1, <2>1 DEF Begin
    <2>6. Known' = Known
      BY <2>1 DEF Known
    <2>7. SaleInv(t)'
      BY <2>1, <2>2, <2>4, <2>5, <2>6 DEF SaleInv, At
    <2> QED BY <1>1, <2>1, <2>4, <2>5, <2>6, <2>7, ThreadStep
  <1>11. ASSUME NEW t \in Threads, Record(t) PROVE RevenueInv'
    <2>1. PICK s \in Sources : s = sale[t].id
      BY <1>1, <1>11 DEF Record, SaleInv, Known
    <2>2. s \in Known /\ sale[t].amount > 0 /\ sale[t].amount \in Nat
      BY <1>1, <1>11, <2>1 DEF Record, SaleInv, Sale
    <2>3. /\ ledger' = [ledger EXCEPT ![s] = @ + sale[t].amount]
          /\ sale' = [sale EXCEPT ![t].source = sources[s]]
          /\ UNCHANGED <<evidence, qualified, sources, held>>
          /\ Go(t, "total")
      BY <1>11, <2>1 DEF Record
    <2>4. ledger' \in [Sources -> Nat] /\ ledger'[s] > 0
          /\ \A i \in Sources : ledger[i] <= ledger'[i]
      BY <1>1, <2>2, <2>3
    <2>5. /\ sale' \in [Threads -> Sale] /\ sale'[t].id = s
          /\ \A u \in Threads \ {t} : sale'[u] = sale[u]
      BY <1>1, <2>1, <2>3 DEF Sale
    <2>6. \A i \in Sources : Earned(sources'[i], ledger'[i])
      <3> SUFFICES ASSUME NEW i \in Sources PROVE Earned(sources[i], ledger'[i])
        BY <2>3
      <3>1. /\ Earned(sources[i], ledger[i]) /\ ledger[i] <= ledger'[i]
            /\ sources[i].observed \in Nat /\ ledger[i] \in Nat /\ ledger'[i] \in Nat
        BY <1>1, <2>4 DEF Source
      <3> QED BY <3>1 DEF Earned
    <2>7. call'[t].at = "total" /\ \A u \in Threads \ {t} : call'[u] = call[u]
      BY <1>2, <2>3
    <2>8. Known' = Known
      BY <2>3 DEF Known
    <2>9. SaleInv(t)'
      BY <2>2, <2>4, <2>5, <2>7, <2>8 DEF SaleInv, At
    <2> QED BY <1>1, <2>3, <2>4, <2>5, <2>6, <2>7, <2>8, <2>9, ThreadStep
  <1>12. ASSUME NEW t \in Threads, Total(t) PROVE RevenueInv'
    <2>1. PICK s \in Sources : s = sale[t].id
      BY <1>1, <1>12 DEF Total, SaleInv, Known
    <2>2. s \in Known /\ ledger[s] > 0 /\ ledger[s] \in Nat
      BY <1>1, <1>12, <2>1 DEF Total, SaleInv
    <2>3. /\ sale' = [sale EXCEPT ![t].total = ledger[s]]
          /\ UNCHANGED <<evidence, qualified, sources, ledger, held>>
          /\ Go(t, "store")
      BY <1>12, <2>1 DEF Total
    <2>4. /\ sale' \in [Threads -> Sale] /\ sale'[t].id = s /\ sale'[t].total = ledger[s]
          /\ \A u \in Threads \ {t} : sale'[u] = sale[u]
      BY <1>1, <2>1, <2>2, <2>3 DEF Sale
    <2>5. call'[t].at = "store" /\ \A u \in Threads \ {t} : call'[u] = call[u]
      BY <1>2, <2>3
    <2>6. Known' = Known
      BY <2>3 DEF Known
    <2>7. SaleInv(t)'
      BY <2>2, <2>3, <2>4, <2>5, <2>6 DEF SaleInv, At
    <2> QED BY <1>1, <2>3, <2>4, <2>5, <2>6, <2>7, ThreadStep
  <1>13. ASSUME NEW t \in Threads, Store(t) PROVE RevenueInv'
    <2>1. PICK s \in Sources : s = sale[t].id
      BY <1>1, <1>13 DEF Store, SaleInv, Known
    <2>2. /\ sale[t].total > 0 /\ sale[t].total <= ledger[s] /\ sale[t].total \in Nat
          /\ sale[t].source \in Source
      BY <1>1, <1>13, <2>1 DEF Store, SaleInv, Sale
    <2> DEFINE new == [sale[t].source EXCEPT !.stage = "ACTIVE", !.observed = sale[t].total]
    <2>3. new \in Source /\ new.stage = "ACTIVE" /\ new.observed = sale[t].total
      BY <2>2 DEF Source
    <2>4. /\ sources' = [sources EXCEPT ![s] = new]
          /\ sale' = [sale EXCEPT ![t] = NoSale]
          /\ UNCHANGED <<evidence, qualified, ledger, held>>
          /\ Leave(t)
      BY <1>13, <2>1 DEF Store
    <2> HIDE DEF new
    <2>5. sources' \in [Sources -> Source]
      BY <1>1, <2>3, <2>4
    <2>6. Known \subseteq Known'
      BY <1>1, <2>3, <2>4 DEF Known, NoSource
    <2>7. /\ sale' \in [Threads -> Sale]
          /\ \A u \in Threads \ {t} : sale'[u] = sale[u]
      BY <1>1, <2>4, SourceFacts
    <2>8. Earned(new, ledger[s])
      BY <2>2, <2>3 DEF Earned
    <2>9. \A i \in Sources : Earned(sources'[i], ledger'[i])
      BY <1>1, <2>4, <2>8
    <2>10. call'[t].at = "idle" /\ \A u \in Threads \ {t} : call'[u] = call[u]
      BY <1>3, <2>4
    <2>11. SaleInv(t)'
      BY <2>10 DEF SaleInv, At
    <2> QED BY <1>1, <2>4, <2>5, <2>6, <2>7, <2>9, <2>10, <2>11, ThreadStep
  <1>14. ASSUME NEW s \in Sources, Degrade(s) PROVE RevenueInv'
    <2> DEFINE new == [sources[s] EXCEPT !.stage = "DEGRADED"]
    <2>1. /\ new \in Source /\ new # NoSource
          /\ new.observed = sources[s].observed /\ new.stage = "DEGRADED"
      BY <1>1 DEF Source, NoSource
    <2>2. /\ sources' = [sources EXCEPT ![s] = new]
          /\ UNCHANGED <<call, sale, ledger, evidence, qualified, held>>
      BY <1>1, <1>14 DEF Degrade, objectVars
    <2> HIDE DEF new
    <2>3. sources' \in [Sources -> Source] /\ Known \subseteq Known'
      BY <1>1, <2>1, <2>2 DEF Known
    <2>4. \A i \in Sources : Earned(sources'[i], ledger[i])
      BY <1>1, <2>1, <2>2 DEF Earned
    <2> QED BY <1>1, <2>2, <2>3, <2>4, OwnerStep
  <1>15. ASSUME NEW s \in Sources, Look(s) PROVE RevenueInv'
    <2>1. /\ held' = [id |-> s, source |-> sources[s]]
          /\ UNCHANGED <<call, sale, ledger, evidence, qualified, sources>>
      BY <1>15 DEF Look, objectVars
    <2>2. /\ held' \in [id: {0} \union Sources, source: Source]
          /\ Earned(held'.source, ledger[held'.id])
      BY <1>1, <2>1
    <2>3. Known \subseteq Known'
      BY <2>1 DEF Known
    <2> QED BY <1>1, <2>1, <2>2, <2>3, OwnerStep
  <1>16. ASSUME NEW s \in Sources, Replace(s) PROVE RevenueInv'
    <2>1. /\ held.id \in Known \ {s} /\ held.id \in Sources /\ held.id # 0
          /\ UNCHANGED <<call, sale, ledger, evidence, qualified, held>>
      BY <1>16, SourceFacts DEF Replace, objectVars, Known
    <2>2. PICK h \in Sources : h = held.id
      BY <2>1
    <2> DEFINE old == [sources[s] EXCEPT !.stage = "REPLACED"]
               new == [held.source EXCEPT !.replaces = s]
    <2>3. /\ old \in Source /\ old # NoSource
          /\ old.observed = sources[s].observed /\ old.stage = "REPLACED"
      BY <1>1 DEF Source, NoSource
    <2>4. /\ new \in Source /\ new # NoSource
          /\ new.observed = held.source.observed /\ new.stage = held.source.stage
      BY <1>1, SourceFacts DEF Source, NoSource
    <2>5. sources' = [sources EXCEPT ![s] = old, ![h] = new] /\ h # s
      BY <1>1, <1>16, <2>1, <2>2 DEF Replace
    <2> HIDE DEF old, new
    <2>6. sources' \in [Sources -> Source] /\ Known \subseteq Known'
      BY <1>1, <2>3, <2>4, <2>5 DEF Known
    <2>7. Earned(held.source, ledger[h])
      BY <2>1, <2>2 DEF RevenueInv
    <2>8. Earned(old, ledger[s]) /\ Earned(new, ledger[h])
      BY <1>1, <2>3, <2>4, <2>7 DEF Earned
    <2>9. /\ sources'[s] = old /\ sources'[h] = new
          /\ \A i \in Sources \ {s, h} : sources'[i] = sources[i]
      BY <1>1, <2>5
    <2>10. \A i \in Sources : Earned(sources'[i], ledger[i])
      BY <1>1, <2>8, <2>9
    <2> QED BY <1>1, <2>1, <2>6, <2>10, OwnerStep
  <1>17. ASSUME UNCHANGED vars PROVE RevenueInv'
    BY <1>1, <1>17, OwnerStep DEF vars, governedVars, revenueVars, Known
  <1> QED
    BY <1>4, <1>5, <1>6, <1>7, <1>8, <1>9, <1>10, <1>11, <1>12, <1>13, <1>14, <1>15, <1>16, <1>17
    DEF Next

LEMMA InitRevenue == OpportunityInit => RevenueInv
  <1> SUFFICES ASSUME OpportunityInit PROVE RevenueInv
    OBVIOUS
  <1>1. /\ evidence = [o \in Opportunities |-> [c \in Claims |-> NoEvidence]]
        /\ qualified = {}
        /\ sources = [s \in Sources |-> NoSource]
        /\ ledger = [s \in Sources |-> 0]
        /\ sale = [t \in Threads |-> NoSale]
        /\ held = NoObject
        /\ \A t \in Threads : call[t].at = "idle"
    BY DEF OpportunityInit, Init, Idle
  <1>2. RevenueTypeOK
    BY <1>1, SourceFacts DEF RevenueTypeOK, NoEvidence, NoObject, Sale
  <1>3. \A s \in Sources : Earned(sources[s], ledger[s])
    BY <1>1 DEF Earned, NoSource
  <1>4. \A t \in Threads : SaleInv(t)
    BY <1>1 DEF SaleInv, At
  <1> QED BY <1>1, <1>2, <1>3, <1>4 DEF RevenueInv, NoEvidence, NoObject

LEMMA RevenueInvariant == Spec => [](GovernedTypeOK /\ RevenueInv)
  BY InitType, NextType, InitRevenue, NextRevenue, PTL DEF Spec

\* The state has its shape.
THEOREM TypeCorrect == Spec => []TypeOK
  <1>1. GovernedTypeOK /\ RevenueInv => TypeOK
    BY DEF TypeOK, RevenueInv
  <1> QED BY <1>1, RevenueInvariant, PTL

\* No source shows revenue that the ledger does not have, or is active without
\* any, although a thread writes back the source it read before it recorded,
\* and the owner one it took earlier (opportunity_revenue_bridge.py).
THEOREM ActiveSourcesHaveRevenue == Spec => []ActiveHasRevenue
  <1>1. RevenueInv => ActiveHasRevenue
    BY DEF RevenueInv, Earned, ActiveHasRevenue
  <1> QED BY <1>1, RevenueInvariant, PTL

\* A claim becomes supported only by evidence that supports it with some
\* quality: contradicting and neutral pieces, and worthless ones, lower the mean
\* that verify_claim compares with 0.6 (evidence.py).
THEOREM SupportQualifies == Spec => OnlySupportQualifies
  <1>1. RevenueInv /\ [Next]_vars =>
          \A o \in Opportunities, c \in Claims :
            Supported(evidence[o][c])' /\ ~Supported(evidence[o][c])
              => evidence'[o][c].for > evidence[o][c].for
    <2> SUFFICES ASSUME RevenueInv, [Next]_vars, NEW o \in Opportunities, NEW c \in Claims,
                        Supported(evidence'[o][c]), ~Supported(evidence[o][c])
                 PROVE  evidence'[o][c].for > evidence[o][c].for
      OBVIOUS
    <2>1. /\ evidence \in [Opportunities -> [Claims ->
               [for: Nat, against: Nat, supporting: Nat, count: Nat]]]
          /\ evidence[o][c].supporting = 0 => evidence[o][c].for = 0
      BY DEF RevenueInv, RevenueTypeOK
    <2>2. evidence' # evidence
      OBVIOUS
    <2>3. PICK p \in Opportunities, d \in Claims, q \in Qualities,
               relation \in {"supports", "contradicts", "context"} : AddEvidence(p, d, relation, q)
      <3>1. ASSUME ~\E p \in Opportunities, d \in Claims, q \in Qualities :
                      \E relation \in {"supports", "contradicts", "context"} :
                        AddEvidence(p, d, relation, q)
            PROVE  UNCHANGED evidence
        BY <3>1 DEF Next, Governed, revenueVars, Qualify, Execute, Admit, Return, Record, Total,
                    Store, Observe, Degrade, Look, Replace, vars
      <3> QED BY <2>2, <3>1
    <2>4. q \in Nat
      BY OpportunityAssumption
    <2>5. p = o /\ d = c
      BY <2>1, <2>3 DEF AddEvidence
    <2>6. /\ evidence'[o][c].for = evidence[o][c].for + IF relation = "supports" THEN q ELSE 0
          /\ evidence'[o][c].against = evidence[o][c].against
                                       + IF relation = "contradicts" THEN q ELSE 0
          /\ evidence'[o][c].supporting = evidence[o][c].supporting
                                          + IF relation = "supports" THEN 1 ELSE 0
          /\ evidence'[o][c].count = evidence[o][c].count + 1
      BY <2>1, <2>3, <2>5 DEF AddEvidence
    <2>7. /\ evidence[o][c].for \in Nat /\ evidence[o][c].against \in Nat
          /\ evidence[o][c].supporting \in Nat /\ evidence[o][c].count \in Nat
      BY <2>1
    <2> QED BY <2>1, <2>4, <2>6, <2>7 DEF Supported
  <1> QED BY <1>1, RevenueInvariant, PTL DEF Spec, OnlySupportQualifies
=============================================================================
