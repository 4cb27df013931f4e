------------------------- MODULE GovernedExecution -------------------------
(***************************************************************************)
(* Governed actions: callers that ask the control plane to run an          *)
(* operation, and owners that decide requests (aurelix_core/               *)
(* control_plane.py, execution_authorizer.py, governor.py, policy.py,      *)
(* budget.py, circuit_breaker.py, execution.py, resource_scope.py,         *)
(* approvals.py, approval_workflow.py, models.py).                         *)
(*                                                                         *)
(* The governor, the budget, the execution runtime with its breaker and    *)
(* the approval workflow are shared objects; every caller is a thread.     *)
(* A check of the budget or of the breaker and the change it is made for   *)
(* are separate steps, with the operation between them.                    *)
(*                                                                         *)
(* Abstractions.  A request is its action, its actor's autonomy, its cost, *)
(* the amount in its payload and whether its resource is in the actor's    *)
(* scope.  The audit log is left out; of the approval decisions the count  *)
(* of positive ones is kept.                                               *)
(***************************************************************************)
EXTENDS Naturals, FiniteSets

CONSTANTS
  Threads,        \* bound: callers at the same time
  Requests,       \* DecisionRequests
  Action,         \* ActionClass of each request
  Autonomy,       \* rank of its actor's AutonomyLevel
  Amount,         \* the amount in its payload
  Cost,           \* estimated_cost, for a request that has a budget
  MaxCost,        \* no request costs more
  Budgeted,       \* requests made through ControlPlane, with a budget; the
                  \* others go through AuthorizedExecution
  OutOfScope,     \* requests whose permission does not cover their resource
  Limit,          \* Budget.limit
  Threshold,      \* CircuitBreaker.failure_threshold
  MaxInputs,      \* bound: what is asked of the objects from outside
  None            \* a call without a request

ASSUME GovernedAssumption ==
  /\ IsFiniteSet(Threads) /\ Threads # {}
  /\ None \notin Requests
  /\ MaxCost \in Nat /\ Cost \in [Requests -> 0..MaxCost]
  /\ Budgeted \subseteq Requests
  /\ Limit \in Nat
  /\ Threshold \in Nat \ {0}
  /\ MaxInputs \in Nat

VARIABLES
  breaker,   \* ExecutionRuntime.breaker
  spent,     \* Budget.spent
  pending,   \* ApprovalWorkflow._pending
  call,      \* where each thread is, and for what
  inputs,    \* what was asked from outside
  charged,   \* operations whose cost was added to spent
  refused,   \* operations that ran, and whose cost was then refused
  submitted, \* times each request was submitted for approval
  approved   \* APPROVED decisions of each request

budgetVars == <<spent, charged, refused>>
approvalVars == <<pending, submitted, approved>>

\* CircuitBreaker at first, and after record_success: a success closes a
\* breaker that others have opened.  (HALF_OPEN is a state nothing enters.)
Mended == [failures |-> 0, state |-> "closed"]

Idle == [at |-> "idle", for |-> None]

Init ==
  /\ breaker = Mended
  /\ spent = 0
  /\ pending = {}
  /\ call = [t \in Threads |-> Idle]
  /\ inputs = 0
  /\ charged = 0
  /\ refused = 0
  /\ submitted = [r \in Requests |-> 0]
  /\ approved = [r \in Requests |-> 0]

At(t, step) == call[t].at = step
Go(t, step) == call' = [call EXCEPT ![t].at = step]
Leave(t) == call' = [call EXCEPT ![t] = Idle]
Input == inputs < MaxInputs /\ inputs' = inputs + 1
Begin(t, step, r) ==
  /\ At(t, "idle")
  /\ Input
  /\ call' = [call EXCEPT ![t] = [at |-> step, for |-> r]]

-----------------------------------------------------------------------------
(* Policy *)

MinimumLevel ==
  [read |-> 0, research |-> 1, build |-> 2,
   deploy |-> 4, financial |-> 4, security |-> 4, governance |-> 4]

RequiresOwner(r) == MinimumLevel[Action[r]] >= 4

\* PolicyEngine.evaluate: never for a protected action, whoever asks and
\* whatever an owner decided.
Allowed(r) == ~RequiresOwner(r) /\ Autonomy[r] >= MinimumLevel[Action[r]]

\* ControlPlane.authorize and AuthorizedExecution.run: a request that the
\* policy does not allow is answered at once.
Authorize(t, r) ==
  /\ r \in Budgeted /\ Allowed(r)
  /\ Begin(t, "budget", r)
  /\ UNCHANGED <<breaker, budgetVars, approvalVars>>

Run(t, r) ==
  /\ r \notin Budgeted /\ Allowed(r)
  /\ Begin(t, "breaker", r)
  /\ UNCHANGED <<breaker, budgetVars, approvalVars>>

-----------------------------------------------------------------------------
(* Budget *)

\* Mutant of Fits: each operation is held against the whole limit.
FitsAlone(cost) == cost <= Limit

\* Budget.authorize
Fits(cost) == cost <= Limit - spent

CheckBudget(t) ==
  /\ At(t, "budget")
  /\ IF Fits(Cost[call[t].for]) THEN Go(t, "breaker") ELSE Leave(t)
  /\ UNCHANGED <<breaker, budgetVars, approvalVars, inputs>>

\* Budget.consume authorizes the amount once more; a refusal is raised to the
\* caller of an operation that has run.
Charge(t) ==
  /\ At(t, "charge")
  /\ \/ Fits(Cost[call[t].for]) /\ Go(t, "pay") /\ UNCHANGED refused
     \/ ~Fits(Cost[call[t].for]) /\ Leave(t) /\ refused' = refused + 1
  /\ UNCHANGED <<breaker, spent, charged, approvalVars, inputs>>

Pay(t) ==
  /\ At(t, "pay")
  /\ spent' = spent + Cost[call[t].for]
  /\ charged' = charged + 1
  /\ Leave(t)
  /\ UNCHANGED <<breaker, refused, approvalVars, inputs>>

-----------------------------------------------------------------------------
(* Execution runtime *)

\* authorize_resource
Covered(subject) == subject \notin OutOfScope

\* Mutant of Enter: the breaker is looked at, and not obeyed.
EnterRegardless(t) ==
  /\ At(t, "breaker")
  /\ IF Covered(call[t].for) THEN Go(t, "running") ELSE Leave(t)
  /\ UNCHANGED <<breaker, budgetVars, approvalVars, inputs>>

\* ExecutionRuntime.execute up to the operation: CircuitOpen, ExecutionDenied,
\* or the operation is on its way.
Enter(t) ==
  /\ At(t, "breaker")
  /\ IF breaker.state # "open" /\ Covered(call[t].for) THEN Go(t, "running") ELSE Leave(t)
  /\ UNCHANGED <<breaker, budgetVars, approvalVars, inputs>>

\* CircuitBreaker.record_failure
Failed(b) == [failures |-> b.failures + 1,
              state |-> IF b.failures + 1 >= Threshold THEN "open" ELSE b.state]

Fail(t) ==
  /\ At(t, "running")
  /\ breaker' = Failed(breaker)
  /\ Leave(t)
  /\ UNCHANGED <<budgetVars, approvalVars, inputs>>

\* The operation of a request has run: with a budget its cost is charged next.
Succeed(t) ==
  /\ At(t, "running")
  /\ call[t].for \in Requests
  /\ breaker' = Mended
  /\ IF call[t].for \in Budgeted THEN Go(t, "charge") ELSE Leave(t)
  /\ UNCHANGED <<budgetVars, approvalVars, inputs>>

-----------------------------------------------------------------------------
(* Approvals *)

Submit(r) ==
  /\ Input
  /\ pending' = pending \union {r}
  /\ submitted' = [submitted EXCEPT ![r] = @ + 1]
  /\ UNCHANGED <<breaker, budgetVars, call, approved>>

\* approve looks the request up under its lock, and lets the lock go.
Approve(t, r) ==
  /\ r \in pending
  /\ Begin(t, "approve", r)
  /\ UNCHANGED <<breaker, budgetVars, approvalVars>>

\* OwnerApproval.is_valid_for: not expired, and a financial amount within the
\* maximum the owner set, if one was set.
Valid(r, expired, maxAmount) ==
  /\ ~expired
  /\ Action[r] = "financial" /\ maxAmount # None => Amount[r] <= maxAmount

\* Mutant of Decide: the decision is audited and the request stays.
DecideOnly(t) ==
  /\ At(t, "approve")
  /\ approved' = [approved EXCEPT ![call[t].for] = @ + 1]
  /\ Leave(t)
  /\ UNCHANGED <<breaker, budgetVars, pending, submitted, inputs>>

\* The decision about the request it found, which is taken off the list,
\* whoever decided it meanwhile, only when the approval covers it.
Decide(t) ==
  /\ At(t, "approve")
  /\ \E expired \in BOOLEAN, maxAmount \in {0, Amount[call[t].for], None} :
       IF Valid(call[t].for, expired, maxAmount)
       THEN /\ pending' = pending \ {call[t].for}
            /\ approved' = [approved EXCEPT ![call[t].for] = @ + 1]
       ELSE UNCHANGED <<pending, approved>>
  /\ Leave(t)
  /\ UNCHANGED <<breaker, budgetVars, submitted, inputs>>

Reject(r) ==
  /\ r \in pending
  /\ Input
  /\ pending' = pending \ {r}
  /\ UNCHANGED <<breaker, budgetVars, call, submitted, approved>>
=============================================================================
