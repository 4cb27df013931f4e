------------------------- MODULE OpportunityExecution -----------------------
(***************************************************************************)
(* Opportunities that are executed for revenue, beside the governed        *)
(* requests of GovernedExecution and through the same execution runtime    *)
(* (aurelix_core/opportunity_execution_bridge.py,                          *)
(* opportunity_revenue_bridge.py, revenue.py, opportunities.py,            *)
(* economic_opportunity_validation.py, evidence.py).                       *)
(*                                                                         *)
(* An execution admits a revenue source, runs the operation and records    *)
(* what it earned: the source is read, the ledger gets a record, the       *)
(* ledger is totalled and the source is written back, without a lock.      *)
(* Meanwhile an owner degrades and replaces sources.                       *)
(*                                                                         *)
(* Abstractions.  Of a list of evidence the model keeps what verify_claim  *)
(* computes from it; of the ledger the total of each source.  An           *)
(* opportunity is an immutable object: its stage and risk are inputs of    *)
(* the call.                                                               *)
(***************************************************************************)
EXTENDS GovernedExecution

CONSTANTS
  Opportunities,
  Claims,         \* REQUIRED_CLAIMS
  Qualities,      \* bound: Evidence.quality, in tenths
  Earnings,       \* bound: revenue_eur in an operation's output
  MaxEvidence,    \* bound: pieces of evidence about each claim
  MaxSources,     \* bound: sources admitted
  MaxRevenue      \* bound: total of a source in the ledger

ASSUME OpportunityAssumption ==
  /\ Opportunities \cap Requests = {} /\ None \notin Opportunities
  /\ Qualities \subseteq 0..10
  /\ Earnings \subseteq Nat
  /\ MaxSources \in Nat

VARIABLES
  evidence,   \* evidence about each claim of each opportunity
  qualified,  \* opportunities whose qualification, as callers hold it, is QUALIFIED
  sources,    \* OpportunityRevenueBridge.sources
  ledger,     \* RevenueEngine: total_for_activity of each source
  sale,       \* what a thread in record_observation holds
  held        \* a RevenueSource object the owner holds

revenueVars == <<evidence, qualified, sources, ledger, sale, held>>
objectVars == <<breaker, spent, pending, call, charged, refused, submitted, approved>>
governedVars == <<breaker, spent, pending, call, inputs, charged, refused, submitted, approved>>
vars == <<governedVars, revenueVars>>

NoEvidence == [for |-> 0, against |-> 0, supporting |-> 0, count |-> 0]
NoSource == [stage |-> "none", observed |-> 0, replaces |-> 0]
NoSale == [id |-> 0, amount |-> 0, source |-> NoSource, total |-> 0]
NoObject == [id |-> 0, source |-> NoSource]
Sources == 1..MaxSources
Known == {s \in Sources : sources[s] # NoSource}

OpportunityInit ==
  /\ Init
  /\ evidence = [o \in Opportunities |-> [c \in Claims |-> NoEvidence]]
  /\ qualified = {}
  /\ sources = [s \in Sources |-> NoSource]
  /\ ledger = [s \in Sources |-> 0]
  /\ sale = [t \in Threads |-> NoSale]
  /\ held = NoObject

-----------------------------------------------------------------------------
(* Evidence *)

\* make_evidence: one more piece on a claim's list.
AddEvidence(o, c, relation, quality) ==
  /\ evidence[o][c].count < MaxEvidence
  /\ Input
  /\ evidence' = [evidence EXCEPT ![o][c] =
       [for |-> @.for + IF relation = "supports" THEN quality ELSE 0,
        against |-> @.against + IF relation = "contradicts" THEN quality ELSE 0,
        supporting |-> @.supporting + IF relation = "supports" THEN 1 ELSE 0,
        count |-> @.count + 1]]
  /\ UNCHANGED <<objectVars, qualified, sources, ledger, sale, held>>

\* Mutant of Supported: what speaks against a claim counts as evidence for it.
SupportedByAll(e) == e.supporting > 0 /\ e.for + e.against >= 6 * e.count

\* verify_claim: the confidence, (for - against) / count cut to [0, 1], is 0.6
\* or more.  (A claim is CONFLICTED only below 0.5.)
Supported(e) == e.supporting > 0 /\ e.for >= e.against + 6 * e.count

\* qualify_opportunity
Qualifies(o) == \A c \in Claims : Supported(evidence[o][c])

\* A caller takes a qualification, and keeps it while evidence is added.
Qualify(o) ==
  /\ qualified' = IF Qualifies(o) THEN qualified \union {o} ELSE qualified \ {o}
  /\ UNCHANGED <<governedVars, evidence, sources, ledger, sale, held>>

-----------------------------------------------------------------------------
(* Execution *)

\* Governor.route
Route(risk, capital, production) ==
  CASE risk >= 8 -> "BLOCKED"
    [] risk < 8 /\ (capital \/ production \/ risk >= 5) -> "OWNER_REQUIRED"
    [] OTHER -> "POLICY_ALLOWED"

\* OpportunityExecutionBridge.execute, for an approved opportunity that the
\* caller holds a qualification of; other calls end before they change
\* anything, and so does one whose permission does not cover it.
Execute(t, o, risk, capital, production) ==
  /\ o \in qualified
  /\ Route(risk, capital, production) = "POLICY_ALLOWED"
  /\ Covered(o)
  /\ Begin(t, "admit", o)
  /\ UNCHANGED <<breaker, budgetVars, approvalVars, revenueVars>>

\* OpportunityRevenueBridge.admit: a new source, which stays when the runtime
\* then refuses the operation or the operation fails.
Admit(t) ==
  /\ At(t, "admit")
  /\ \E s \in Sources :
       /\ Known = 1..(s - 1)
       /\ sources' = [sources EXCEPT ![s] = [NoSource EXCEPT !.stage = "VALIDATING"]]
       /\ sale' = [sale EXCEPT ![t] = [NoSale EXCEPT !.id = s]]
  /\ Go(t, "breaker")
  /\ UNCHANGED <<breaker, inputs, budgetVars, approvalVars, evidence, qualified, ledger, held>>

\* The operation has run; only a positive revenue is recorded.
Return(t) ==
  /\ At(t, "running")
  /\ call[t].for \in Opportunities
  /\ breaker' = Mended
  /\ \E e \in Earnings :
       IF e > 0 THEN Go(t, "record") /\ sale' = [sale EXCEPT ![t].amount = e]
       ELSE Leave(t) /\ UNCHANGED sale
  /\ UNCHANGED <<inputs, budgetVars, approvalVars, evidence, qualified, sources, ledger, held>>

\* record_observation of a source that is known already.
Observe(t, s, e) ==
  /\ s \in Known
  /\ e > 0
  /\ Begin(t, "record", None)
  /\ sale' = [sale EXCEPT ![t] = [NoSale EXCEPT !.id = s, !.amount = e]]
  /\ UNCHANGED <<breaker, budgetVars, approvalVars, evidence, qualified, sources, ledger, held>>

\* record_observation: the source is read and the revenue recorded,
Record(t) ==
  /\ At(t, "record")
  /\ LET s == sale[t].id IN
     /\ ledger[s] + sale[t].amount <= MaxRevenue
     /\ ledger' = [ledger EXCEPT ![s] = @ + sale[t].amount]
     /\ sale' = [sale EXCEPT ![t].source = sources[s]]
  /\ Go(t, "total")
  /\ UNCHANGED <<breaker, inputs, budgetVars, approvalVars, evidence, qualified, sources, held>>

\* Mutant of Total: what the source had when it was read, and the new amount.
TotalByHand(t) ==
  /\ At(t, "total")
  /\ sale' = [sale EXCEPT ![t].total = @ + ledger[sale[t].id] + sale[t].source.observed]
  /\ Go(t, "store")
  /\ UNCHANGED <<breaker, inputs, budgetVars, approvalVars, evidence, qualified, sources, ledger, held>>

\* the ledger totalled,
Total(t) ==
  /\ At(t, "total")
  /\ sale' = [sale EXCEPT ![t].total = ledger[sale[t].id]]
  /\ Go(t, "store")
  /\ UNCHANGED <<breaker, inputs, budgetVars, approvalVars, evidence, qualified, sources, ledger, held>>

\* and the source that was read written back, active.
Store(t) ==
  /\ At(t, "store")
  /\ sources' = [sources EXCEPT ![sale[t].id] =
                   [sale[t].source EXCEPT !.stage = "ACTIVE", !.observed = sale[t].total]]
  /\ sale' = [sale EXCEPT ![t] = NoSale]
  /\ Leave(t)
  /\ UNCHANGED <<breaker, inputs, budgetVars, approvalVars, evidence, qualified, ledger, held>>

-----------------------------------------------------------------------------
(* The owner's sources *)

Degrade(s) ==
  /\ s \in Known
  /\ Input
  /\ sources' = [sources EXCEPT ![s].stage = "DEGRADED"]
  /\ UNCHANGED <<objectVars, evidence, qualified, ledger, sale, held>>

\* The owner takes a source from portfolio(),
Look(s) ==
  /\ s \in Known
  /\ Input
  /\ held' = [id |-> s, source |-> sources[s]]
  /\ UNCHANGED <<objectVars, evidence, qualified, sources, ledger, sale>>

\* and replaces another by it: the object is put back as it was when taken.
Replace(s) ==
  /\ s \in Known
  /\ Input
  /\ held.id \in Known \ {s}
  /\ sources' = [sources EXCEPT ![s].stage = "REPLACED",
                                ![held.id] = [held.source EXCEPT !.replaces = s]]
  /\ UNCHANGED <<objectVars, evidence, qualified, ledger, sale, held>>

-----------------------------------------------------------------------------

Governed ==
  /\ \/ \E t \in Threads, r \in Requests : Authorize(t, r) \/ Run(t, r) \/ Approve(t, r)
     \/ \E r \in Requests : Submit(r) \/ Reject(r)
     \/ \E t \in Threads : CheckBudget(t) \/ Charge(t) \/ Pay(t) \/ Enter(t) \/ Fail(t)
                             \/ Succeed(t) \/ Decide(t)
  /\ UNCHANGED revenueVars

Next ==
  \/ Governed
  \/ \E o \in Opportunities, c \in Claims, q \in Qualities :
       \E relation \in {"supports", "contradicts", "context"} : AddEvidence(o, c, relation, q)
  \/ \E o \in Opportunities : Qualify(o)
  \/ \E t \in Threads, o \in Opportunities, risk \in {4, 5, 8}, capital, production \in BOOLEAN :
       Execute(t, o, risk, capital, production)
  \/ \E t \in Threads : Admit(t) \/ Return(t) \/ Record(t) \/ Total(t) \/ Store(t)
  \/ \E t \in Threads, s \in Sources, e \in Earnings : Observe(t, s, e)
  \/ \E s \in Sources : Degrade(s) \/ Look(s) \/ Replace(s)

Spec == OpportunityInit /\ [][Next]_vars

-----------------------------------------------------------------------------
(* Properties *)

Steps == {"idle", "budget", "breaker", "running", "charge", "pay", "approve",
          "admit", "record", "total", "store"}
Source == [stage: {"none", "VALIDATING", "ACTIVE", "DEGRADED", "REPLACED"},
           observed: Nat, replaces: {0} \union Sources]

GovernedTypeOK ==
  /\ breaker \in [state: {"closed", "open"}, failures: Nat]
  /\ breaker.failures >= Threshold => breaker.state = "open"
  /\ spent \in Nat /\ inputs \in Nat /\ charged \in Nat /\ refused \in Nat
  /\ pending \subseteq Requests
  /\ submitted \in [Requests -> Nat] /\ approved \in [Requests -> Nat]
  /\ call \in [Threads -> [at: Steps, for: Requests \union Opportunities \union {None}]]
  /\ \A t \in Threads :
       /\ call[t].at \in {"budget", "charge", "pay"} => call[t].for \in Budgeted
       /\ call[t].at = "approve" => call[t].for \in Requests
       /\ call[t].at = "admit" => call[t].for \in Opportunities

RevenueTypeOK ==
  /\ evidence \in [Opportunities -> [Claims ->
       [for: Nat, against: Nat, supporting: Nat, count: Nat]]]
  /\ qualified \subseteq Opportunities
  /\ sources \in [Sources -> Source]
  /\ ledger \in [Sources -> Nat]
  /\ sale \in [Threads -> [id: {0} \union Sources, amount: Nat, source: Source, total: Nat]]
  /\ \A t \in Threads : call[t].at \in {"record", "total", "store"} => sale[t].id \in Known
  /\ held \in [id: {0} \union Sources, source: Source]

\* The state has its shape: a breaker whose failures reached the threshold is
\* open, a thread that charges a cost has a budget, one that records revenue
\* a source.
TypeOK == GovernedTypeOK /\ RevenueTypeOK

\* The breaker stops a run of failures: with one caller there are never more
\* than the threshold, and each other caller that was under way when it
\* opened adds one at most.
FailuresAreBounded == breaker.failures <= Threshold + Cardinality(Threads) - 1

Running == {t \in Threads : At(t, "running")}

\* An open breaker that no running operation may still close stays open, and
\* nothing runs again: there is no way back from OPEN (HALF_OPEN is never set).
OpenBreakerIsFinal ==
  [][breaker.state = "open" /\ Running = {} => breaker'.state = "open" /\ Running' = {}]_vars

\* The check of consume and its addition are two steps: callers together may
\* spend more than the limit, by one operation for each other caller.
OverspendIsBounded == spent <= Limit + (Cardinality(Threads) - 1) * MaxCost

\* The cost of an operation that ran is refused only if another one was
\* charged between its two checks: one charge spoils at most the operations
\* of the other callers, so a single caller never runs what it cannot pay.
RefusedChargesWereContended == refused <= (Cardinality(Threads) - 1) * charged

\* approve reads the list and takes the request off it in two steps: a request
\* may be approved several times, but only by calls that overlap.
ApprovalsAreBounded ==
  \A r \in Requests : approved[r] <= Cardinality(Threads) * submitted[r]

\* Revenue is never made up: a source shows no more than the ledger has for it,
\* and an active one shows something, whatever objects are written back late.
ActiveHasRevenue ==
  \A s \in Sources :
    /\ sources[s].observed <= ledger[s]
    /\ sources[s].stage = "ACTIVE" => sources[s].observed > 0

\* Evidence that does not support a claim never makes an opportunity qualify.
OnlySupportQualifies ==
  [][\A o \in Opportunities, c \in Claims :
       Supported(evidence[o][c])' /\ ~Supported(evidence[o][c])
         => evidence'[o][c].for > evidence[o][c].for]_vars
=============================================================================
