-------------------------- MODULE RevenuePortfolio --------------------------
(***************************************************************************)
(* The revenue portfolio and what is learnt from it: sources are found,    *)
(* approved, activated, degraded and replaced (aurelix_core/               *)
(* revenue_portfolio.py); readers turn them into signals                   *)
(* (economic_feedback.py, economic_learning_adapter.py), which become      *)
(* Academy lessons (economic_academy_bridge.py) or the feedback that an    *)
(* enterprise cycle starts with, keeps with its experiment and ranks its   *)
(* opportunity by when the experiment has been measured                    *)
(* (engine_factory.py, enterprise_loop.py, integrated_engines.py).         *)
(*                                                                         *)
(* The portfolio, the bridge and the Academy are objects of one process:   *)
(* a restart loses them.  The context of an experiment is in the database. *)
(* An owner's call is one step; a reader looks at one field at a time.     *)
(*                                                                         *)
(* Abstractions.  What does not change about a source (its connector, its  *)
(* confidence and risk, whether it needs an approval, its estimate) is a   *)
(* constant of its id.  replacement_for, which nothing reads, is left out. *)
(* Owners act by calls; what a caller does to the attributes of a source   *)
(* it holds is not modelled.  The steps of the cycle itself are those of   *)
(* ExperimentCycle; here it is begun, kept and continued.                  *)
(***************************************************************************)
EXTENDS Naturals, FiniteSets, Sequences, FiniteSetsExt

CONSTANTS
  Sources,        \* source ids
  Connected,      \* those with a connector
  Sound,          \* those with confidence >= 0.6 and risk <= 0.4
  Trusted,        \* those added with human_approval_required=False
  Expected,       \* expected_daily_eur of each
  Amounts,        \* bound: amounts of realized_daily_eur
  Brought,        \* bound: how a source may be when a caller brings it to add
  MaximumSources, \* PortfolioTarget.maximum_sources
  Experiments,    \* bound: the experiments that cycles propose
  Readers,        \* bound: concurrent calls of publish and of cycles
  MaxInputs,      \* bound: calls of owners, and readings
  MaxRestarts,    \* bound
  None            \* no source

SourceStatus ==
  {"discovered", "validating", "ready", "active", "degraded", "paused", "retired"}

\* What changes of a source.
Made == [status: SourceStatus, realized: Amounts \union {0}, approved: BOOLEAN]

ASSUME PortfolioAssumption ==
  /\ IsFiniteSet(Sources) /\ None \notin Sources
  /\ Connected \subseteq Sources /\ Sound \subseteq Sources /\ Trusted \subseteq Sources
  /\ Expected \in [Sources -> Nat]
  /\ Amounts \subseteq Nat
  /\ Brought \subseteq Made
  /\ IsFiniteSet(Readers) /\ Readers # {}
  /\ MaximumSources \in Nat /\ MaxInputs \in Nat /\ MaxRestarts \in Nat

VARIABLES
  status,       \* of each source; "absent" before add and after a restart
  realized,     \* realized_daily_eur
  approved,     \* the sources with human_approved
  reader,       \* where each reader is
  knowledge,    \* AcademyEngine: signatures of the lessons, as they were made
  published,    \* EconomicAcademyBridge._published
  context,      \* experiment.context:<id> and the opportunity of its cycle
  inputs, restarts,
  everApproved, \* history: sources that were ever approved
  broughtActive,\* history: sources that were active when they were added
  recorded,     \* history: the income ever recorded or brought, with its source
  replaced      \* history: sources that were replaced, and not used since

portfolio == <<status, realized, approved>>
taught == <<knowledge, published>>
history == <<everApproved, broughtActive, recorded, replaced>>
portfolioVars == <<portfolio, reader, taught, context, inputs, restarts, history>>

\* A source as discover makes it.
Discovered == [status |-> "discovered", realized |-> 0, approved |-> FALSE]

Idle == [at |-> "idle", todo |-> {}, source |-> None, observed |-> 0, signals |-> {}]
Open(signals) == [at |-> "open", signals |-> signals, credit |-> "none"]
NoContext == [at |-> "none", signals |-> {}, credit |-> "none"]

Empty ==
  /\ status = [s \in Sources |-> "absent"]
  /\ realized = [s \in Sources |-> 0]
  /\ approved = {}
  /\ reader = [r \in Readers |-> Idle]
  /\ knowledge = <<>>
  /\ published = {}

PortfolioInit ==
  /\ Empty
  /\ context = [e \in Experiments |-> NoContext]
  /\ inputs = 0
  /\ restarts = 0
  /\ everApproved = {}
  /\ broughtActive = {}
  /\ recorded = {}
  /\ replaced = {}

Input == inputs < MaxInputs /\ inputs' = inputs + 1
Known == {s \in Sources : status[s] # "absent"}

-----------------------------------------------------------------------------
(* The portfolio: calls of owners *)

OwnerCall == Input /\ UNCHANGED <<reader, taught, context, restarts>>

\* The sources with s, if so, and without it otherwise.
With(sources, s, so) == IF so THEN sources \union {s} ELSE sources

\* add takes a source as its caller made it, be it active, approved and paid.
Add(s, made) ==
  /\ status[s] = "absent"
  /\ Cardinality(Known) < MaximumSources
  /\ status' = [status EXCEPT ![s] = made.status]
  /\ realized' = [realized EXCEPT ![s] = made.realized]
  /\ approved' = With(approved, s, made.approved)
  /\ everApproved' = With(everApproved, s, made.approved)
  /\ broughtActive' = With(broughtActive, s, made.status = "active")
  /\ recorded' = recorded \union {<<s, made.realized>>}
  /\ OwnerCall
  /\ UNCHANGED replaced

\* approve: READY, from whatever status.
ApproveSource(s) ==
  /\ s \in Known
  /\ approved' = approved \union {s}
  /\ status' = [status EXCEPT ![s] = "ready"]
  /\ everApproved' = everApproved \union {s}
  /\ replaced' = replaced \ {s}
  /\ OwnerCall
  /\ UNCHANGED <<realized, broughtActive, recorded>>

\* Mutant of Authorized: a connector is as good as an approval.
AuthorizedByConnector(s) == s \in Trusted \union approved \union Connected

\* not human_approval_required or human_approved
Authorized(s) == s \in Trusted \union approved

Activate(s) ==
  /\ s \in Known
  /\ Authorized(s)
  /\ s \in Connected
  /\ status' = [status EXCEPT ![s] = "active"]
  /\ replaced' = replaced \ {s}
  /\ OwnerCall
  /\ UNCHANGED <<realized, approved, everApproved, broughtActive, recorded>>

\* record_realized_daily: an active source that earns nothing is degraded.
RecordRealized(s, amount) ==
  /\ s \in Known
  /\ realized' = [realized EXCEPT ![s] = amount]
  /\ status' = [status EXCEPT ![s] = IF @ = "active" /\ amount = 0 THEN "degraded" ELSE @]
  /\ recorded' = recorded \union {<<s, amount>>}
  /\ OwnerCall
  /\ UNCHANGED <<approved, everApproved, broughtActive, replaced>>

Viable(s) == status[s] \in {"ready", "active"} /\ s \in Sound /\ Authorized(s)

NeedsReplacement(s) == status[s] \in {"degraded", "retired"}

\* Mutant of Replace: the failed source keeps its status.
ReplaceOnly(failed, candidate) ==
  /\ NeedsReplacement(failed)
  /\ Viable(candidate)
  /\ status' = [status EXCEPT ![candidate] = "active"]
  /\ replaced' = (replaced \union {failed}) \ {candidate}
  /\ OwnerCall
  /\ UNCHANGED <<realized, approved, everApproved, broughtActive, recorded>>

\* replace: the candidate is active, and the failed source is retired.
Replace(failed, candidate) ==
  /\ NeedsReplacement(failed)
  /\ Viable(candidate)
  /\ status' = [status EXCEPT ![candidate] = "active", ![failed] = "retired"]
  /\ replaced' = (replaced \union {failed}) \ {candidate}
  /\ OwnerCall
  /\ UNCHANGED <<realized, approved, everApproved, broughtActive, recorded>>

-----------------------------------------------------------------------------
(* EconomicFeedback.snapshot: source by source, of each the income and then *)
(* the status                                                               *)

ReaderAt(r, place) == reader[r].at = place
Goto(r, place) == reader' = [reader EXCEPT ![r].at = place]
Leave(r) == reader' = [reader EXCEPT ![r] = Idle]

\* Of the steps of readers, what none of them changes.
Reading == UNCHANGED <<portfolio, restarts, history>>

Snapshot(r) ==
  /\ ReaderAt(r, "idle")
  /\ Input
  /\ reader' = [reader EXCEPT ![r].at = "reading", ![r].todo = Known]
  /\ Reading /\ UNCHANGED <<taught, context>>

\* Mutant of ReadIncome: without income the estimate is taken.
ReadEstimate(r) ==
  /\ ReaderAt(r, "reading") /\ reader[r].source = None
  /\ \E s \in reader[r].todo :
       reader' = [reader EXCEPT ![r].source = s,
                    ![r].observed = IF realized[s] = 0 THEN Expected[s] ELSE realized[s]]
  /\ Reading /\ UNCHANGED <<taught, context, inputs>>

ReadIncome(r) ==
  /\ ReaderAt(r, "reading") /\ reader[r].source = None
  /\ \E s \in reader[r].todo :
       reader' = [reader EXCEPT ![r].source = s, ![r].observed = realized[s]]
  /\ Reading /\ UNCHANGED <<taught, context, inputs>>

\* EconomicSignal, as far as it changes
Signal(s, observed) ==
  [source |-> s, observed |-> observed,
   productive |-> status[s] = "active" /\ observed > 0]

ReadStatus(r) ==
  LET s == reader[r].source
  IN /\ ReaderAt(r, "reading") /\ s # None
     /\ reader' = [reader EXCEPT ![r].todo = @ \ {s}, ![r].source = None, ![r].observed = 0,
                                 ![r].signals = @ \union {Signal(s, reader[r].observed)}]
     /\ Reading /\ UNCHANGED <<taught, context, inputs>>

HasRead(r) == ReaderAt(r, "reading") /\ reader[r].source = None /\ reader[r].todo = {}

-----------------------------------------------------------------------------
(* EconomicAcademyBridge.publish *)

\* No evidence, or evidence with the signature of a lesson: nothing is new.
CheckPublished(r) ==
  /\ HasRead(r)
  /\ IF reader[r].signals \in published \union {{}} THEN Leave(r) ELSE Goto(r, "create")
  /\ Reading /\ UNCHANGED <<taught, context, inputs>>

CreateKnowledge(r) ==
  /\ ReaderAt(r, "create")
  /\ knowledge' = Append(knowledge, reader[r].signals)
  /\ Goto(r, "mark")
  /\ Reading /\ UNCHANGED <<published, context, inputs>>

MarkPublished(r) ==
  /\ ReaderAt(r, "mark")
  /\ published' = published \union {reader[r].signals}
  /\ Leave(r)
  /\ Reading /\ UNCHANGED <<knowledge, context, inputs>>

-----------------------------------------------------------------------------
(* The enterprise cycle *)

Productive(signals) == {x.source : x \in {y \in signals : y.productive}}
Realized(signals) == MapThenSumSet(LAMBDA x : x.observed, signals)
Forecast(signals) == MapThenSumSet(LAMBDA x : Expected[x.source], signals)

\* OpportunityEngine.run: the confidence of an opportunity is weighed by the
\* realization ratio when there is a productive source.
Credit(signals) ==
  IF Productive(signals) = {} THEN "none"
  ELSE IF Realized(signals) > Forecast(signals) /\ Forecast(signals) > 0 THEN "raised"
  ELSE IF Realized(signals) = Forecast(signals) THEN "kept"
  ELSE "lowered"

\* EnterpriseLoop.run with an executor: the feedback is saved with the new
\* experiment, whose opportunity waits for the measurement; without one the
\* opportunity is a candidate at once, of confidence 0.
Propose(r, e) ==
  /\ HasRead(r)
  /\ context[e] = NoContext
  /\ \E at \in {"open", "candidate"} :
       context' = [context EXCEPT ![e] = [Open(reader[r].signals) EXCEPT !.at = at]]
  /\ Leave(r)
  /\ Reading /\ UNCHANGED <<taught, inputs>>

\* A cycle that finds no evidence proposes nothing.
ProposeNothing(r) ==
  /\ HasRead(r)
  /\ Leave(r)
  /\ Reading /\ UNCHANGED <<taught, context, inputs>>

\* continue_after_experiment, of an experiment that passed or failed: the
\* opportunity rests on the feedback the cycle started with.
Continue(e) ==
  /\ context[e].at = "open"
  /\ \E at \in {"validated", "rejected"} :
       context' = [context EXCEPT ![e].at = at,
                     ![e].credit = IF at = "validated" THEN Credit(context[e].signals) ELSE "none"]
  /\ UNCHANGED <<portfolio, reader, taught, inputs, restarts, history>>

-----------------------------------------------------------------------------

\* The process ends and a new EngineFactory is built: an empty portfolio, an
\* Academy and a bridge without lessons; the database stays.
Restart ==
  /\ restarts < MaxRestarts
  /\ restarts' = restarts + 1
  /\ status' = [s \in Sources |-> "absent"]
  /\ realized' = [s \in Sources |-> 0]
  /\ approved' = {}
  /\ reader' = [r \in Readers |-> Idle]
  /\ knowledge' = <<>>
  /\ published' = {}
  /\ replaced' = {}
  /\ UNCHANGED <<context, inputs, everApproved, broughtActive, recorded>>

PortfolioNext ==
  \/ \E s \in Sources :
       \/ \E made \in Brought \union {Discovered} : Add(s, made)
       \/ ApproveSource(s) \/ Activate(s)
       \/ \E amount \in Amounts : RecordRealized(s, amount)
       \/ \E candidate \in Sources : Replace(s, candidate)
  \/ \E r \in Readers :
       \/ Snapshot(r) \/ ReadIncome(r) \/ ReadStatus(r)
       \/ CheckPublished(r) \/ CreateKnowledge(r) \/ MarkPublished(r)
       \/ ProposeNothing(r)
       \/ \E e \in Experiments : Propose(r, e)
  \/ \E e \in Experiments : Continue(e)
  \/ Restart

PortfolioSpec == PortfolioInit /\ [][PortfolioNext]_portfolioVars

-----------------------------------------------------------------------------
(* Properties *)

SourceSignals == [source: Sources, observed: Amounts \union {0}, productive: BOOLEAN]

\* The shapes of the state; the portfolio never exceeds its maximum size.
PortfolioTypeOK ==
  /\ status \in [Sources -> SourceStatus \union {"absent"}]
  /\ Cardinality(Known) <= MaximumSources
  /\ realized \in [Sources -> Amounts \union {0}]
  /\ approved \subseteq Sources
  /\ \A r \in Readers :
       /\ reader[r].at \in {"idle", "reading", "create", "mark"}
       /\ reader[r].todo \subseteq Sources
       /\ reader[r].source \in Sources \union {None}
       /\ reader[r].observed \in Amounts \union {0}
       /\ reader[r].signals \subseteq SourceSignals
  /\ published \subseteq SUBSET SourceSignals
  /\ \A i \in DOMAIN knowledge : knowledge[i] \subseteq SourceSignals
  /\ \A e \in Experiments :
       /\ context[e].at \in {"none", "open", "candidate", "validated", "rejected"}
       /\ context[e].signals \subseteq SourceSignals
       /\ context[e].credit \in {"none", "raised", "kept", "lowered"}
  /\ inputs \in 0..MaxInputs
  /\ restarts \in 0..MaxRestarts

\* Every signal that is being read, was taught, or waits in the database.
Told ==
  (UNION {reader[r].signals : r \in Readers})
    \union (UNION {knowledge[i] : i \in DOMAIN knowledge})
    \union (UNION {context[e].signals : e \in Experiments})

\* Sources that may be productive: no approval is needed of them, they were
\* approved, or their caller brought them as active.
MayProduce == Trusted \union everApproved \union broughtActive

\* No feedback, lesson or credited opportunity calls a source productive that
\* became active in the portfolio without the approval it needs, whichever of
\* activate and replace made it so, and whatever happened to it since the reading,
\* a restart included (revenue_portfolio.py: external channels "become active
\* only when their real connector and required human authorization exist").  Of
\* a source that add takes as active its caller answers.
ProductiveIsAuthorized ==
  /\ \A x \in Told : x.productive => x.source \in MayProduce
  /\ \A e \in Experiments :
       context[e].credit # "none" =>
         \E s \in Productive(context[e].signals) : s \in MayProduce

\* Income that a signal tells of was recorded for that source at some time, or
\* the source came to add with it (EconomicFeedback: "It never turns estimates
\* into realized revenue").
IncomeIsRecorded ==
  \A x \in Told : x.observed > 0 => <<x.source, x.observed>> \in recorded

\* A source that another has replaced is retired, unless it was approved,
\* activated or made a replacement again since: recorded income, degradation
\* and the replacement of others do not bring it back.
ReplacedIsRetired == \A s \in replaced : status[s] = "retired"
=============================================================================
