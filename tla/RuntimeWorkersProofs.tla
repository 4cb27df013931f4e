------------------------ MODULE RuntimeWorkersProofs ------------------------
(***************************************************************************)
(* What holds of the worker loops for every set of jobs and processes: they*)
(* implement the store's contract, so the invariant of RuntimeStoreProofs  *)
(* is theirs too, and from it follow the properties of the loops.  The end *)
(* is about SystemLifecycle, the lifespans of the loop in the server,      *)
(* which shares no variable with them.                                     *)
(***************************************************************************)
EXTENDS RuntimeWorkers, SystemLifecycle, TLAPS

\* The store's theorems, of the table as the loops use it.
SP == INSTANCE RuntimeStoreProofs WITH
  held <- claims, ClaimLimit <- MaxAttempts, AllowForce <- FALSE

Busy == {"handling", "failing"}

LoopTypeOK ==
  /\ pc \in [Workers -> {"down", "idle", "handling", "failing", "dead"}]
  /\ mine \in [Workers -> (Jobs \X Nat) \union {NoClaim}]
  /\ beating \in [Workers -> BOOLEAN]
  /\ audit \in [Jobs -> SUBSET Events]
  /\ crashes \in [Workers -> 0..MaxCrashes]

\* A loop that works, works on something it claimed; its heartbeat thread does
\* not outlive the iteration.
MineIsClaimed ==
  \A w \in Workers :
    /\ pc[w] \in Busy => mine[w] \in claims[w]
    /\ beating[w] => pc[w] \in Busy

\* The invariant of the store, and what ties the loops to it.
SInv == SP!IInv /\ LoopTypeOK /\ MineIsClaimed

-----------------------------------------------------------------------------
(* The loops implement the store *)

\* The constants of the loops are constants the store allows.
LEMMA StoreConstants == SP!StoreAssumption
  BY WorkersAssumption DEF SP!StoreAssumption

\* The operators of the table mean the same in the instance.
LEMMA SameTable ==
  /\ SP!Init <=> TableInit /\ claims = [w \in Workers |-> {}]
  /\ \A j : SP!Enqueue(j) <=> Enqueue(j)
  /\ \A w, j, n : SP!ClaimNextRow(w, j, n) <=> ClaimNextRow(w, j, n)
  /\ \A p, j, w, t : SP!Heartbeat(p, j, w, t) <=> Heartbeat(p, j, w, t)
  /\ \A p, j, w, t : SP!CompleteRow(p, j, w, t) <=> CompleteRow(p, j, w, t)
  /\ \A p, j, w, t, r : SP!FinishCheck(p, j, w, t, r) <=> FinishCheck(p, j, w, t, r)
  /\ \A p : SP!FinishApply(p) <=> FinishApply(p)
  /\ \A n, f : SP!RecoverRows(n, f) <=> RecoverRows(n, f)
  /\ \A f : SP!Due(f) = Due(f)
  /\ \A p : SP!DropCall(p) <=> DropCall(p)
  /\ SP!Tick <=> Tick
  <1> USE DEF SP!NoRow, NoRow, SP!NoResult, NoResult, SP!NoCall, NoCall,
              SP!Running, Running, SP!OwnedBy, OwnedBy, SP!LockFree, LockFree,
              SP!Released, Released, SP!Work, Work, SP!Failure, Failure,
              SP!InsertResult, InsertResult
  <1>1. SP!Init <=> TableInit /\ claims = [w \in Workers |-> {}]
    BY DEF SP!Init, SP!TableInit, TableInit
  <1>2. \A j : SP!Enqueue(j) <=> Enqueue(j)
    BY DEF SP!Enqueue, Enqueue
  <1>3. \A w, j, n : SP!ClaimNextRow(w, j, n) <=> ClaimNextRow(w, j, n)
    BY DEF SP!ClaimNextRow, ClaimNextRow, SP!Claimable, Claimable, SP!ClaimRow, ClaimRow
  <1>4. \A p, j, w, t : SP!Heartbeat(p, j, w, t) <=> Heartbeat(p, j, w, t)
    BY DEF SP!Heartbeat, Heartbeat
  <1>5. \A p, j, w, t : SP!CompleteRow(p, j, w, t) <=> CompleteRow(p, j, w, t)
    BY DEF SP!CompleteRow, CompleteRow, SP!CompleteOutcome, CompleteOutcome
  <1>6. \A p, j, w, t, r : SP!FinishCheck(p, j, w, t, r) <=> FinishCheck(p, j, w, t, r)
    BY DEF SP!FinishCheck, FinishCheck
  <1>7. \A p : SP!FinishApply(p) <=> FinishApply(p)
    BY DEF SP!FinishApply, FinishApply
  <1>8. \A f : SP!Due(f) = Due(f)
    BY DEF SP!Due, Due
  <1>9. \A n, f : SP!RecoverRows(n, f) <=> RecoverRows(n, f)
    <2>1. \A j, n : SP!RecoveredStatus(j, n) = RecoveredStatus(j, n)
      BY DEF SP!RecoveredStatus, RecoveredStatus
    <2>2. \A j, s : SP!Released(j, s) = Released(j, s)
      OBVIOUS
    <2> HIDE DEF Released, SP!Released
    <2> QED BY <1>8, <2>1, <2>2 DEF SP!RecoverRows, RecoverRows
  <1>10. \A p : SP!DropCall(p) <=> DropCall(p)
    BY DEF SP!DropCall, DropCall
  <1>11. SP!Tick <=> Tick
    BY DEF SP!Tick, Tick
  <1> QED BY <1>1, <1>2, <1>3, <1>4, <1>5, <1>6, <1>7, <1>8, <1>9, <1>10, <1>11

\* Every step of a loop is a step of the store or leaves the table alone.
LEMMA Simulates == SInv /\ [Next]_vars => [SP!Next]_(SP!vars)
  <1> SUFFICES ASSUME SInv, [Next]_vars PROVE SP!Next \/ UNCHANGED SP!vars
    OBVIOUS
  <1> USE SameTable DEF SP!vars
  <1>1. /\ job \in [Jobs -> SP!Row] /\ result \in [Jobs -> SP!Verdict]
        /\ claims \in [Workers -> SUBSET (Jobs \X Nat)]
    BY DEF SInv, SP!IInv, SP!TypeOK, SP!TableTypeOK
  <1>2. \A w \in Workers : pc[w] \in Busy \/ beating[w] => mine[w] \in claims[w]
    BY DEF SInv, MineIsClaimed
  <1>3. ASSUME NEW j \in Jobs, Submit(j) PROVE SP!Next
    BY <1>3 DEF Submit, loopVars, SP!Submit, SP!Next
  <1>4. ASSUME NEW w \in Workers, Start(w) PROVE SP!Next \/ UNCHANGED SP!vars
    <2>1. RecoverRows(RecoverLimit, FALSE) /\ UNCHANGED claims
      BY <1>4 DEF Start
    <2>2. CASE Due(FALSE) = {}
      BY <1>1, <2>1, <2>2 DEF RecoverRows
    <2>3. CASE Due(FALSE) # {}
      <3>1. SP!Recover
        BY <2>1, <2>3 DEF SP!Recover
      <3> QED BY <3>1 DEF SP!Next
    <2> QED BY <2>2, <2>3
  <1>5. ASSUME NEW w \in Workers, ClaimNext(w) PROVE SP!Next
    <2>1. PICK j \in Jobs : /\ ClaimNextRow(w, j, MaxAttempts)
                            /\ claims' = [claims EXCEPT ![w] = @ \union {<<j, job[j].attempts + 1>>}]
      BY <1>5 DEF ClaimNext
    <2>2. SP!ClaimNext(w)
      BY <2>1 DEF SP!ClaimNext, SP!Keep
    <2> QED BY <2>2 DEF SP!Next
  <1>6. ASSUME NEW w \in Workers, Beat(w) PROVE SP!Next \/ UNCHANGED SP!vars
    <2>1. CASE Heartbeat(w, mine[w][1], w, mine[w][2]) /\ UNCHANGED loopVars
      <3>1. mine[w] \in claims[w]
        BY <1>2, <1>6 DEF Beat
      <3>2. SP!Renew(w)
        BY <2>1, <3>1 DEF SP!Renew, loopVars
      <3> QED BY <3>2 DEF SP!Next
    <2>2. CASE UNCHANGED <<job, result, call, claims>>
      BY <2>2
    <2> QED BY <1>6, <2>1, <2>2 DEF Beat
  <1>7. ASSUME NEW w \in Workers, pc[w] \in Busy,
               CompleteRow(w, mine[w][1], w, mine[w][2]), UNCHANGED claims
        PROVE  SP!Next
    <2>1. SP!Complete(w)
      BY <1>2, <1>7 DEF SP!Complete
    <2> QED BY <2>1 DEF SP!Next
  <1>8. ASSUME NEW w \in Workers, HandlerCompletes(w) PROVE SP!Next
    BY <1>7, <1>8 DEF HandlerCompletes, loopVars, Busy
  <1>9. ASSUME NEW w \in Workers, HandlerReturns(w) PROVE SP!Next \/ UNCHANGED SP!vars
    <2>1. CASE CompleteRow(w, mine[w][1], w, mine[w][2]) /\ UNCHANGED claims
      BY <1>7, <1>9, <2>1 DEF HandlerReturns, Busy
    <2>2. CASE UNCHANGED <<job, result, call, claims>>
      BY <2>2
    <2> QED BY <1>9, <2>1, <2>2 DEF HandlerReturns, EndIteration, Fails, tableVars
  <1>10. ASSUME NEW w \in Workers, HandlerRaises(w) PROVE UNCHANGED SP!vars
    BY <1>10 DEF HandlerRaises, Fails
  <1>11. ASSUME NEW w \in Workers, CallFinish(w) PROVE SP!Next \/ UNCHANGED SP!vars
    <2>1. CASE FinishCheck(w, mine[w][1], w, mine[w][2], Retries(w)) /\ UNCHANGED loopVars
      <3>1. Retries(w) \in BOOLEAN
        BY DEF Retries
      <3>2. mine[w] \in claims[w]
        BY <1>2, <1>11 DEF CallFinish, Busy
      <3>3. SP!BeginFinish(w)
        BY <2>1, <3>1, <3>2 DEF SP!BeginFinish, loopVars
      <3> QED BY <3>3 DEF SP!Next
    <2>2. CASE UNCHANGED <<job, result, call, claims>>
      BY <2>2
    <2> QED BY <1>11, <2>1, <2>2 DEF CallFinish, EndIteration, Escapes, tableVars
  <1>12. ASSUME NEW w \in Workers, FinishReturns(w) PROVE SP!Next
    BY <1>12 DEF FinishReturns, EndIteration, SP!EndFinish, SP!Next
  <1>13. ASSUME NEW w \in Workers, Crash(w) PROVE SP!Next
    BY <1>13 DEF Crash, SP!Crash, SP!Next
  <1>14. ASSUME TimePasses PROVE SP!Next
    BY <1>14 DEF TimePasses, loopVars, SP!TimePasses, SP!Next
  <1>15. ASSUME UNCHANGED vars PROVE UNCHANGED SP!vars
    BY <1>15 DEF vars
  <1> QED
    BY <1>3, <1>4, <1>5, <1>6, <1>8, <1>9, <1>10, <1>11, <1>12, <1>13, <1>14, <1>15 DEF Next

\* The types of the loops' own variables, and their claims.
LEMMA NextLoops == SInv /\ [Next]_vars => LoopTypeOK' /\ MineIsClaimed'
  <1> SUFFICES ASSUME SInv, [Next]_vars PROVE LoopTypeOK' /\ MineIsClaimed'
    OBVIOUS
  <1> USE DEF LoopTypeOK, MineIsClaimed, Busy
  <1>1. /\ LoopTypeOK /\ MineIsClaimed
        /\ claims \in [Workers -> SUBSET (Jobs \X Nat)]
        /\ \A j \in Jobs : job[j].attempts \in Nat
    BY DEF SInv, SP!IInv, SP!TypeOK, SP!TableTypeOK, SP!Row
  <1>2. \A w \in Workers : mine[w] \in claims[w] => mine[w][1] \in Jobs
    BY <1>1
  <1>3. ASSUME UNCHANGED loopVars PROVE LoopTypeOK' /\ MineIsClaimed'
    BY <1>1, <1>3 DEF loopVars
  <1>4. ASSUME NEW w \in Workers, NEW e \in Events, pc[w] \in Busy, EndIteration(w, e)
        PROVE  LoopTypeOK' /\ MineIsClaimed'
    BY <1>1, <1>2, <1>4 DEF EndIteration
  <1>5. ASSUME NEW j \in Jobs, Submit(j) PROVE LoopTypeOK' /\ MineIsClaimed'
    BY <1>3, <1>5 DEF Submit
  <1>6. ASSUME NEW w \in Workers, Start(w) PROVE LoopTypeOK' /\ MineIsClaimed'
    BY <1>1, <1>6 DEF Start
  <1>7. ASSUME NEW w \in Workers, ClaimNext(w) PROVE LoopTypeOK' /\ MineIsClaimed'
    <2>1. PICK j \in Jobs :
            /\ mine' = [mine EXCEPT ![w] = <<j, job[j].attempts + 1>>]
            /\ claims' = [claims EXCEPT ![w] = @ \union {<<j, job[j].attempts + 1>>}]
      BY <1>7 DEF ClaimNext
    <2>2. /\ pc' = [pc EXCEPT ![w] = "handling"]
          /\ beating' = [beating EXCEPT ![w] = TRUE]
          /\ UNCHANGED <<audit, crashes>>
      BY <1>7 DEF ClaimNext
    <2>3. <<j, job[j].attempts + 1>> \in Jobs \X Nat
      BY <1>1
    <2>4. mine'[w] = <<j, job[j].attempts + 1>> /\ mine'[w] \in claims'[w]
      BY <1>1, <2>1
    <2>5. \A v \in Workers \ {w} : /\ pc'[v] = pc[v] /\ beating'[v] = beating[v]
                                   /\ mine'[v] = mine[v] /\ claims'[v] = claims[v]
      BY <1>1, <2>1, <2>2
    <2>6. pc'[w] = "handling"
      BY <1>1, <2>2
    <2>7. LoopTypeOK'
      BY <1>1, <2>1, <2>2, <2>3
    <2>8. MineIsClaimed'
      BY <1>1, <2>4, <2>5, <2>6
    <2> QED BY <2>7, <2>8
  <1>8. ASSUME NEW w \in Workers, Beat(w) PROVE LoopTypeOK' /\ MineIsClaimed'
    BY <1>1, <1>3, <1>8 DEF Beat
  <1>9. ASSUME NEW w \in Workers, HandlerCompletes(w) PROVE LoopTypeOK' /\ MineIsClaimed'
    BY <1>3, <1>9 DEF HandlerCompletes
  <1>10. ASSUME NEW w \in Workers, pc[w] \in Busy, Fails(w) PROVE LoopTypeOK' /\ MineIsClaimed'
    BY <1>1, <1>10 DEF Fails
  <1>11. ASSUME NEW w \in Workers, HandlerReturns(w) PROVE LoopTypeOK' /\ MineIsClaimed'
    BY <1>4, <1>10, <1>11 DEF HandlerReturns, Events
  <1>12. ASSUME NEW w \in Workers, HandlerRaises(w) PROVE LoopTypeOK' /\ MineIsClaimed'
    BY <1>10, <1>12 DEF HandlerRaises
  <1>13. ASSUME NEW w \in Workers, CallFinish(w) PROVE LoopTypeOK' /\ MineIsClaimed'
    <2>1. CASE Escapes(w)
      BY <1>1, <2>1 DEF Escapes
    <2> QED BY <1>3, <1>4, <1>13, <2>1 DEF CallFinish, Events
  <1>14. ASSUME NEW w \in Workers, FinishReturns(w) PROVE LoopTypeOK' /\ MineIsClaimed'
    BY <1>4, <1>14 DEF FinishReturns, Events
  <1>15. ASSUME NEW w \in Workers, Crash(w) PROVE LoopTypeOK' /\ MineIsClaimed'
    <2>1. crashes[w] + 1 \in 0..MaxCrashes
      BY <1>1, <1>15, WorkersAssumption DEF Crash
    <2> QED BY <1>1, <1>15, <2>1 DEF Crash
  <1>16. ASSUME TimePasses PROVE LoopTypeOK' /\ MineIsClaimed'
    BY <1>3, <1>16 DEF TimePasses
  <1>17. ASSUME UNCHANGED vars PROVE LoopTypeOK' /\ MineIsClaimed'
    BY <1>1, <1>17 DEF vars
  <1> QED
    BY <1>5, <1>6, <1>7, <1>8, <1>9, <1>11, <1>12, <1>13, <1>14, <1>15, <1>16, <1>17 DEF Next

\* The invariant of the store holds along the loops.
LEMMA StoreInvariant == Spec => []SInv
  <1>1. Init => SInv
    <2> SUFFICES ASSUME Init PROVE SInv
      OBVIOUS
    <2>1. SP!IInv
      BY StoreConstants, TableAssumption, SP!InitIInv, SameTable DEF Init
    <2>2. LoopTypeOK /\ MineIsClaimed
      BY WorkersAssumption DEF Init, LoopTypeOK, MineIsClaimed, Busy
    <2> QED BY <2>1, <2>2 DEF SInv
  <1>2. SInv /\ [Next]_vars => SInv'
    <2> SUFFICES ASSUME SInv, [Next]_vars PROVE SInv'
      OBVIOUS
    <2>1. SP!IInv'
      BY StoreConstants, TableAssumption, SP!NextIInv, Simulates DEF SInv
    <2> QED BY <2>1, NextLoops DEF SInv
  <1> QED BY <1>1, <1>2, PTL DEF Spec

\* Rows, results and calls of the loops have their types, and so have the loops.
THEOREM TypeCorrect == Spec => []TypeOK
  <1>1. SInv => TypeOK
    BY DEF SInv, SP!IInv, SP!TypeOK, LoopTypeOK, TypeOK, SP!TableTypeOK, TableTypeOK,
           SP!Row, Row, SP!Statuses, Statuses, SP!Terminal, Terminal,
           SP!Verdict, Verdict, SP!Call, Call
  <1> QED BY <1>1, StoreInvariant, PTL

\* The contract that the loops name and the one the theorems are about are the
\* same.
LEMMA SameStore ==
  /\ SP!Init <=> Store!Init
  /\ SP!Next => Store!Next
  <1> USE DEF SP!NoRow, Store!NoRow, SP!NoResult, Store!NoResult, SP!NoCall, Store!NoCall,
              SP!Running, Store!Running, SP!OwnedBy, Store!OwnedBy,
              SP!LockFree, Store!LockFree, SP!Released, Store!Released,
              SP!Work, Store!Work, SP!Failure, Store!Failure,
              SP!InsertResult, Store!InsertResult
  <1>1. SP!Init <=> Store!Init
    BY DEF SP!Init, SP!TableInit, Store!Init, Store!TableInit
  <1>2. \A j : SP!Submit(j) => Store!Submit(j)
    BY DEF SP!Submit, SP!Enqueue, Store!Submit, Store!Enqueue
  <1>3. \A w : SP!ClaimNext(w) => Store!ClaimNext(w)
    BY DEF SP!ClaimNext, SP!ClaimNextRow, SP!Claimable, SP!ClaimRow, SP!Keep,
           Store!ClaimNext, Store!ClaimNextRow, Store!Claimable, Store!ClaimRow, Store!Keep
  <1>4. \A w : SP!Claim(w) => Store!Claim(w)
    BY DEF SP!Claim, SP!ClaimThisRow, SP!Claimable, SP!ClaimRow, SP!Keep,
           Store!Claim, Store!ClaimThisRow, Store!Claimable, Store!ClaimRow, Store!Keep
  <1>5. \A w : SP!Renew(w) => Store!Renew(w)
    BY DEF SP!Renew, SP!Heartbeat, Store!Renew, Store!Heartbeat
  <1>6. \A w : SP!Complete(w) => Store!Complete(w)
    BY DEF SP!Complete, SP!CompleteRow, SP!CompleteOutcome,
           Store!Complete, Store!CompleteRow, Store!CompleteOutcome
  <1>7. \A w : SP!BeginFinish(w) => Store!BeginFinish(w)
    BY DEF SP!BeginFinish, SP!FinishCheck, Store!BeginFinish, Store!FinishCheck
  <1>8. \A w : SP!EndFinish(w) => Store!EndFinish(w)
    BY DEF SP!EndFinish, SP!FinishApply, Store!EndFinish, Store!FinishApply
  <1>9. \A w : SP!BeginRecord(w) => Store!BeginRecord(w)
    BY DEF SP!BeginRecord, SP!RecordCheck, Store!BeginRecord, Store!RecordCheck
  <1>10. \A w : SP!EndRecord(w) => Store!EndRecord(w)
    BY DEF SP!EndRecord, SP!RecordApply, Store!EndRecord, Store!RecordApply
  <1>11. SP!Recover => Store!Recover
    BY DEF SP!Recover, SP!Due, SP!RecoverRows, SP!RecoveredStatus,
           Store!Recover, Store!Due, Store!RecoverRows, Store!RecoveredStatus
  <1>12. SP!TimePasses => Store!TimePasses
    BY DEF SP!TimePasses, SP!Tick, Store!TimePasses, Store!Tick
  <1>13. \A w : SP!Crash(w) => Store!Crash(w)
    BY DEF SP!Crash, SP!DropCall, Store!Crash, Store!DropCall
  <1>14. SP!Next => Store!Next
    BY <1>2, <1>3, <1>4, <1>5, <1>6, <1>7, <1>8, <1>9, <1>10, <1>11, <1>12, <1>13
       DEF SP!Next, Store!Next
  <1> QED BY <1>1, <1>14

\* The loops use the store only as its contract says, for any number of loops
\* (runtime.py, run_once and serve_forever, over persistence.py).
THEOREM LoopsImplementStore == Spec => ImplementsStore
  <1>1. Init => Store!Init
    BY SameTable, SameStore DEF Init
  <1>2. SInv /\ [Next]_vars => [Store!Next]_(Store!vars)
    BY Simulates, SameStore DEF SP!vars, Store!vars
  <1> QED BY <1>1, <1>2, StoreInvariant, PTL DEF Spec, ImplementsStore, Store!Spec

\* ... so that what is proved of every user of the store is so of the loops.
LEMMA LoopsRunStore == Spec => SP!Spec
  <1>1. Init => SP!Init
    BY SameTable DEF Init
  <1>2. SInv /\ [Next]_vars => [SP!Next]_(SP!vars)
    BY Simulates DEF SP!vars
  <1> QED BY <1>1, <1>2, StoreInvariant, PTL DEF Spec, SP!Spec

\* A job of the loops goes through the abstract life cycle, across loops that crash,
\* start again and recover (runtime.py, run_once and recover; persistence.py).
THEOREM LoopsFollowLifecycle == Spec => SP!ImplementsLifecycle
  <1>1. SP!Spec => SP!ImplementsLifecycle
    BY SP!StoreImplementsLifecycle, StoreConstants, TableAssumption
  <1> QED BY <1>1, LoopsRunStore

\* No loop takes a row from a loop whose lease runs: neither by claiming nor by the
\* recovery of its own start (persistence.py, claim_next and recover_running_jobs).
THEOREM LoopsRespectLeases == Spec => SP!LeaseProtectsOwner
  <1>1. SP!Spec => SP!LeaseProtectsOwner
    BY SP!LeasesProtectOwners, StoreConstants, TableAssumption
  <1> QED BY <1>1, LoopsRunStore

\* What a loop leaves as the result of a job, or as its end, no loop changes after it.
THEOREM LoopsKeepResults == Spec => SP!ResultIsWriteOnce /\ SP!TerminalIsFinal
  <1>1. SP!Spec => SP!ResultIsWriteOnce
    BY SP!ResultsAreWrittenOnce, StoreConstants, TableAssumption
  <1>2. SP!Spec => SP!TerminalIsFinal
    BY SP!TerminalRowsStay, StoreConstants, TableAssumption
  <1> QED BY <1>1, <1>2, LoopsRunStore

-----------------------------------------------------------------------------
(* The loops *)

\* A call of finish is that of the iteration its loop is in.
CallIsMine ==
  \A w \in Workers :
    call[w] # NoCall =>
      /\ pc[w] = "failing"
      /\ call[w] = [op |-> IF Retries(w) THEN "retry" ELSE "fail",
                    job |-> mine[w][1], worker |-> w, token |-> mine[w][2]]

\* What is known of the table in a state of the loops.
LEMMA TableFacts ==
  ASSUME SInv
  PROVE  /\ job \in [Jobs -> Row] /\ result \in [Jobs -> Verdict] /\ call \in [Workers -> Call]
         /\ claims \in [Workers -> SUBSET (Jobs \X Nat)]
         /\ \A j \in Jobs :
              /\ Running(j) => /\ job[j].worker \in Workers
                               /\ job[j].token = job[j].attempts /\ job[j].attempts > 0
              /\ job[j].status = "absent" => job[j].attempts = 0
              /\ job[j].status \in Terminal => result[j] # NoResult
         /\ \A w \in Workers : pc[w] \in Busy =>
              /\ mine[w][1] \in Jobs /\ mine[w][2] \in Nat /\ mine[w] = <<mine[w][1], mine[w][2]>>
              /\ mine[w][2] > 0 /\ mine[w][2] <= job[mine[w][1]].attempts
              /\ Running(mine[w][1]) /\ job[mine[w][1]].token = mine[w][2]
                   => job[mine[w][1]].worker = w
  <1>1. /\ job \in [Jobs -> Row] /\ result \in [Jobs -> Verdict] /\ call \in [Workers -> Call]
        /\ claims \in [Workers -> SUBSET (Jobs \X Nat)]
    BY DEF SInv, SP!IInv, SP!TypeOK, SP!TableTypeOK, SP!Row, Row, SP!Statuses, Statuses,
           SP!Terminal, Terminal, SP!Verdict, Verdict, SP!Call, Call
  <1>2. ASSUME NEW j \in Jobs
        PROVE  /\ Running(j) => /\ job[j].worker \in Workers
                                /\ job[j].token = job[j].attempts /\ job[j].attempts > 0
               /\ job[j].status = "absent" => job[j].attempts = 0
               /\ job[j].status \in Terminal => result[j] # NoResult
    BY DEF SInv, SP!IInv, SP!OwnershipShape, SP!AbsentIsFresh, SP!TerminalHasResult,
           SP!Running, Running, SP!Terminal, Terminal, SP!NoResult, NoResult
  <1>3. ASSUME NEW w \in Workers, pc[w] \in Busy
        PROVE  /\ mine[w][1] \in Jobs /\ mine[w][2] \in Nat /\ mine[w] = <<mine[w][1], mine[w][2]>>
               /\ mine[w][2] > 0 /\ mine[w][2] <= job[mine[w][1]].attempts
               /\ Running(mine[w][1]) /\ job[mine[w][1]].token = mine[w][2]
                    => job[mine[w][1]].worker = w
    <2>1. mine[w] \in claims[w]
      BY <1>3 DEF SInv, MineIsClaimed
    <2> QED
      BY <1>1, <2>1 DEF SInv, SP!IInv, SP!HeldTokensIssued, SP!CredentialsAreExclusive,
                        SP!Running, Running
  <1> QED BY <1>1, <1>2, <1>3

\* What the transactions of the store do to the rows: a submission adds one.
LEMMA SubmitEffect ==
  ASSUME SInv, NEW j \in Jobs, Enqueue(j)
  PROVE  /\ job[j].status = "absent" /\ job'[j].status = "queued"
         /\ job'[j].attempts = job[j].attempts
         /\ \A k \in Jobs \ {j} : job'[k] = job[k]
         /\ UNCHANGED <<result, call>>
  <1>1. job \in [Jobs -> Row] /\ job[j] \in Row
    BY TableFacts
  <1> QED BY <1>1 DEF Enqueue, Row

\* A claim hands a queued row to the claimer, under a new token.
LEMMA ClaimEffect ==
  ASSUME SInv, NEW w \in Workers, NEW j \in Jobs, ClaimNextRow(w, j, MaxAttempts)
  PROVE  /\ job[j].status = "queued" /\ job[j].attempts < MaxAttempts
         /\ job'[j].status = "running" /\ job'[j].attempts = job[j].attempts + 1
         /\ job'[j].worker = w /\ job'[j].token = job[j].attempts + 1
         /\ \A k \in Jobs \ {j} : job'[k] = job[k]
         /\ UNCHANGED <<result, call>>
  <1>1. job \in [Jobs -> Row] /\ job[j] \in Row
    BY TableFacts
  <1> QED BY <1>1 DEF ClaimNextRow, Claimable, ClaimRow, Row

\* The row apart from its lease.
SameRow(k) ==
  /\ job'[k].status = job[k].status /\ job'[k].attempts = job[k].attempts
  /\ job'[k].worker = job[k].worker /\ job'[k].token = job[k].token

\* Heartbeats and the passing of time touch leases only.
LEMMA LeaseEffect ==
  ASSUME SInv,
         \/ Tick
         \/ \E p \in Workers : Heartbeat(p, mine[p][1], p, mine[p][2])
         \/ UNCHANGED <<job, result, call>>
  PROVE  (\A k \in Jobs : SameRow(k)) /\ UNCHANGED <<result, call>>
  <1>1. job \in [Jobs -> Row]
    BY TableFacts
  <1>2. CASE Tick
    <2>1. UNCHANGED <<result, call>>
      BY <1>2 DEF Tick
    <2>2. ASSUME NEW k \in Jobs PROVE SameRow(k)
      <3>1. job[k] \in Row
        BY <1>1
      <3>2. \E n : job'[k] = [job[k] EXCEPT !.lease = n]
        BY <1>2 DEF Tick
      <3> QED BY <3>1, <3>2 DEF SameRow, Row
    <2> QED BY <2>1, <2>2
  <1>3. ASSUME NEW p \in Workers, Heartbeat(p, mine[p][1], p, mine[p][2])
        PROVE  (\A k \in Jobs : SameRow(k)) /\ UNCHANGED <<result, call>>
    <2>1. UNCHANGED <<result, call>>
      BY <1>3 DEF Heartbeat
    <2>2. PICK j : job' = [job EXCEPT ![j].lease = LeaseTicks]
      BY <1>3 DEF Heartbeat
    <2>3. ASSUME NEW k \in Jobs PROVE SameRow(k)
      <3>1. job[k] \in Row
        BY <1>1
      <3>2. job'[k] \in {job[k], [job[k] EXCEPT !.lease = LeaseTicks]}
        BY <1>1, <2>2
      <3> QED BY <3>1, <3>2 DEF SameRow, Row
    <2> QED BY <2>1, <2>3
  <1>4. CASE UNCHANGED <<job, result, call>>
    BY <1>4 DEF SameRow
  <1> QED BY <1>2, <1>3, <1>4

\* A row that was released.
ReleasedTo(k, status) ==
  Running(k) /\ job'[k].status = status /\ job'[k].attempts = job[k].attempts

\* A completion by the owner releases its row, and the first result stays.
LEMMA CompleteEffect ==
  ASSUME SInv, NEW w \in Workers, pc[w] \in Busy, CompleteRow(w, mine[w][1], w, mine[w][2])
  PROVE  /\ OwnedBy(mine[w][1], w, mine[w][2])
         /\ ReleasedTo(mine[w][1], "completed")
         /\ result'[mine[w][1]] =
              IF result[mine[w][1]] = NoResult THEN Work(mine[w][2]) ELSE result[mine[w][1]]
         /\ \A k \in Jobs \ {mine[w][1]} : job'[k] = job[k] /\ result'[k] = result[k]
         /\ call' = call
  <1> DEFINE j == mine[w][1]
  <1>1. j \in Jobs /\ job \in [Jobs -> Row] /\ job[j] \in Row /\ result \in [Jobs -> Verdict]
    BY TableFacts
  <1>2. OwnedBy(j, w, mine[w][2]) /\ Running(j)
    BY DEF CompleteRow, CompleteOutcome, OwnedBy
  <1>3. job' = [job EXCEPT ![j] = Released(j, "completed")] /\ InsertResult(j, Work(mine[w][2]))
        /\ call' = call
    BY DEF CompleteRow
  <1> HIDE DEF j
  <1>4. /\ job'[j].status = "completed" /\ job'[j].attempts = job[j].attempts
        /\ \A k \in Jobs \ {j} : job'[k] = job[k]
    BY <1>1, <1>3 DEF Released, Row
  <1>5. /\ result'[j] = IF result[j] = NoResult THEN Work(mine[w][2]) ELSE result[j]
        /\ \A k \in Jobs \ {j} : result'[k] = result[k]
    BY <1>1, <1>3 DEF InsertResult
  <1> QED BY <1>2, <1>3, <1>4, <1>5 DEF ReleasedTo, j

\* The write of finish: its row is released if it is still the caller's, and a
\* terminal failure inserts its result whether it is or not.
LEMMA FinishEffect ==
  ASSUME SInv, CallIsMine, NEW w \in Workers, FinishApply(w)
  PROVE  /\ pc[w] = "failing"
         /\ IF OwnedBy(mine[w][1], w, mine[w][2])
            THEN /\ ReleasedTo(mine[w][1], IF Retries(w) THEN "queued" ELSE "failed")
                 /\ \A k \in Jobs \ {mine[w][1]} : job'[k] = job[k]
            ELSE job' = job
         /\ IF Retries(w) THEN result' = result
            ELSE /\ result'[mine[w][1]] =
                      IF result[mine[w][1]] = NoResult THEN Failure(mine[w][2])
                      ELSE result[mine[w][1]]
                 /\ \A k \in Jobs \ {mine[w][1]} : result'[k] = result[k]
         /\ call' = [call EXCEPT ![w] = NoCall]
  <1> DEFINE j == mine[w][1]
             status == IF Retries(w) THEN "queued" ELSE "failed"
             ending == IF Retries(w) THEN "retry" ELSE "fail"
  <1>1. call[w] # NoCall
    BY DEF FinishApply, NoCall
  <1>2. /\ pc[w] = "failing"
        /\ call[w].job = j /\ call[w].worker = w /\ call[w].token = mine[w][2]
        /\ call[w].op = "retry" <=> Retries(w)
    <2>1. /\ pc[w] = "failing"
          /\ call[w] = [op |-> ending, job |-> j, worker |-> w, token |-> mine[w][2]]
      BY <1>1 DEF CallIsMine
    <2>2. call[w].op = ending /\ call[w].job = j /\ call[w].worker = w
          /\ call[w].token = mine[w][2]
      BY <2>1
    <2>3. ending = "retry" <=> Retries(w)
      BY DEF Retries
    <2> QED BY <2>1, <2>2, <2>3
  <1>3. j \in Jobs /\ job \in [Jobs -> Row] /\ job[j] \in Row /\ result \in [Jobs -> Verdict]
    BY <1>2, TableFacts DEF Busy
  <1>4. /\ job' = IF OwnedBy(j, w, mine[w][2]) THEN [job EXCEPT ![j] = Released(j, status)] ELSE job
        /\ IF Retries(w) THEN UNCHANGED result ELSE InsertResult(j, Failure(mine[w][2]))
        /\ call' = [call EXCEPT ![w] = NoCall]
    BY <1>2 DEF FinishApply
  <1> HIDE DEF j, status
  <1>5. ASSUME OwnedBy(j, w, mine[w][2])
        PROVE  ReleasedTo(j, status) /\ \A k \in Jobs \ {j} : job'[k] = job[k]
    BY <1>3, <1>4, <1>5 DEF OwnedBy, ReleasedTo, Released, Row
  <1>6. ASSUME ~Retries(w)
        PROVE  /\ result'[j] = IF result[j] = NoResult THEN Failure(mine[w][2]) ELSE result[j]
               /\ \A k \in Jobs \ {j} : result'[k] = result[k]
    BY <1>3, <1>4, <1>6 DEF InsertResult
  <1> QED BY <1>2, <1>4, <1>5, <1>6 DEF j, status

\* A recovery releases the rows whose leases have passed, and no other.
LEMMA RecoverEffect ==
  ASSUME SInv, RecoverRows(RecoverLimit, FALSE), NEW k \in Jobs
  PROVE  /\ \/ /\ ReleasedTo(k, RecoveredStatus(k, RecoverLimit))
               /\ result'[k] = IF RecoveredStatus(k, RecoverLimit) = "failed"
                               THEN Failure(0) ELSE result[k]
            \/ job'[k] = job[k] /\ result'[k] = result[k]
         /\ call' = call
  <1>1. job[k] \in Row
    BY TableFacts
  <1>2. CASE k \in Due(FALSE)
    <2>1. /\ Running(k) /\ job'[k] = Released(k, RecoveredStatus(k, RecoverLimit))
          /\ result'[k] = IF RecoveredStatus(k, RecoverLimit) = "failed"
                          THEN Failure(0) ELSE result[k]
          /\ call' = call
      BY <1>2 DEF RecoverRows, Due
    <2>2. /\ Released(k, RecoveredStatus(k, RecoverLimit)).status = RecoveredStatus(k, RecoverLimit)
          /\ Released(k, RecoveredStatus(k, RecoverLimit)).attempts = job[k].attempts
      BY <1>1 DEF Released, Row
    <2> QED BY <2>1, <2>2 DEF ReleasedTo
  <1>3. CASE k \notin Due(FALSE)
    BY <1>3 DEF RecoverRows
  <1> QED BY <1>2, <1>3

-----------------------------------------------------------------------------

\* The call of a loop stays that of its iteration.
LEMMA NextCall == SInv /\ CallIsMine /\ [Next]_vars => CallIsMine'
  <1> SUFFICES ASSUME SInv, CallIsMine, [Next]_vars PROVE CallIsMine'
    OBVIOUS
  <1>1. /\ pc \in [Workers -> {"down", "idle", "handling", "failing", "dead"}]
        /\ mine \in [Workers -> (Jobs \X Nat) \union {NoClaim}]
        /\ call \in [Workers -> Call]
    BY TableFacts DEF SInv, LoopTypeOK
  <1>2. ASSUME NEW w \in Workers, call'[w] = NoCall,
               \A v \in Workers \ {w} :
                 call'[v] = call[v] /\ pc'[v] = pc[v] /\ mine'[v] = mine[v]
        PROVE  CallIsMine'
    BY <1>2 DEF CallIsMine, Retries
  <1>3. ASSUME UNCHANGED <<call, pc, mine>> PROVE CallIsMine'
    BY <1>3 DEF CallIsMine, Retries
  <1>4. ASSUME NEW w \in Workers, LockFree(w), UNCHANGED <<call, mine>>, NEW place,
               pc' = [pc EXCEPT ![w] = place]
        PROVE  CallIsMine'
    BY <1>1, <1>2, <1>4 DEF LockFree
  <1>5. ASSUME NEW j \in Jobs, Submit(j) PROVE CallIsMine'
    BY <1>3, <1>5 DEF Submit, Enqueue, loopVars
  <1>6. ASSUME NEW w \in Workers, Start(w) PROVE CallIsMine'
    <2>1. call[w] = NoCall
      BY <1>6 DEF Start, CallIsMine
    <2> QED BY <1>4, <1>6, <2>1 DEF Start, RecoverRows, LockFree
  <1>7. ASSUME NEW w \in Workers, ClaimNext(w) PROVE CallIsMine'
    <2>1. call[w] = NoCall /\ call' = call
      BY <1>7 DEF ClaimNext, ClaimNextRow, ClaimRow, LockFree
    <2>2. \A v \in Workers \ {w} : pc'[v] = pc[v] /\ mine'[v] = mine[v]
      BY <1>1, <1>7 DEF ClaimNext
    <2> QED BY <1>2, <2>1, <2>2
  <1>8. ASSUME NEW w \in Workers, Beat(w) PROVE CallIsMine'
    BY <1>3, <1>8 DEF Beat, Heartbeat, loopVars
  <1>9. ASSUME NEW w \in Workers, HandlerCompletes(w) PROVE CallIsMine'
    BY <1>3, <1>9 DEF HandlerCompletes, CompleteRow, loopVars
  <1>10. ASSUME NEW w \in Workers, HandlerReturns(w) PROVE CallIsMine'
    BY <1>4, <1>10 DEF HandlerReturns, CompleteRow, EndIteration, Fails, tableVars
  <1>11. ASSUME NEW w \in Workers, HandlerRaises(w) PROVE CallIsMine'
    BY <1>4, <1>11 DEF HandlerRaises, Fails
  <1>12. ASSUME NEW w \in Workers, CallFinish(w) PROVE CallIsMine'
    <2>1. CASE FinishCheck(w, mine[w][1], w, mine[w][2], Retries(w)) /\ UNCHANGED loopVars
      <3>1. call'[w] = [op |-> IF Retries(w) THEN "retry" ELSE "fail",
                        job |-> mine[w][1], worker |-> w, token |-> mine[w][2]]
        BY <1>1, <2>1 DEF FinishCheck
      <3>2. \A v \in Workers \ {w} : call'[v] = call[v]
        BY <1>1, <2>1 DEF FinishCheck
      <3>3. pc[w] = "failing" /\ UNCHANGED <<pc, mine>>
        BY <1>12, <2>1 DEF CallFinish, loopVars
      <3>4. \A v \in Workers : Retries(v)' <=> Retries(v)
        BY <3>3 DEF Retries
      <3> QED
        BY <3>1, <3>2, <3>3, <3>4 DEF CallIsMine
    <2> QED BY <1>4, <1>12, <2>1 DEF CallFinish, EndIteration, Escapes, tableVars
  <1>13. ASSUME NEW w \in Workers, FinishReturns(w) PROVE CallIsMine'
    <2>1. call' = [call EXCEPT ![w] = NoCall]
      BY <1>13 DEF FinishReturns, FinishApply
    <2>2. pc' = [pc EXCEPT ![w] = "idle"] /\ mine' = mine
      BY <1>13 DEF FinishReturns, EndIteration
    <2> QED BY <1>1, <1>2, <2>1, <2>2
  <1>14. ASSUME NEW w \in Workers, Crash(w) PROVE CallIsMine'
    <2>1. call' = [call EXCEPT ![w] = NoCall]
      BY <1>14 DEF Crash, DropCall
    <2>2. pc' = [pc EXCEPT ![w] = "down"] /\ mine' = mine
      BY <1>14 DEF Crash
    <2> QED BY <1>1, <1>2, <2>1, <2>2
  <1>15. ASSUME TimePasses PROVE CallIsMine'
    BY <1>3, <1>15 DEF TimePasses, Tick, loopVars
  <1>16. ASSUME UNCHANGED vars PROVE CallIsMine'
    BY <1>3, <1>16 DEF vars
  <1> QED
    BY <1>5, <1>6, <1>7, <1>8, <1>9, <1>10, <1>11, <1>12, <1>13, <1>14, <1>15, <1>16 DEF Next

\* Whatever a loop does, it does not leave a row it still owns.
LEMMA NextAttended == SInv /\ CallIsMine /\ RunningIsAttended /\ [Next]_vars => RunningIsAttended'
  <1> SUFFICES ASSUME SInv, CallIsMine, RunningIsAttended, [Next]_vars PROVE RunningIsAttended'
    OBVIOUS
  <1> USE DEF Busy
  <1> DEFINE Stays(k) == Running(k)' => /\ Running(k) /\ job'[k].worker = job[k].worker
                                        /\ job'[k].token = job[k].token
             Attends(w, k) == pc[w] \in Busy /\ mine[w] = <<k, job[k].token>>
  <1>1. /\ pc \in [Workers -> {"down", "idle", "handling", "failing", "dead"}]
        /\ mine \in [Workers -> (Jobs \X Nat) \union {NoClaim}]
        /\ crashes \in [Workers -> Nat]
        /\ \A k \in Jobs : Running(k) => job[k].worker \in Workers
    BY WorkersAssumption, TableFacts DEF SInv, LoopTypeOK
  <1>2. \A k \in Jobs : Running(k) => \/ Attends(job[k].worker, k)
                                      \/ crashes[job[k].worker] > 0
    BY DEF RunningIsAttended
  <1>3. ASSUME \A k \in Jobs : Stays(k), NEW w \in Workers, crashes' = crashes,
               \A v \in Workers \ {w} : pc'[v] = pc[v] /\ mine'[v] = mine[v],
               \A k \in Jobs : Running(k)' /\ job[k].worker = w /\ Attends(w, k)
                 => pc'[w] \in Busy /\ mine'[w] = mine[w]
        PROVE  RunningIsAttended'
    BY <1>1, <1>2, <1>3 DEF RunningIsAttended
  <1>4. ASSUME \A k \in Jobs : Stays(k), UNCHANGED <<pc, mine, crashes>>
        PROVE  RunningIsAttended'
    BY <1>1, <1>2, <1>4 DEF RunningIsAttended
  <1> HIDE DEF Attends
  <1>5. (\A k \in Jobs : SameRow(k)) => (\A k \in Jobs : Stays(k))
    BY DEF SameRow, Running
  <1>6. job' = job => (\A k \in Jobs : Stays(k))
    BY DEF Running
  <1>7. ASSUME NEW w \in Workers, ~OwnedBy(mine[w][1], w, mine[w][2]), job' = job,
               pc' = [pc EXCEPT ![w] = pc'[w]], UNCHANGED <<mine, crashes>>
        PROVE  RunningIsAttended'
    <2>1. ASSUME NEW k \in Jobs, Running(k)', job[k].worker = w, Attends(w, k) PROVE FALSE
      BY <1>7, <2>1 DEF OwnedBy, Running, Attends
    <2>2. \A v \in Workers \ {w} : pc'[v] = pc[v] /\ mine'[v] = mine[v]
      BY <1>1, <1>7
    <2> QED BY <1>3, <1>6, <1>7, <2>1, <2>2
  <1>8. ASSUME NEW w \in Workers, NEW status \in {"queued", "completed", "failed"},
               ReleasedTo(mine[w][1], status),
               \A k \in Jobs \ {mine[w][1]} : job'[k] = job[k],
               pc' = [pc EXCEPT ![w] = pc'[w]], UNCHANGED <<mine, crashes>>
        PROVE  RunningIsAttended'
    <2>1. \A k \in Jobs : Stays(k)
      BY <1>8 DEF ReleasedTo, Running
    <2>2. ASSUME NEW k \in Jobs, Running(k)', job[k].worker = w, Attends(w, k) PROVE FALSE
      BY <1>8, <2>2 DEF ReleasedTo, Running, Attends
    <2>3. \A v \in Workers \ {w} : pc'[v] = pc[v] /\ mine'[v] = mine[v]
      BY <1>1, <1>8
    <2> QED BY <1>3, <1>8, <2>1, <2>2, <2>3
  <1> HIDE DEF Stays
  <1>9. ASSUME NEW j \in Jobs, Submit(j) PROVE RunningIsAttended'
    <2>1. \A k \in Jobs : Stays(k)
      BY <1>9, SubmitEffect DEF Submit, Stays, Running
    <2> QED BY <1>4, <1>9, <2>1 DEF Submit, loopVars
  <1>10. ASSUME NEW w \in Workers, Start(w) PROVE RunningIsAttended'
    <2>1. \A k \in Jobs : Stays(k)
      BY <1>10, RecoverEffect DEF Start, Stays, ReleasedTo, RecoveredStatus, Running
    <2>2. \A k \in Jobs : ~Attends(w, k)
      BY <1>10 DEF Start, Attends
    <2>3. \A v \in Workers \ {w} : pc'[v] = pc[v] /\ mine'[v] = mine[v]
      BY <1>1, <1>10 DEF Start
    <2> QED BY <1>3, <1>10, <2>1, <2>2, <2>3 DEF Start
  <1>11. ASSUME NEW w \in Workers, ClaimNext(w) PROVE RunningIsAttended'
    <2>1. PICK j \in Jobs : /\ ClaimNextRow(w, j, MaxAttempts)
                            /\ mine' = [mine EXCEPT ![w] = <<j, job[j].attempts + 1>>]
      BY <1>11 DEF ClaimNext
    <2>2. pc[w] = "idle" /\ pc' = [pc EXCEPT ![w] = "handling"] /\ crashes' = crashes
      BY <1>11 DEF ClaimNext
    <2>3. SUFFICES ASSUME NEW k \in Jobs, Running(k)'
                   PROVE  \/ /\ pc'[job'[k].worker] \in Busy
                             /\ mine'[job'[k].worker] = <<k, job'[k].token>>
                          \/ crashes'[job'[k].worker] > 0
      BY DEF RunningIsAttended
    <2>4. CASE k = j
      BY <1>1, <2>1, <2>2, <2>4, ClaimEffect
    <2>5. CASE k # j
      <3>1. job'[k] = job[k] /\ Running(k)
        BY <2>1, <2>3, <2>5, ClaimEffect DEF Running
      <3>2. CASE job[k].worker = w
        BY <1>2, <2>2, <3>1, <3>2 DEF Attends
      <3>3. CASE job[k].worker # w
        BY <1>1, <1>2, <2>1, <2>2, <3>1, <3>3 DEF Attends
      <3> QED BY <3>2, <3>3
    <2> QED BY <2>4, <2>5
  <1>12. ASSUME NEW w \in Workers, Beat(w) PROVE RunningIsAttended'
    <2>1. \A k \in Jobs : SameRow(k)
      BY <1>12, LeaseEffect DEF Beat
    <2> QED BY <1>4, <1>5, <1>12, <2>1 DEF Beat, loopVars
  <1>13. ASSUME NEW w \in Workers, pc[w] \in Busy, CompleteRow(w, mine[w][1], w, mine[w][2]),
                pc' = [pc EXCEPT ![w] = pc'[w]], UNCHANGED <<mine, crashes>>
         PROVE  RunningIsAttended'
    BY <1>8, <1>13, CompleteEffect
  <1>14. ASSUME NEW w \in Workers, HandlerCompletes(w) PROVE RunningIsAttended'
    BY <1>1, <1>13, <1>14 DEF HandlerCompletes, loopVars
  <1>15. ASSUME NEW w \in Workers, Fails(w), pc[w] \in Busy PROVE RunningIsAttended'
    <2>1. /\ pc'[w] \in Busy /\ mine'[w] = mine[w]
          /\ \A v \in Workers \ {w} : pc'[v] = pc[v] /\ mine'[v] = mine[v]
      BY <1>1, <1>15 DEF Fails
    <2>2. job' = job /\ crashes' = crashes
      BY <1>15 DEF Fails
    <2> QED BY <1>3, <1>6, <2>1, <2>2
  <1>16. ASSUME NEW w \in Workers, HandlerReturns(w) PROVE RunningIsAttended'
    <2>1. CASE CompleteRow(w, mine[w][1], w, mine[w][2]) /\ EndIteration(w, "completed")
      BY <1>1, <1>13, <1>16, <2>1 DEF HandlerReturns, EndIteration
    <2>2. CASE Outcome(w) \in {"existing", "LeaseLostError"} /\ UNCHANGED tableVars
                 /\ \E e : EndIteration(w, e)
      <3>1. ~OwnedBy(mine[w][1], w, mine[w][2])
        BY <2>2 DEF Outcome, CompleteOutcome, OwnedBy, Running
      <3> QED BY <1>1, <1>7, <2>2, <3>1 DEF EndIteration, tableVars
    <2>3. CASE Fails(w)
      BY <1>15, <1>16, <2>3 DEF HandlerReturns
    <2> QED BY <1>16, <2>1, <2>2, <2>3 DEF HandlerReturns
  <1>17. ASSUME NEW w \in Workers, HandlerRaises(w) PROVE RunningIsAttended'
    BY <1>15, <1>17 DEF HandlerRaises
  <1>18. ASSUME NEW w \in Workers, CallFinish(w) PROVE RunningIsAttended'
    <2>1. CASE FinishCheck(w, mine[w][1], w, mine[w][2], Retries(w)) /\ UNCHANGED loopVars
      BY <1>4, <1>6, <2>1 DEF FinishCheck, loopVars
    <2>2. CASE /\ ~OwnedBy(mine[w][1], w, mine[w][2])
               /\ UNCHANGED tableVars /\ EndIteration(w, "lease_lost")
      BY <1>1, <1>7, <2>2 DEF EndIteration, tableVars
    <2>3. CASE ~Running(mine[w][1]) /\ Escapes(w)
      <3>1. ~OwnedBy(mine[w][1], w, mine[w][2])
        BY <2>3 DEF OwnedBy
      <3> QED BY <1>1, <1>7, <2>3, <3>1 DEF Escapes
    <2> QED BY <1>18, <2>1, <2>2, <2>3 DEF CallFinish
  <1>19. ASSUME NEW w \in Workers, FinishReturns(w) PROVE RunningIsAttended'
    <2>1. FinishApply(w) /\ pc' = [pc EXCEPT ![w] = pc'[w]] /\ UNCHANGED <<mine, crashes>>
      BY <1>1, <1>19 DEF FinishReturns, EndIteration
    <2>2. CASE OwnedBy(mine[w][1], w, mine[w][2])
      BY <1>8, <2>1, <2>2, FinishEffect
    <2>3. CASE ~OwnedBy(mine[w][1], w, mine[w][2])
      BY <1>7, <2>1, <2>3, FinishEffect
    <2> QED BY <2>2, <2>3
  <1>20. ASSUME NEW w \in Workers, Crash(w) PROVE RunningIsAttended'
    <2>1. job' = job /\ pc' = [pc EXCEPT ![w] = "down"] /\ mine' = mine
          /\ crashes' = [crashes EXCEPT ![w] = @ + 1]
      BY <1>20 DEF Crash, DropCall
    <2>2. crashes'[w] > 0 /\ \A v \in Workers \ {w} : pc'[v] = pc[v] /\ crashes'[v] = crashes[v]
      BY <1>1, <2>1
    <2>3. SUFFICES ASSUME NEW k \in Jobs, Running(k)
                   PROVE  \/ /\ pc'[job[k].worker] \in Busy
                             /\ mine[job[k].worker] = <<k, job[k].token>>
                          \/ crashes'[job[k].worker] > 0
      BY <2>1 DEF RunningIsAttended, Running
    <2>4. job[k].worker \in Workers
      BY <1>1, <2>3
    <2>5. CASE job[k].worker = w
      BY <2>2, <2>5
    <2>6. CASE job[k].worker # w
      BY <1>2, <2>2, <2>3, <2>4, <2>6 DEF Attends
    <2> QED BY <2>5, <2>6
  <1>21. ASSUME TimePasses PROVE RunningIsAttended'
    BY <1>4, <1>5, <1>21, LeaseEffect DEF TimePasses, loopVars
  <1>22. ASSUME UNCHANGED vars PROVE RunningIsAttended'
    BY <1>4, <1>6, <1>22 DEF vars
  <1> QED
    BY <1>9, <1>10, <1>11, <1>12, <1>14, <1>16, <1>17, <1>18, <1>19, <1>20, <1>21, <1>22
       DEF Next

\* What a loop audited as completed is completed, and stays so.
LEMMA NextAudited ==
  SInv /\ CallIsMine /\ AuditedCompletionIsDurable /\ [Next]_vars => AuditedCompletionIsDurable'
  <1> SUFFICES ASSUME SInv, CallIsMine, AuditedCompletionIsDurable, [Next]_vars
               PROVE  AuditedCompletionIsDurable'
    OBVIOUS
  <1> USE DEF Busy
  <1>1. /\ audit \in [Jobs -> SUBSET Events]
        /\ \A w \in Workers : pc[w] \in Busy => mine[w][1] \in Jobs
    BY TableFacts DEF SInv, LoopTypeOK
  <1> DEFINE Completed(k) == job[k].status = "completed"
             Stays(k) == Completed(k) => Completed(k)'
  <1>2. ASSUME \A k \in Jobs : Stays(k),
               \/ audit' = audit
               \/ \E j \in Jobs, e \in Events :
                    /\ audit' = [audit EXCEPT ![j] = @ \union {e}]
                    /\ e = "completed" => Completed(j)'
        PROVE  AuditedCompletionIsDurable'
    <2>1. SUFFICES ASSUME NEW k \in Jobs, "completed" \in audit'[k] PROVE Completed(k)'
      BY DEF AuditedCompletionIsDurable
    <2>2. CASE "completed" \in audit[k]
      BY <1>2, <2>2 DEF AuditedCompletionIsDurable
    <2>3. CASE "completed" \notin audit[k]
      BY <1>1, <1>2, <2>1, <2>3
    <2> QED BY <2>2, <2>3
  <1>3. job' = job => \A k \in Jobs : Stays(k)
    OBVIOUS
  <1>4. (\A k \in Jobs : SameRow(k)) => \A k \in Jobs : Stays(k)
    BY DEF SameRow
  <1>5. ASSUME NEW w \in Workers, NEW e \in Events, pc[w] \in Busy, EndIteration(w, e),
               \A k \in Jobs : Stays(k), e = "completed" => job'[mine[w][1]].status = "completed"
        PROVE  AuditedCompletionIsDurable'
    BY <1>1, <1>2, <1>5 DEF EndIteration
  <1>6. ASSUME NEW w \in Workers, pc[w] \in Busy, CompleteRow(w, mine[w][1], w, mine[w][2])
        PROVE  (\A k \in Jobs : Stays(k)) /\ job'[mine[w][1]].status = "completed"
    <2>1. /\ job'[mine[w][1]].status = "completed"
          /\ \A k \in Jobs \ {mine[w][1]} : job'[k] = job[k]
      BY <1>6, CompleteEffect DEF ReleasedTo
    <2> QED BY <2>1
  <1> HIDE DEF Stays
  <1>7. ASSUME NEW j \in Jobs, Submit(j) PROVE AuditedCompletionIsDurable'
    BY <1>2, <1>7, SubmitEffect DEF Submit, loopVars, Stays
  <1>8. ASSUME NEW w \in Workers, Start(w) PROVE AuditedCompletionIsDurable'
    <2>1. \A k \in Jobs : Stays(k)
      BY <1>8, RecoverEffect DEF Start, Stays, ReleasedTo, Running
    <2> QED BY <1>2, <1>8, <2>1 DEF Start
  <1>9. ASSUME NEW w \in Workers, ClaimNext(w) PROVE AuditedCompletionIsDurable'
    <2>1. \A k \in Jobs : Stays(k)
      BY <1>9, ClaimEffect DEF ClaimNext, Stays
    <2> QED BY <1>2, <1>9, <2>1 DEF ClaimNext
  <1>10. ASSUME NEW w \in Workers, Beat(w) PROVE AuditedCompletionIsDurable'
    <2>1. \A k \in Jobs : SameRow(k)
      BY <1>10, LeaseEffect DEF Beat
    <2> QED BY <1>2, <1>4, <1>10, <2>1 DEF Beat, loopVars
  <1>11. ASSUME NEW w \in Workers, HandlerCompletes(w) PROVE AuditedCompletionIsDurable'
    BY <1>2, <1>6, <1>11 DEF HandlerCompletes, loopVars
  <1>12. ASSUME NEW w \in Workers, HandlerReturns(w) PROVE AuditedCompletionIsDurable'
    <2>1. CASE CompleteRow(w, mine[w][1], w, mine[w][2]) /\ EndIteration(w, "completed")
      BY <1>5, <1>6, <1>12, <2>1 DEF HandlerReturns, Events
    <2>2. CASE Outcome(w) = "existing" /\ UNCHANGED tableVars /\ EndIteration(w, "completed")
      <3>1. job[mine[w][1]].status = "completed"
        BY <2>2 DEF Outcome, CompleteOutcome
      <3>2. job'[mine[w][1]].status = "completed"
        BY <2>2, <3>1 DEF tableVars
      <3> QED BY <1>3, <1>5, <1>12, <2>2, <3>2 DEF HandlerReturns, Events, tableVars
    <2>3. CASE UNCHANGED tableVars /\ EndIteration(w, "lease_lost")
      BY <1>3, <1>5, <1>12, <2>3 DEF HandlerReturns, Events, tableVars
    <2>4. CASE Fails(w)
      BY <1>2, <1>3, <2>4 DEF Fails
    <2> QED BY <1>12, <2>1, <2>2, <2>3, <2>4 DEF HandlerReturns
  <1>13. ASSUME NEW w \in Workers, HandlerRaises(w) PROVE AuditedCompletionIsDurable'
    BY <1>2, <1>3, <1>13 DEF HandlerRaises, Fails
  <1>14. ASSUME NEW w \in Workers, CallFinish(w) PROVE AuditedCompletionIsDurable'
    <2>1. job' = job
      BY <1>14 DEF CallFinish, FinishCheck, tableVars, Escapes
    <2>2. CASE audit' = audit
      BY <1>2, <1>3, <2>1, <2>2
    <2>3. CASE EndIteration(w, "lease_lost")
      BY <1>3, <1>5, <1>14, <2>1, <2>3 DEF CallFinish, Events
    <2> QED BY <1>14, <2>2, <2>3 DEF CallFinish, loopVars, Escapes
  <1>15. ASSUME NEW w \in Workers, FinishReturns(w) PROVE AuditedCompletionIsDurable'
    <2>1. \A k \in Jobs : Stays(k)
      BY <1>15, FinishEffect DEF FinishReturns, ReleasedTo, Running, Stays
    <2> QED BY <1>5, <1>15, <2>1 DEF FinishReturns, Events
  <1>16. ASSUME NEW w \in Workers, Crash(w) PROVE AuditedCompletionIsDurable'
    BY <1>2, <1>3, <1>16 DEF Crash, DropCall
  <1>17. ASSUME TimePasses PROVE AuditedCompletionIsDurable'
    BY <1>2, <1>4, <1>17, LeaseEffect DEF TimePasses, loopVars
  <1>18. ASSUME UNCHANGED vars PROVE AuditedCompletionIsDurable'
    BY <1>2, <1>3, <1>18 DEF vars
  <1> QED
    BY <1>7, <1>8, <1>9, <1>10, <1>11, <1>12, <1>13, <1>14, <1>15, <1>16, <1>17, <1>18 DEF Next

\* Calls of finish, rows and audits belong to the loops as they should.
LEMMA LoopInvariant == Spec => [](SInv /\ CallIsMine)
  <1>1. Init => CallIsMine
    BY DEF Init, TableInit, CallIsMine
  <1> QED BY <1>1, StoreInvariant, NextCall, PTL DEF Spec

\* No path through run_once, with or without a lost lease, walks away from a row
\* that its loop still owns (runtime.py, run_once), unless the process crashed.
THEOREM RowsAreAttended == Spec => []RunningIsAttended
  <1>1. Init => RunningIsAttended
    BY DEF Init, TableInit, NoRow, RunningIsAttended, Running
  <1> QED BY <1>1, LoopInvariant, NextAttended, PTL DEF Spec

\* What run_once audits as completed is completed for good, although its lease
\* may have been lost and complete returned another attempt's result.
THEOREM AuditedCompletionsStay == Spec => []AuditedCompletionIsDurable
  <1>1. Init => AuditedCompletionIsDurable
    BY DEF Init, AuditedCompletionIsDurable
  <1> QED BY <1>1, LoopInvariant, NextAudited, PTL DEF Spec

-----------------------------------------------------------------------------
(* The budget of attempts *)

\* Recovery gives a row the status that its budget leaves it.
LEMMA RecoveredStatusCases ==
  \A k, n : /\ result[k] # NoResult => RecoveredStatus(k, n) = "completed"
            /\ result[k] = NoResult /\ job[k].attempts >= n => RecoveredStatus(k, n) = "failed"
            /\ result[k] = NoResult /\ ~(job[k].attempts >= n) => RecoveredStatus(k, n) = "queued"
  BY DEF RecoveredStatus

\* What the budget says of one job.
Budget(k) ==
  /\ job[k].attempts <= MaxAttempts
  /\ job[k].status = "failed" => job[k].attempts = MaxAttempts
  /\ job[k].status = "queued" => job[k].attempts < MaxAttempts
  /\ result[k] # NoResult =>
       \/ result[k].kind = "work"
       \/ result[k].kind = "failure" /\ job[k].status = "failed"

\* A step that leaves status, attempts and result of a job alone keeps its
\* budget.
LEMMA BudgetUnchanged ==
  ASSUME NEW k \in Jobs, Budget(k), job'[k].status = job[k].status,
         job'[k].attempts = job[k].attempts, result'[k] = result[k]
  PROVE  Budget(k)'
  BY DEF Budget, NoResult

\* A completion by its owner.
LEMMA CompleteBudget ==
  ASSUME SInv, \A k \in Jobs : Budget(k), NEW w \in Workers, pc[w] \in Busy,
         CompleteRow(w, mine[w][1], w, mine[w][2])
  PROVE  \A k \in Jobs : Budget(k)'
  <1>1. PICK j \in Jobs : j = mine[w][1]
    BY TableFacts
  <1>2. /\ job'[j].status = "completed" /\ job'[j].attempts = job[j].attempts
        /\ job[j].status = "running"
        /\ result'[j] = IF result[j] = NoResult THEN Work(mine[w][2]) ELSE result[j]
        /\ \A k \in Jobs \ {j} : job'[k] = job[k] /\ result'[k] = result[k]
    BY <1>1, CompleteEffect DEF ReleasedTo, Running
  <1>3. Budget(j)'
    BY <1>1, <1>2 DEF Budget, Work, NoResult
  <1>4. ASSUME NEW k \in Jobs \ {j} PROVE Budget(k)'
    BY <1>2, <1>4, BudgetUnchanged
  <1> QED BY <1>3, <1>4

\* A recovery that counts to the budget of the claims.
LEMMA RecoverBudget ==
  ASSUME SInv, RecoverLimit = MaxAttempts, \A k \in Jobs : Budget(k),
         RecoverRows(RecoverLimit, FALSE)
  PROVE  \A k \in Jobs : Budget(k)'
  <1> SUFFICES ASSUME NEW k \in Jobs PROVE Budget(k)'
    OBVIOUS
  <1>1. job[k].attempts \in Nat /\ MaxAttempts \in Nat
    BY WorkersAssumption, TableFacts DEF Row
  <1>2. CASE job'[k] = job[k] /\ result'[k] = result[k]
    BY <1>2, BudgetUnchanged
  <1>3. CASE /\ ReleasedTo(k, RecoveredStatus(k, RecoverLimit))
             /\ result'[k] = IF RecoveredStatus(k, RecoverLimit) = "failed"
                             THEN Failure(0) ELSE result[k]
    <2>1. /\ job'[k].attempts = job[k].attempts /\ job[k].status = "running"
          /\ job'[k].status = RecoveredStatus(k, MaxAttempts)
      BY <1>3 DEF ReleasedTo, Running
    <2>2. CASE result[k] # NoResult
      <3>1. job'[k].status = "completed" /\ result'[k] = result[k]
        BY <1>3, <2>1, <2>2, RecoveredStatusCases
      <3> QED BY <2>1, <3>1 DEF Budget, NoResult
    <2>3. CASE result[k] = NoResult /\ job[k].attempts >= MaxAttempts
      <3>1. job'[k].status = "failed" /\ result'[k] = Failure(0)
        BY <1>3, <2>1, <2>3, RecoveredStatusCases
      <3> QED BY <1>1, <2>1, <2>3, <3>1 DEF Budget, Failure, NoResult
    <2>4. CASE result[k] = NoResult /\ ~(job[k].attempts >= MaxAttempts)
      <3>1. job'[k].status = "queued" /\ result'[k] = NoResult
        BY <1>3, <2>1, <2>4, RecoveredStatusCases
      <3> QED BY <1>1, <2>1, <2>4, <3>1 DEF Budget, NoResult
    <2> QED BY <2>2, <2>3, <2>4
  <1> QED BY <1>2, <1>3, RecoverEffect

\* A finish that writes.  If its row was lost meanwhile, a terminal failure still
\* inserts its result; but then the attempt was the last, and nobody can have
\* claimed the row since.
LEMMA FinishBudget ==
  ASSUME SInv, CallIsMine, \A k \in Jobs : Budget(k), NEW w \in Workers, FinishApply(w)
  PROVE  \A k \in Jobs : Budget(k)'
  <1>1. pc[w] \in Busy
    BY FinishEffect DEF Busy
  <1>2. PICK j \in Jobs, t \in Nat : mine[w][1] = j /\ mine[w][2] = t
    BY <1>1, TableFacts
  <1>3. /\ t > 0 /\ t <= job[j].attempts /\ job[j].attempts \in Nat
        /\ MaxAttempts \in Nat
        /\ Running(j) => job[j].token = job[j].attempts
        /\ Running(j) /\ job[j].token = t => job[j].worker = w
        /\ job[j].status = "absent" => job[j].attempts = 0
        /\ job[j].status \in Terminal => result[j] # NoResult
        /\ job[j].status \in Statuses
    BY <1>1, <1>2, TableFacts, WorkersAssumption DEF Row
  <1>4. /\ IF OwnedBy(j, w, t)
           THEN /\ ReleasedTo(j, IF Retries(w) THEN "queued" ELSE "failed")
                /\ \A k \in Jobs \ {j} : job'[k] = job[k]
           ELSE job' = job
        /\ IF Retries(w) THEN result' = result
           ELSE /\ result'[j] = IF result[j] = NoResult THEN Failure(t) ELSE result[j]
                /\ \A k \in Jobs \ {j} : result'[k] = result[k]
    BY <1>2, FinishEffect
  <1>5. Retries(w) <=> t < MaxAttempts
    BY <1>2 DEF Retries
  <1>6. ASSUME NEW k \in Jobs \ {j} PROVE Budget(k)'
    <2>1. job'[k] = job[k] /\ result'[k] = result[k]
      BY <1>4, <1>6
    <2> QED BY <1>6, <2>1, BudgetUnchanged
  <1>7. Budget(j)
    BY <1>3
  <1>8. ASSUME OwnedBy(j, w, t) PROVE Budget(j)'
    <2>1. job[j].status = "running" /\ job[j].attempts = t
      BY <1>3, <1>8 DEF OwnedBy, Running
    <2>2. job'[j].attempts = t
      BY <1>4, <1>8, <2>1 DEF ReleasedTo
    <2>3. result[j] # NoResult => result[j].kind = "work"
      BY <1>7, <2>1 DEF Budget
    <2>4. CASE Retries(w)
      <3>1. job'[j].status = "queued" /\ result'[j] = result[j]
        BY <1>4, <1>8, <2>4 DEF ReleasedTo
      <3> QED BY <1>3, <1>5, <2>2, <2>3, <2>4, <3>1 DEF Budget, NoResult
    <2>5. CASE ~Retries(w)
      <3>1. /\ job'[j].status = "failed"
            /\ result'[j] = IF result[j] = NoResult THEN Failure(t) ELSE result[j]
        BY <1>4, <1>8, <2>5 DEF ReleasedTo
      <3>2. t = MaxAttempts
        BY <1>3, <1>5, <1>7, <2>1, <2>5 DEF Budget
      <3> QED BY <1>3, <2>2, <2>3, <3>1, <3>2 DEF Budget, Failure, NoResult
    <2> QED BY <2>4, <2>5
  <1>9. ASSUME ~OwnedBy(j, w, t) PROVE Budget(j)'
    <2>1. job' = job
      BY <1>4, <1>9
    <2>2. CASE Retries(w)
      BY <1>3, <1>4, <1>7, <2>1, <2>2, BudgetUnchanged
    <2>3. CASE ~Retries(w)
      <3>1. job[j].attempts = MaxAttempts /\ t = MaxAttempts
        BY <1>3, <1>5, <1>7, <2>3 DEF Budget
      <3>2. ~Running(j)
        BY <1>3, <1>9, <3>1 DEF OwnedBy
      <3>3. job[j].status \in Terminal
        BY <1>3, <1>7, <3>1, <3>2 DEF Budget, Statuses, Running
      <3>4. result'[j] = result[j]
        BY <1>3, <1>4, <2>3, <3>3
      <3> QED BY <1>3, <1>7, <2>1, <3>4, BudgetUnchanged
    <2> QED BY <2>2, <2>3
  <1> QED BY <1>6, <1>8, <1>9

\* Every step keeps the budget, when recoveries count to the same budget as
\* claims.
LEMMA NextBudget ==
  ASSUME RecoverLimit = MaxAttempts
  PROVE  SInv /\ CallIsMine /\ (\A k \in Jobs : Budget(k)) /\ [Next]_vars
           => (\A k \in Jobs : Budget(k))'
  <1> SUFFICES ASSUME SInv, CallIsMine, \A k \in Jobs : Budget(k), [Next]_vars
               PROVE  \A k \in Jobs : Budget(k)'
    OBVIOUS
  <1> USE DEF Busy
  <1>1. MaxAttempts \in Nat /\ \A k \in Jobs : job[k].attempts \in Nat
    BY WorkersAssumption, TableFacts DEF Row
  <1>2. ASSUME UNCHANGED <<job, result>> PROVE \A k \in Jobs : Budget(k)'
    BY <1>2, BudgetUnchanged
  <1>3. ASSUME \A k \in Jobs : SameRow(k), result' = result PROVE \A k \in Jobs : Budget(k)'
    BY <1>3, BudgetUnchanged DEF SameRow
  <1>4. ASSUME NEW j \in Jobs, Submit(j) PROVE \A k \in Jobs : Budget(k)'
    <2>1. /\ job[j].status = "absent" /\ job'[j].status = "queued"
          /\ job'[j].attempts = job[j].attempts
          /\ \A k \in Jobs \ {j} : job'[k] = job[k]
          /\ result' = result
      BY <1>4, SubmitEffect DEF Submit
    <2>2. job[j].attempts = 0 /\ 0 < MaxAttempts
      BY <2>1, TableFacts, WorkersAssumption
    <2>3. Budget(j)'
      BY <1>1, <2>1, <2>2 DEF Budget, NoResult
    <2>4. ASSUME NEW k \in Jobs \ {j} PROVE Budget(k)'
      BY <2>1, BudgetUnchanged
    <2> QED BY <2>3, <2>4
  <1>5. ASSUME NEW w \in Workers, Start(w) PROVE \A k \in Jobs : Budget(k)'
    BY <1>5, RecoverBudget DEF Start
  <1>6. ASSUME NEW w \in Workers, ClaimNext(w) PROVE \A k \in Jobs : Budget(k)'
    <2>1. PICK j \in Jobs : ClaimNextRow(w, j, MaxAttempts)
      BY <1>6 DEF ClaimNext
    <2>2. /\ job[j].status = "queued" /\ job[j].attempts < MaxAttempts
          /\ job'[j].status = "running" /\ job'[j].attempts = job[j].attempts + 1
          /\ \A k \in Jobs \ {j} : job'[k] = job[k]
          /\ result' = result
      BY <2>1, ClaimEffect
    <2>3. Budget(j)'
      BY <1>1, <2>2 DEF Budget, NoResult
    <2>4. ASSUME NEW k \in Jobs \ {j} PROVE Budget(k)'
      BY <2>2, BudgetUnchanged
    <2> QED BY <2>3, <2>4
  <1>7. ASSUME NEW w \in Workers, Beat(w) PROVE \A k \in Jobs : Budget(k)'
    <2>1. (\A k \in Jobs : SameRow(k)) /\ result' = result
      BY <1>7, LeaseEffect DEF Beat
    <2> QED BY <1>3, <2>1
  <1>8. ASSUME NEW w \in Workers, HandlerCompletes(w) PROVE \A k \in Jobs : Budget(k)'
    BY <1>8, CompleteBudget DEF HandlerCompletes
  <1>9. ASSUME NEW w \in Workers, HandlerReturns(w) PROVE \A k \in Jobs : Budget(k)'
    <2>1. CASE CompleteRow(w, mine[w][1], w, mine[w][2])
      BY <1>9, <2>1, CompleteBudget DEF HandlerReturns
    <2>2. CASE UNCHANGED <<job, result>>
      BY <1>2, <2>2
    <2> QED BY <1>9, <2>1, <2>2 DEF HandlerReturns, Fails, tableVars
  <1>10. ASSUME NEW w \in Workers, HandlerRaises(w) PROVE \A k \in Jobs : Budget(k)'
    BY <1>2, <1>10 DEF HandlerRaises, Fails
  <1>11. ASSUME NEW w \in Workers, CallFinish(w) PROVE \A k \in Jobs : Budget(k)'
    BY <1>2, <1>11 DEF CallFinish, FinishCheck, tableVars, Escapes
  <1>12. ASSUME NEW w \in Workers, FinishReturns(w) PROVE \A k \in Jobs : Budget(k)'
    BY <1>12, FinishBudget DEF FinishReturns
  <1>13. ASSUME NEW w \in Workers, Crash(w) PROVE \A k \in Jobs : Budget(k)'
    BY <1>2, <1>13 DEF Crash, DropCall
  <1>14. ASSUME TimePasses PROVE \A k \in Jobs : Budget(k)'
    BY <1>3, <1>14, LeaseEffect DEF TimePasses
  <1>15. ASSUME UNCHANGED vars PROVE \A k \in Jobs : Budget(k)'
    BY <1>2, <1>15 DEF vars
  <1> QED
    BY <1>4, <1>5, <1>6, <1>7, <1>8, <1>9, <1>10, <1>11, <1>12, <1>13, <1>14, <1>15 DEF Next

\* The budget of every job holds along the loops.
LEMMA BudgetInvariant ==
  ASSUME RecoverLimit = MaxAttempts
  PROVE  Spec => [](SInv /\ \A k \in Jobs : Budget(k))
  <1>1. Init => \A k \in Jobs : Budget(k)
    BY WorkersAssumption DEF Init, TableInit, NoRow, NoResult, Budget
  <1>2. SInv /\ CallIsMine /\ (\A k \in Jobs : Budget(k)) /\ [Next]_vars
          => (\A k \in Jobs : Budget(k))'
    BY NextBudget
  <1> QED BY <1>1, <1>2, LoopInvariant, PTL DEF Spec

\* Recoveries, late failures and retries keep a job's budget, provided that the
\* start-up recovery is called with the budget of the claims (runtime.py
\* passes config.max_attempts to both).
THEOREM BudgetStays ==
  ASSUME RecoverLimit = MaxAttempts
  PROVE  Spec => []BudgetIsKept
  <1>1. (\A k \in Jobs : Budget(k)) => BudgetIsKept
    BY DEF Budget, BudgetIsKept
  <1> QED BY <1>1, BudgetInvariant, PTL

\* Under the same condition a completed job has the result of a run: what the
\* store alone does not promise, its worker loops do.
THEOREM SuccessIsNotInvented ==
  ASSUME RecoverLimit = MaxAttempts
  PROVE  Spec => []NoInventedSuccess
  <1>1. SInv /\ (\A k \in Jobs : Budget(k)) => NoInventedSuccess
    <2> SUFFICES ASSUME SInv, \A k \in Jobs : Budget(k), NEW j \in Jobs,
                        job[j].status = "completed"
                 PROVE  result[j].kind = "work"
      BY DEF NoInventedSuccess
    <2>1. result[j] # NoResult
      BY TableFacts DEF Terminal
    <2> QED BY <2>1 DEF Budget
  <1> QED BY <1>1, BudgetInvariant, PTL

-----------------------------------------------------------------------------
(* The loop of AurelixSystem in the server: SystemLifecycle *)

ThreadPlaces == {"ended", "start", "clear", "mark", "announce", "check", "tick", "work",
                 "stop", "unset"}
LifespanPlaces == {"down", "serving", "stop", "unset", "join"}

AtOK ==
  /\ at \in [Threads \union {Lifespan} -> ThreadPlaces \union LifespanPlaces]
  /\ \A t \in Threads : at[t] \in ThreadPlaces
  /\ at[Lifespan] \in LifespanPlaces

FlagsOK ==
  /\ stop \in BOOLEAN /\ started \in BOOLEAN /\ due \in BOOLEAN
  /\ thread \in Threads \union {NoThread}

CountsOK ==
  /\ left \in [Threads -> 0..MaxJobsPerTick]
  /\ late \in [Threads -> Nat]
  /\ pending \in Nat /\ cycles \in Nat
  /\ periods \in 1..MaxPeriods
  /\ faults \in 0..MaxFaults

\* What is owed is a job for a schedule that has come due.
Owed == IF due THEN 1 ELSE 0

\* Every job that the schedule queued is one of its times or of a call that
\* raised, and what waits was queued by a request or by the schedule.
Accounts ==
  /\ cycles + Owed <= periods + faults
  /\ pending <= MaxPending + cycles

\* stop finds no late job, a thread that was let into its tick has run none,
\* and while it works those it ran and those it may run are one tick's.
LateIsCounted ==
  /\ ~stop => \A t \in Threads : late[t] = 0
  /\ \A t \in Threads :
       /\ at[t] = "tick" => late[t] = 0
       /\ at[t] = "work" => late[t] + left[t] <= MaxJobsPerTick
       /\ late[t] <= MaxJobsPerTick

LifeInv == AtOK /\ FlagsOK /\ CountsOK /\ Accounts /\ LateIsCounted

\* An actor that goes somewhere leaves the others where they are.
LEMMA ActorGoes ==
  ASSUME AtOK, NEW a \in Threads \union {Lifespan}, NEW where, Goes(a, where),
         \/ a \in Threads /\ a # Lifespan /\ where \in ThreadPlaces
         \/ a \notin Threads /\ a = Lifespan /\ where \in LifespanPlaces
  PROVE  /\ AtOK'
         /\ at'[a] = where
         /\ \A b \in Threads \union {Lifespan} : b # a => at'[b] = at[b]
  BY DEF AtOK, Goes

\* A call that can raise is counted when it does.
LEMMA ActorMayRaise ==
  ASSUME AtOK, faults \in 0..MaxFaults, MaxFaults \in Nat,
         NEW a \in Threads \union {Lifespan}, NEW normal, NEW raised,
         MayRaise(a, normal, raised),
         \/ a \in Threads /\ a # Lifespan /\ {normal, raised} \subseteq ThreadPlaces
         \/ a \notin Threads /\ a = Lifespan /\ {normal, raised} \subseteq LifespanPlaces
  PROVE  /\ AtOK'
         /\ at'[a] \in {normal, raised}
         /\ \A b \in Threads \union {Lifespan} : b # a => at'[b] = at[b]
         /\ faults' \in 0..MaxFaults
         /\ faults' = faults \/ faults' = faults + 1
  <1>1. CASE Goes(a, normal) /\ UNCHANGED faults
    BY <1>1, ActorGoes
  <1>2. CASE faults < MaxFaults /\ faults' = faults + 1 /\ Goes(a, raised)
    <2>1. faults' \in 0..MaxFaults
      BY <1>2
    <2> QED BY <1>2, <2>1, ActorGoes
  <1> QED BY <1>1, <1>2 DEF MayRaise

\* Steps that begin no tick and no job leave the count of late jobs alone; stop
\* may be set at any of them.
LEMMA LateStays ==
  ASSUME LateIsCounted, UNCHANGED <<late, left>>, stop' = stop \/ stop',
         \A t \in Threads : at'[t] \in {"tick", "work"} => at'[t] = at[t]
  PROVE  LateIsCounted'
  BY DEF LateIsCounted

\* The accounts stand while the schedule's variables do and faults only grow.
LEMMA AccountsStand ==
  ASSUME Accounts, CountsOK,
         UNCHANGED <<due, periods, cycles, pending>>,
         faults' = faults \/ faults' = faults + 1
  PROVE  Accounts'
  <1>1. Owed' = Owed /\ Owed \in {0, 1}
    BY DEF Owed
  <1> QED BY <1>1, LifecycleAssumption DEF Accounts, CountsOK

\* The lifespan's steps.
LEMMA LifespanSteps ==
  ASSUME LifeInv,
         Enter \/ SubmitJob \/ Exit \/ Join \/ ComesDue
  PROVE  LifeInv'
  <1> USE LifecycleAssumption DEF LifeInv
  <1>1. CASE Enter
    <2>1. /\ at[Lifespan] = "down"
          /\ UNCHANGED <<stop, started, left, pending, periods, cycles, late, faults>>
          /\ due' = due
      BY <1>1 DEF Enter, Scheduled, flags
    <2>2. CASE Goes(Lifespan, "serving") /\ UNCHANGED thread
      <3>1. AtOK' /\ \A t \in Threads : at'[t] = at[t]
        BY <2>2, ActorGoes DEF LifespanPlaces
      <3> QED BY <2>1, <2>2, <3>1, LateStays, AccountsStand DEF FlagsOK, CountsOK
    <2>3. ASSUME NEW t \in Threads, at[t] = "ended", thread' = t,
                 at' = [at EXCEPT ![Lifespan] = "serving", ![t] = "start"]
          PROVE  LifeInv'
      <3>1. AtOK' /\ at'[t] = "start" /\ \A u \in Threads : u # t => at'[u] = at[u]
        BY <2>3 DEF AtOK, ThreadPlaces, LifespanPlaces
      <3>2. LateIsCounted'
        BY <2>1, <3>1, LateStays
      <3> QED BY <2>1, <2>3, <3>1, <3>2, AccountsStand DEF FlagsOK, CountsOK
    <2> QED BY <1>1, <2>2, <2>3 DEF Enter
  <1>2. CASE SubmitJob
    <2>1. /\ pending < MaxPending /\ pending' = pending + 1
          /\ UNCHANGED <<at, stop, started, thread, due, left, periods, cycles, late, faults>>
      BY <1>2 DEF SubmitJob, flags
    <2>2. Accounts'
      BY <2>1 DEF Accounts, Owed, CountsOK
    <2> QED BY <2>1, <2>2, LateStays DEF AtOK, FlagsOK, CountsOK
  <1>3. CASE Exit
    <2>1. Goes(Lifespan, "stop")
          /\ UNCHANGED <<stop, started, thread, due, left, pending, periods, cycles, late, faults>>
      BY <1>3 DEF Exit, flags, work
    <2>2. AtOK' /\ \A t \in Threads : at'[t] = at[t]
      BY <2>1, ActorGoes DEF LifespanPlaces
    <2> QED BY <2>1, <2>2, LateStays, AccountsStand DEF FlagsOK, CountsOK
  <1>4. CASE Join
    <2>1. /\ Goes(Lifespan, "down") /\ thread' = NoThread
          /\ UNCHANGED <<stop, started, due, left, pending, periods, cycles, late, faults>>
      BY <1>4 DEF Join, flags, work
    <2>2. AtOK' /\ \A t \in Threads : at'[t] = at[t]
      BY <2>1, ActorGoes DEF LifespanPlaces
    <2> QED BY <2>1, <2>2, LateStays, AccountsStand DEF FlagsOK, CountsOK
  <1>5. CASE ComesDue
    <2>1. /\ ~due /\ periods < MaxPeriods /\ due' = TRUE /\ periods' = periods + 1
          /\ UNCHANGED <<at, stop, started, thread, left, pending, cycles, late, faults>>
      BY <1>5 DEF ComesDue, flags
    <2>2. Accounts'
      BY <2>1 DEF Accounts, Owed, CountsOK
    <2>3. CountsOK'
      BY <2>1 DEF CountsOK
    <2> QED BY <2>1, <2>2, <2>3, LateStays DEF AtOK, FlagsOK
  <1> QED BY <1>1, <1>2, <1>3, <1>4, <1>5

\* stop, of the lifespan or of a thread.
LEMMA StopSteps ==
  ASSUME LifeInv, NEW a \in Actors, Stops(a)
  PROVE  LifeInv'
  <1> USE LifecycleAssumption DEF LifeInv
  <1>1. /\ a \in Threads \union {Lifespan}
        /\ \/ a \in Threads /\ a # Lifespan
           \/ a \notin Threads /\ a = Lifespan
    BY DEF Actors
  <1>2. /\ a = Lifespan => {"unset", Stopped(a), StopRaised(a)} \subseteq LifespanPlaces
        /\ a # Lifespan => {"unset", Stopped(a), StopRaised(a)} \subseteq ThreadPlaces
        /\ {"unset", Stopped(a), StopRaised(a)} \intersect {"tick", "work"} = {}
    BY DEF Stopped, StopRaised, LifespanPlaces, ThreadPlaces
  <1>3. CASE StopBegins(a)
    <2>1. /\ stop' = stop \/ stop'
          /\ stop' \in BOOLEAN
          /\ UNCHANGED <<started, thread, due, left, pending, periods, cycles, late, faults>>
      BY <1>3 DEF StopBegins, work, FlagsOK
    <2>2. PICK where \in {"unset", Stopped(a)} : Goes(a, where)
      BY <1>3 DEF StopBegins
    <2>3. AtOK' /\ at'[a] = where /\ \A t \in Threads : t # a => at'[t] = at[t]
      BY <1>1, <1>2, <2>2, ActorGoes
    <2>4. LateIsCounted'
      BY <1>2, <2>1, <2>3, LateStays
    <2> QED BY <2>1, <2>3, <2>4, AccountsStand DEF FlagsOK, CountsOK
  <1>4. CASE StopEnds(a)
    <2>1. /\ started' = FALSE /\ MayRaise(a, Stopped(a), StopRaised(a))
          /\ UNCHANGED <<stop, thread, due, left, pending, periods, cycles, late>>
      BY <1>4 DEF StopEnds, work
    <2>2. /\ AtOK' /\ at'[a] \in {Stopped(a), StopRaised(a)}
          /\ \A t \in Threads : t # a => at'[t] = at[t]
          /\ faults' \in 0..MaxFaults
          /\ faults' = faults \/ faults' = faults + 1
      BY <1>1, <1>2, <2>1, ActorMayRaise DEF CountsOK
    <2>3. LateIsCounted'
      BY <1>2, <2>1, <2>2, LateStays
    <2> QED BY <2>1, <2>2, <2>3, AccountsStand DEF FlagsOK, CountsOK
  <1> QED BY <1>3, <1>4 DEF Stops

\* A start: it clears the event with the counts of late jobs.
LEMMA StartSteps ==
  ASSUME LifeInv, NEW t \in Threads, Starts(t)
  PROVE  LifeInv'
  <1> USE LifecycleAssumption DEF LifeInv
  <1>1. t # Lifespan /\ t \in Threads \union {Lifespan}
    OBVIOUS
  <1>2. CASE StartChecks(t)
    <2>1. UNCHANGED <<stop, started, thread, due, left, pending, periods, cycles, late>>
      BY <1>2 DEF StartChecks, flags, work
    <2>2. /\ AtOK' /\ at'[t] \in {"check", "clear", "ended"}
          /\ \A u \in Threads : u # t => at'[u] = at[u]
          /\ faults' \in 0..MaxFaults
          /\ faults' = faults \/ faults' = faults + 1
      <3>1. CASE Goes(t, "check") /\ UNCHANGED faults
        BY <1>1, <3>1, ActorGoes DEF ThreadPlaces, CountsOK
      <3>2. CASE MayRaise(t, "clear", "ended")
        BY <1>1, <3>2, ActorMayRaise DEF ThreadPlaces, CountsOK
      <3> QED BY <1>2, <3>1, <3>2 DEF StartChecks
    <2>3. LateIsCounted'
      BY <2>1, <2>2, LateStays
    <2> QED BY <2>1, <2>2, <2>3, AccountsStand DEF FlagsOK, CountsOK
  <1>3. CASE StartClears(t)
    <2>1. /\ Goes(t, "mark") /\ stop' = FALSE /\ late' = [u \in Threads |-> 0]
          /\ UNCHANGED <<started, thread, due, left, pending, periods, cycles, faults>>
      BY <1>3 DEF StartClears
    <2>2. AtOK' /\ at'[t] = "mark" /\ \A u \in Threads : u # t => at'[u] = at[u]
      BY <1>1, <2>1, ActorGoes DEF ThreadPlaces
    <2>3. ASSUME NEW u \in Threads PROVE late'[u] = 0 /\ left'[u] \in 0..MaxJobsPerTick
      BY <2>1 DEF CountsOK
    <2>4. LateIsCounted'
      BY <2>3 DEF LateIsCounted
    <2> QED BY <2>1, <2>2, <2>4, AccountsStand DEF FlagsOK, CountsOK
  <1>4. CASE StartMarks(t)
    <2>1. /\ Goes(t, "announce") /\ started' = TRUE
          /\ UNCHANGED <<stop, thread, due, left, pending, periods, cycles, late, faults>>
      BY <1>4 DEF StartMarks, work
    <2>2. AtOK' /\ at'[t] = "announce" /\ \A u \in Threads : u # t => at'[u] = at[u]
      BY <1>1, <2>1, ActorGoes DEF ThreadPlaces
    <2>3. LateIsCounted'
      BY <2>1, <2>2, LateStays
    <2> QED BY <2>1, <2>2, <2>3, AccountsStand DEF FlagsOK, CountsOK
  <1>5. CASE Announce(t)
    <2>1. /\ MayRaise(t, "check", "ended")
          /\ UNCHANGED <<stop, started, thread, due, left, pending, periods, cycles, late>>
      BY <1>5 DEF Announce, flags, work
    <2>2. /\ AtOK' /\ at'[t] \in {"check", "ended"}
          /\ \A u \in Threads : u # t => at'[u] = at[u]
          /\ faults' \in 0..MaxFaults
          /\ faults' = faults \/ faults' = faults + 1
      BY <1>1, <2>1, ActorMayRaise DEF ThreadPlaces, CountsOK
    <2>3. LateIsCounted'
      BY <2>1, <2>2, LateStays
    <2> QED BY <2>1, <2>2, <2>3, AccountsStand DEF FlagsOK, CountsOK
  <1> QED BY <1>2, <1>3, <1>4, <1>5 DEF Starts

\* A thread's step of its loop that queues and runs nothing.
LEMMA QuietLoopSteps ==
  ASSUME LifeInv, NEW t \in Threads,
         CheckStop(t) \/ TickRaises(t) \/ EndTick(t)
  PROVE  LifeInv'
  <1> USE LifecycleAssumption DEF LifeInv
  <1>1. PICK where \in {"check", "stop", "tick"} :
          Goes(t, where) /\ (where = "tick" => ~stop)
    BY DEF CheckStop, TickRaises, EndTick
  <1>2. UNCHANGED <<stop, started, thread, due, left, pending, periods, cycles, late, faults>>
    BY DEF CheckStop, TickRaises, EndTick, flags, work
  <1>3. AtOK' /\ at'[t] = where /\ \A u \in Threads : u # t => at'[u] = at[u]
    BY <1>1, ActorGoes DEF ThreadPlaces
  <1>4. LateIsCounted'
    BY <1>1, <1>2, <1>3 DEF LateIsCounted
  <1> QED BY <1>2, <1>3, <1>4, AccountsStand DEF FlagsOK, CountsOK

\* What was allowed with fewer faults is allowed with more.
LEMMA MoreFaultsAllowed ==
  ASSUME NEW c \in Nat, NEW p \in Nat, NEW f \in Nat, NEW g \in Nat,
         c + 1 <= p + f, f <= g
  PROVE  c + 1 <= p + g
  OBVIOUS

\* The schedule queues what it owes, or a call that raises is counted.
LEMMA EnqueueDueStep ==
  ASSUME LifeInv, NEW t \in Threads, EnqueueDue(t)
  PROVE  LifeInv'
  <1> USE LifecycleAssumption DEF LifeInv
  <1>1. /\ at[t] = "tick"
        /\ left' = [left EXCEPT ![t] = MaxJobsPerTick]
        /\ UNCHANGED <<stop, started, thread, periods, late>>
    BY DEF EnqueueDue, Ready, flags
  <1>2. \/ ~due /\ Goes(t, "work") /\ UNCHANGED <<due, pending, cycles, faults>>
        \/ /\ due /\ due' = FALSE
           /\ pending' = pending + 1 /\ cycles' = cycles + 1
           /\ MayRaise(t, "work", "stop")
        \/ /\ due /\ due' = due
           /\ Goes(t, "stop") /\ faults < MaxFaults /\ faults' = faults + 1
           /\ \/ pending' = pending + 1 /\ cycles' = cycles + 1
              \/ UNCHANGED <<pending, cycles>>
    BY DEF EnqueueDue
  <1>3. /\ AtOK' /\ at'[t] \in {"work", "stop"}
        /\ \A u \in Threads : u # t => at'[u] = at[u]
        /\ faults' \in 0..MaxFaults
        /\ faults' = faults \/ faults' = faults + 1
    BY <1>2, ActorGoes, ActorMayRaise DEF ThreadPlaces, CountsOK
  <1>4. FlagsOK'
    BY <1>1, <1>2, Zenon DEF FlagsOK
  <1>5. CountsOK'
    BY <1>1, <1>2, <1>3 DEF CountsOK
  <1>6. Accounts'
    <2>1. CASE ~due /\ UNCHANGED <<due, pending, cycles, faults>>
      BY <1>1, <2>1, AccountsStand
    <2>2. CASE /\ due /\ due' = FALSE
               /\ pending' = pending + 1 /\ cycles' = cycles + 1
      <3>1. Owed = 1 /\ Owed' = 0
        BY <2>2 DEF Owed
      <3>2. /\ cycles \in Nat /\ faults \in Nat /\ periods \in Nat /\ pending \in Nat
            /\ periods' = periods /\ cycles' = cycles + 1 /\ pending' = pending + 1
        BY <1>1, <2>2 DEF CountsOK
      <3>3. PICK raised \in Nat : raised = faults' /\ (raised = faults \/ raised = faults + 1)
        BY <1>3, <3>2
      <3>6. cycles + 1 <= periods + faults
        BY <3>1 DEF Accounts
      <3>7. faults <= raised
        BY <3>2, <3>3
      <3>8. cycles + 1 <= periods + raised
        BY <3>2, <3>3, <3>6, <3>7, MoreFaultsAllowed
      <3>4. cycles + 1 + 0 <= periods + raised
        <4> PICK c \in Nat : c = cycles + 1
          BY <3>2
        <4>1. c + 0 = c
          OBVIOUS
        <4> QED BY <3>8, <4>1
      <3>5. pending + 1 <= MaxPending + (cycles + 1)
        BY <3>2 DEF Accounts
      <3> QED BY <3>1, <3>2, <3>3, <3>4, <3>5, Zenon DEF Accounts
    <2>3. CASE /\ due /\ due' = due /\ faults' = faults + 1
               /\ \/ pending' = pending + 1 /\ cycles' = cycles + 1
                  \/ UNCHANGED <<pending, cycles>>
      <3>1. Owed = 1 /\ Owed' = 1
        BY <2>3 DEF Owed
      <3>2. /\ cycles \in Nat /\ faults \in Nat /\ periods \in Nat /\ pending \in Nat
            /\ periods' = periods
        BY <1>1 DEF CountsOK
      <3> QED BY <2>3, <3>1, <3>2 DEF Accounts
    <2> QED BY <1>2, <2>1, <2>2, <2>3
  <1>7. LateIsCounted'
    <2>1. late[t] = 0 /\ left'[t] = MaxJobsPerTick /\ \A u \in Threads : u # t => left'[u] = left[u]
      BY <1>1 DEF LateIsCounted, CountsOK
    <2> QED BY <1>1, <1>3, <2>1 DEF LateIsCounted, CountsOK
  <1> QED BY <1>3, <1>4, <1>5, <1>6, <1>7

\* A job that is late is one that the tick may no longer run.
LEMMA RunJobStep ==
  ASSUME LifeInv, NEW t \in Threads, RunJob(t)
  PROVE  LifeInv'
  <1> USE LifecycleAssumption DEF LifeInv
  <1>1. /\ at[t] = "work" /\ left[t] > 0 /\ pending > 0
        /\ pending' = pending - 1
        /\ left' = [left EXCEPT ![t] = left[t] - 1]
        /\ late' = IF stop THEN [late EXCEPT ![t] = @ + 1] ELSE late
        /\ MayRaise(t, "work", "stop")
        /\ UNCHANGED <<stop, started, thread, due, periods, cycles>>
    BY DEF RunJob, Rest, flags
  <1>2. /\ AtOK' /\ at'[t] \in {"work", "stop"}
        /\ \A u \in Threads : u # t => at'[u] = at[u]
        /\ faults' \in 0..MaxFaults
        /\ faults' = faults \/ faults' = faults + 1
    BY <1>1, ActorMayRaise DEF ThreadPlaces, CountsOK
  <1>3. /\ left'[t] = left[t] - 1
        /\ late'[t] = IF stop THEN late[t] + 1 ELSE late[t]
        /\ \A u \in Threads : u # t => left'[u] = left[u] /\ late'[u] = late[u]
    BY <1>1 DEF CountsOK
  <1>4. left[t] \in 0..MaxJobsPerTick /\ late[t] \in Nat
    BY DEF CountsOK
  <1>5. CountsOK'
    BY <1>1, <1>2, <1>3, <1>4 DEF CountsOK
  <1>6. Accounts'
    <2>1. Owed' = Owed /\ Owed \in {0, 1}
      BY <1>1 DEF Owed
    <2>2. /\ pending' = pending - 1 /\ pending \in Nat
          /\ UNCHANGED <<periods, cycles>>
          /\ faults' = faults \/ faults' = faults + 1
          /\ periods \in Nat /\ cycles \in Nat /\ faults \in Nat
      BY <1>1, <1>2 DEF CountsOK
    <2> QED BY <2>1, <2>2 DEF Accounts
  <1>7. LateIsCounted'
    <2>1. ~stop => late'[t] = 0
      BY <1>3 DEF LateIsCounted
    <2>2. late'[t] + left'[t] <= MaxJobsPerTick /\ late'[t] <= MaxJobsPerTick
      BY <1>1, <1>3, <1>4 DEF LateIsCounted
    <2> QED BY <1>1, <1>2, <1>3, <2>1, <2>2 DEF LateIsCounted
  <1> QED BY <1>1, <1>2, <1>5, <1>6, <1>7 DEF FlagsOK

\* Every step of the lifespans and of their threads keeps the invariant.
LEMMA LifeStep ==
  ASSUME LifeInv, [LifecycleNext]_(lifecycleVars)
  PROVE  LifeInv'
  <1>1. CASE UNCHANGED lifecycleVars
    BY <1>1 DEF lifecycleVars, LifeInv, AtOK, FlagsOK, CountsOK, Accounts, Owed, LateIsCounted
  <1>2. CASE LifecycleNext
    <2>1. ASSUME NEW t \in Threads, Loops(t) PROVE LifeInv'
      BY <2>1, QuietLoopSteps, EnqueueDueStep, RunJobStep DEF Loops
    <2> QED BY <1>2, <2>1, LifespanSteps, StopSteps, StartSteps DEF LifecycleNext
  <1> QED BY <1>1, <1>2

LEMMA LifeInit ==
  ASSUME LifecycleInit
  PROVE  LifeInv
  <1> USE LifecycleAssumption DEF LifecycleInit
  <1>1. AtOK
    BY DEF AtOK, Actors, ThreadPlaces, LifespanPlaces
  <1>2. FlagsOK
    BY DEF FlagsOK
  <1>3. CountsOK
    BY DEF CountsOK
  <1>4. Accounts /\ LateIsCounted
    BY DEF Accounts, Owed, LateIsCounted
  <1> QED BY <1>1, <1>2, <1>3, <1>4 DEF LifeInv

\* The flags, the places and the counters keep their types; at most one job
\* of the schedule waits for each time it came due and each call that raised.
THEOREM LifecycleTypeCorrect == LifecycleSpec => []LifecycleTypeOK
  <1>1. LifeInv => LifecycleTypeOK
    <2> SUFFICES ASSUME LifeInv PROVE LifecycleTypeOK
      OBVIOUS
    <2>1. cycles <= MaxPeriods + MaxFaults /\ pending <= MaxPending + MaxPeriods + MaxFaults
      BY LifecycleAssumption DEF LifeInv, Accounts, CountsOK, Owed
    <2>2. /\ pending \in 0..(MaxPending + MaxPeriods + MaxFaults)
          /\ cycles \in 0..(MaxPeriods + MaxFaults)
      BY <2>1, LifecycleAssumption DEF LifeInv, CountsOK
    <2> QED
      BY <2>2 DEF LifeInv, AtOK, FlagsOK, CountsOK, ThreadPlaces, LifespanPlaces, LifecycleTypeOK
  <1> QED BY <1>1, LifeInit, LifeStep, PTL DEF LifecycleSpec

\* The schedule queues no job twice, in whatever lifespans and threads.
THEOREM DueJobsAreQueuedOnce == LifecycleSpec => []DueIsQueuedOnce
  <1>1. LifeInv => DueIsQueuedOnce
    BY DEF LifeInv, Accounts, CountsOK, Owed, DueIsQueuedOnce
  <1> QED BY <1>1, LifeInit, LifeStep, PTL DEF LifecycleSpec

\* A stop is late by the jobs of one tick at most.
THEOREM StopIsLateByOneTick == LifecycleSpec => []LateWorkIsBounded
  <1>1. LifeInv => LateWorkIsBounded
    BY DEF LifeInv, LateIsCounted, LateWorkIsBounded
  <1> QED BY <1>1, LifeInit, LifeStep, PTL DEF LifecycleSpec
=============================================================================
