------------------------- MODULE RuntimeStoreProofs -------------------------
(***************************************************************************)
(* What holds of RuntimeStore for every set of jobs and processes, every   *)
(* attempt budget and every lease length.                                  *)
(***************************************************************************)
EXTENDS RuntimeStore, TLAPS

\* A row that was never inserted was never claimed.
AbsentIsFresh == \A j \in Jobs : job[j].status = "absent" => job[j].attempts = 0

\* A process holds tokens of claims that were made, hence of rows that exist.
HeldTokensIssued ==
  \A w \in Workers : \A c \in held[w] : c[2] > 0 /\ c[2] <= job[c[1]].attempts

\* A call that passed its check presents a credential of its own process.
CallIsHeld ==
  \A w \in Workers :
    call[w] # NoCall =>
      /\ call[w].op # "idle"
      /\ call[w].worker = w
      /\ call[w].job \in Jobs
      /\ <<call[w].job, call[w].token>> \in held[w]

\* The inductive invariant.  CredentialsAreExclusive needs HeldTokensIssued (a
\* new token is above all tokens held), TerminalHasResult needs OwnershipShape
\* (only a running row ends), the type of call needs CallIsHeld.
IInv ==
  /\ TypeOK
  /\ OwnershipShape
  /\ AbsentIsFresh
  /\ TerminalHasResult
  /\ HeldTokensIssued
  /\ CredentialsAreExclusive
  /\ CallIsHeld

-----------------------------------------------------------------------------

\* An empty table satisfies the invariant.
LEMMA InitIInv == Init => IInv
  BY TableAssumption
  DEF Init, TableInit, IInv, TypeOK, TableTypeOK, OwnershipShape, AbsentIsFresh,
      TerminalHasResult, HeldTokensIssued, CredentialsAreExclusive, CallIsHeld,
      Row, NoRow, Statuses, Terminal, Verdict, NoResult, Call, NoCall, Running

\* Writing one row leaves the others alone.
LEMMA OneRow ==
  ASSUME job \in [Jobs -> Row], NEW j \in Jobs, NEW r \in Row,
         job' = [job EXCEPT ![j] = r]
  PROVE  /\ job' \in [Jobs -> Row]
         /\ job'[j] = r
         /\ \A k \in Jobs : k # j => job'[k] = job[k]
  OBVIOUS

\* A new row disturbs nothing that is running or held.
LEMMA SubmitIInv == ASSUME IInv, NEW j \in Jobs, Submit(j) PROVE IInv'
  <1> DEFINE r == [job[j] EXCEPT !.status = "queued",
                                 !.before = {k \in Jobs : job[k].status # "absent"}]
  <1>1. job[j] \in Row /\ job \in [Jobs -> Row]
    BY DEF IInv, TypeOK, TableTypeOK
  <1>2. /\ job' = [job EXCEPT ![j] = r]
        /\ UNCHANGED <<result, call, held>>
        /\ job[j].status = "absent"
    BY <1>1 DEF Submit, Enqueue
  <1>3. /\ r \in Row
        /\ r.status = "queued"
        /\ r.attempts = job[j].attempts
        /\ r.worker = job[j].worker
        /\ r.token = job[j].token
        /\ r.lease = job[j].lease
    BY <1>1 DEF Row, Statuses
  <1> HIDE DEF r
  <1>4. /\ job' \in [Jobs -> Row]
        /\ job'[j] = r
        /\ \A k \in Jobs : k # j => job'[k] = job[k]
    BY <1>1, <1>2, <1>3, OneRow
  <1>5. TypeOK'
    BY <1>2, <1>4 DEF IInv, TypeOK, TableTypeOK
  <1>6. OwnershipShape' /\ AbsentIsFresh' /\ TerminalHasResult'
    BY <1>2, <1>3, <1>4 DEF IInv, OwnershipShape, AbsentIsFresh, TerminalHasResult, Terminal, Running
  <1>7. HeldTokensIssued' /\ CredentialsAreExclusive'
    <2> SUFFICES ASSUME NEW w \in Workers, NEW c \in held[w]
                 PROVE  /\ c[2] > 0 /\ c[2] <= job'[c[1]].attempts
                        /\ Running(c[1])' /\ job'[c[1]].token = c[2] => job'[c[1]].worker = w
      BY <1>2 DEF HeldTokensIssued, CredentialsAreExclusive
    <2>1. c[1] \in Jobs
      BY DEF IInv, TypeOK
    <2> QED
      BY <1>2, <1>3, <1>4, <2>1 DEF IInv, HeldTokensIssued, CredentialsAreExclusive, Running
  <1>8. CallIsHeld'
    BY <1>2 DEF IInv, CallIsHeld
  <1> QED BY <1>5, <1>6, <1>7, <1>8 DEF IInv

\* A claim issues a token above every token that is held.
LEMMA ClaimIInv ==
  ASSUME IInv, NEW w \in Workers, NEW j \in Jobs,
         job[j].status = "queued", ClaimRow(w, j), Keep(w, j)
  PROVE  IInv'
  <1> DEFINE n == job[j].attempts + 1
             r == [job[j] EXCEPT !.status = "running", !.attempts = n, !.worker = w,
                                 !.token = n, !.lease = LeaseTicks]
  <1>1. /\ job[j] \in Row /\ job \in [Jobs -> Row]
        /\ held \in [Workers -> SUBSET (Jobs \X Nat)]
    BY DEF IInv, TypeOK, TableTypeOK
  <1>2. /\ job' = [job EXCEPT ![j] = r]
        /\ UNCHANGED <<result, call>>
        /\ held' = [held EXCEPT ![w] = @ \union {<<j, n>>}]
    BY <1>1 DEF ClaimRow, Keep, Row
  <1>3. n \in Nat /\ n > job[j].attempts /\ n > 0 /\ job[j].attempts \in Nat
    BY <1>1 DEF Row
  <1> HIDE DEF n
  <1>4. /\ r \in Row
        /\ r.status = "running"
        /\ r.attempts = n
        /\ r.worker = w
        /\ r.token = n
    <2>1. /\ LeaseTicks \in 0..LeaseTicks
          /\ w \in Workers \union {NoWorker}
          /\ "running" \in Statuses
      BY TableAssumption DEF Statuses
    <2>2. job[j] \in [status: Statuses, attempts: Nat, worker: Workers \union {NoWorker},
                      token: Nat, lease: 0..LeaseTicks, before: SUBSET Jobs]
      BY <1>1 DEF Row
    <2> QED BY <1>3, <2>1, <2>2 DEF Row
  <1> HIDE DEF r
  <1>5. /\ job' \in [Jobs -> Row]
        /\ job'[j] = r
        /\ \A k \in Jobs : k # j => job'[k] = job[k]
    BY <1>1, <1>2, <1>4, OneRow
  <1>6. /\ held' \in [Workers -> SUBSET (Jobs \X Nat)]
        /\ held'[w] = held[w] \union {<<j, n>>}
        /\ \A v \in Workers : v # w => held'[v] = held[v]
    BY <1>1, <1>2, <1>3
  <1>7. TypeOK'
    BY <1>2, <1>5, <1>6 DEF IInv, TypeOK, TableTypeOK
  <1>8. OwnershipShape' /\ AbsentIsFresh' /\ TerminalHasResult'
    BY <1>2, <1>3, <1>4, <1>5
    DEF IInv, OwnershipShape, AbsentIsFresh, TerminalHasResult, Terminal, Running
  <1>9. HeldTokensIssued' /\ CredentialsAreExclusive'
    <2> SUFFICES ASSUME NEW v \in Workers, NEW c \in held'[v]
                 PROVE  /\ c[2] > 0 /\ c[2] <= job'[c[1]].attempts
                        /\ Running(c[1])' /\ job'[c[1]].token = c[2] => job'[c[1]].worker = v
      BY DEF HeldTokensIssued, CredentialsAreExclusive
    <2>1. CASE c \in held[v]
      <3>1. c[1] \in Jobs /\ c[2] \in Nat
        BY <1>1, <2>1
      <3>2. c[2] > 0 /\ c[2] <= job[c[1]].attempts
        BY <2>1 DEF IInv, HeldTokensIssued
      <3>3. CASE c[1] = j
        BY <1>3, <1>4, <1>5, <3>1, <3>2, <3>3
      <3>4. CASE c[1] # j
        BY <1>5, <2>1, <3>1, <3>2, <3>4 DEF IInv, CredentialsAreExclusive, Running
      <3> QED BY <3>3, <3>4
    <2>2. CASE c \notin held[v]
      <3>1. v = w /\ c = <<j, n>>
        BY <1>6, <2>2
      <3> QED BY <1>3, <1>4, <1>5, <3>1
    <2> QED BY <2>1, <2>2
  <1>10. CallIsHeld'
    BY <1>2, <1>6 DEF IInv, CallIsHeld
  <1> QED BY <1>7, <1>8, <1>9, <1>10 DEF IInv

\* A heartbeat changes nothing but a lease that is running.
LEMMA RenewIInv ==
  ASSUME IInv, NEW w \in Workers, Renew(w)
  PROVE  IInv'
  <1>1. PICK c \in held[w] : Heartbeat(w, c[1], w, c[2]) /\ UNCHANGED held
    BY DEF Renew
  <1> DEFINE j == c[1]
             r == [job[j] EXCEPT !.lease = LeaseTicks]
  <1>2. j \in Jobs /\ job \in [Jobs -> Row] /\ job[j] \in Row
    BY DEF IInv, TypeOK, TableTypeOK
  <1>3. /\ job' = [job EXCEPT ![j] = r]
        /\ UNCHANGED <<result, call, held>>
        /\ Running(j)
    BY <1>1, <1>2 DEF Heartbeat, OwnedBy
  <1>4. /\ r \in Row
        /\ r.status = job[j].status
        /\ r.attempts = job[j].attempts
        /\ r.worker = job[j].worker
        /\ r.token = job[j].token
    BY <1>2, TableAssumption DEF Row
  <1> HIDE DEF r, j
  <1>5. /\ job' \in [Jobs -> Row]
        /\ job'[j] = r
        /\ \A k \in Jobs : k # j => job'[k] = job[k]
    BY <1>2, <1>3, <1>4, OneRow
  <1>6. TypeOK'
    BY <1>3, <1>5 DEF IInv, TypeOK, TableTypeOK
  <1>7. OwnershipShape' /\ AbsentIsFresh' /\ TerminalHasResult'
    BY <1>3, <1>4, <1>5 DEF IInv, OwnershipShape, AbsentIsFresh, TerminalHasResult, Terminal, Running
  <1>8. HeldTokensIssued' /\ CredentialsAreExclusive'
    <2> SUFFICES ASSUME NEW v \in Workers, NEW d \in held[v]
                 PROVE  /\ d[2] > 0 /\ d[2] <= job'[d[1]].attempts
                        /\ Running(d[1])' /\ job'[d[1]].token = d[2] => job'[d[1]].worker = v
      BY <1>3 DEF HeldTokensIssued, CredentialsAreExclusive
    <2>1. d[1] \in Jobs
      BY DEF IInv, TypeOK
    <2> QED
      BY <1>3, <1>4, <1>5, <2>1 DEF IInv, HeldTokensIssued, CredentialsAreExclusive, Running
  <1>9. CallIsHeld'
    BY <1>3 DEF IInv, CallIsHeld
  <1> QED BY <1>6, <1>7, <1>8, <1>9 DEF IInv

-----------------------------------------------------------------------------

\* What complete, finish and recovery have in common: some running rows are
\* released, each into a status other than running, no result is lost, and a
\* result that appears is that of a row that ends or of one that has not.
ReleaseRows(S, st) ==
  /\ S \subseteq Jobs
  /\ st \in [Jobs -> {"queued"} \union Terminal]
  /\ \A j \in S : Running(j)
  /\ job' = [j \in Jobs |-> IF j \in S THEN Released(j, st[j]) ELSE job[j]]
  /\ result' \in [Jobs -> Verdict]
  /\ \A j \in Jobs : result[j] # NoResult => result'[j] = result[j]
  /\ \A j \in S : st[j] \in Terminal => result'[j] # NoResult
  /\ \A j \in S : st[j] = "queued" => result'[j] = result[j]
  /\ \A j \in Jobs \ S :
       result'[j] # result[j] => job[j].status \in {"queued", "running"}

\* A released row is a row without an owner.
LEMMA ReleasedRow ==
  ASSUME NEW j \in Jobs, job[j] \in Row, NEW s \in {"queued"} \union Terminal
  PROVE  /\ Released(j, s) \in Row
         /\ Released(j, s).status = s
         /\ Released(j, s).attempts = job[j].attempts
         /\ Released(j, s).worker = NoWorker
         /\ Released(j, s).token = 0
         /\ Released(j, s).lease = 0
  <1>1. 0 \in 0..LeaseTicks /\ 0 \in Nat
    BY TableAssumption
  <1>2. s \in Statuses /\ NoWorker \in Workers \union {NoWorker}
    BY DEF Statuses
  <1> QED BY <1>1, <1>2 DEF Released, Row

\* Releasing rows that are running keeps the rows well-formed.
LEMMA ReleaseIInv ==
  ASSUME IInv, NEW S, NEW st, ReleaseRows(S, st),
         call' \in [Workers -> Call], CallIsHeld', held' = held
  PROVE  IInv'
  <1>1. job \in [Jobs -> Row]
    BY DEF IInv, TypeOK, TableTypeOK
  <1>2. ASSUME NEW j \in S
        PROVE  /\ job'[j] \in Row
               /\ job'[j].status = st[j]
               /\ st[j] \in {"queued"} \union Terminal
               /\ job'[j].attempts = job[j].attempts
               /\ job'[j].worker = NoWorker
               /\ job'[j].token = 0
               /\ job'[j].lease = 0
    <2> DEFINE r == Released(j, st[j])
    <2>1. /\ j \in Jobs
          /\ job'[j] = r
          /\ st[j] \in {"queued"} \union Terminal
          /\ job[j] \in Row
      BY <1>1 DEF ReleaseRows
    <2>2. /\ r \in Row
          /\ r.status = st[j]
          /\ r.attempts = job[j].attempts
          /\ r.worker = NoWorker
          /\ r.token = 0
          /\ r.lease = 0
      BY <2>1, ReleasedRow
    <2> HIDE DEF r
    <2> QED BY <2>1, <2>2
  <1>3. \A k \in Jobs : k \notin S => job'[k] = job[k]
    BY DEF ReleaseRows
  <1>4. job' \in [Jobs -> Row]
    <2>1. \A k \in Jobs : job'[k] \in Row
      BY <1>1, <1>2, <1>3
    <2>2. job' = [k \in Jobs |-> job'[k]]
      BY DEF ReleaseRows
    <2> QED BY <2>1, <2>2
  <1>5. TypeOK'
    BY <1>4 DEF IInv, TypeOK, TableTypeOK, ReleaseRows
  <1>6. OwnershipShape' /\ AbsentIsFresh' /\ TerminalHasResult'
    <2> SUFFICES ASSUME NEW k \in Jobs
                 PROVE  /\ IF Running(k)'
                           THEN /\ job'[k].worker \in Workers
                                /\ job'[k].token = job'[k].attempts
                                /\ job'[k].attempts > 0
                           ELSE /\ job'[k].worker = NoWorker
                                /\ job'[k].token = 0
                                /\ job'[k].lease = 0
                        /\ job'[k].status = "absent" => job'[k].attempts = 0
                        /\ job'[k].status \in Terminal => result'[k] # NoResult
      BY DEF OwnershipShape, AbsentIsFresh, TerminalHasResult
    <2>1. CASE k \in S
      BY <1>2, <2>1 DEF Running, Terminal, ReleaseRows
    <2>2. CASE k \notin S
      BY <1>3, <2>2
      DEF IInv, OwnershipShape, AbsentIsFresh, TerminalHasResult, Running, ReleaseRows
    <2> QED BY <2>1, <2>2
  <1>7. HeldTokensIssued' /\ CredentialsAreExclusive'
    <2> SUFFICES ASSUME NEW v \in Workers, NEW d \in held[v]
                 PROVE  /\ d[2] > 0 /\ d[2] <= job'[d[1]].attempts
                        /\ Running(d[1])' /\ job'[d[1]].token = d[2] => job'[d[1]].worker = v
      BY DEF HeldTokensIssued, CredentialsAreExclusive
    <2>1. /\ d[1] \in Jobs
          /\ d[2] > 0 /\ d[2] <= job[d[1]].attempts
          /\ Running(d[1]) /\ job[d[1]].token = d[2] => job[d[1]].worker = v
      BY DEF IInv, TypeOK, HeldTokensIssued, CredentialsAreExclusive
    <2>2. CASE d[1] \in S
      BY <1>2, <2>1, <2>2 DEF Running, Terminal
    <2>3. CASE d[1] \notin S
      BY <1>3, <2>1, <2>3 DEF Running
    <2> QED BY <2>2, <2>3
  <1> QED BY <1>5, <1>6, <1>7 DEF IInv

\* complete releases the row it stored a result for.
LEMMA CompleteReleases ==
  ASSUME IInv, NEW w \in Workers, Complete(w)
  PROVE  /\ \E j \in Jobs : ReleaseRows({j}, [k \in Jobs |-> "completed"])
         /\ UNCHANGED <<call, held>>
  <1>1. PICK c \in held[w] : CompleteRow(w, c[1], w, c[2]) /\ UNCHANGED held
    BY DEF Complete
  <1> DEFINE j == c[1]
             st == [k \in Jobs |-> "completed"]
  <1>2. /\ j \in Jobs /\ c[2] \in Nat
        /\ job \in [Jobs -> Row] /\ result \in [Jobs -> Verdict]
    BY DEF IInv, TypeOK, TableTypeOK
  <1>3. /\ InsertResult(j, Work(c[2]))
        /\ job' = [job EXCEPT ![j] = Released(j, "completed")]
        /\ UNCHANGED <<call, held>>
        /\ Running(j)
    BY <1>1 DEF CompleteRow, CompleteOutcome, OwnedBy
  <1>4. Work(c[2]) \in Verdict /\ Work(c[2]) # NoResult
    BY <1>2 DEF Work, Verdict, NoResult
  <1>5. /\ result' \in [Jobs -> Verdict]
        /\ \A k \in Jobs : result[k] # NoResult => result'[k] = result[k]
        /\ \A k \in Jobs : k # j => result'[k] = result[k]
        /\ result'[j] # NoResult
    BY <1>2, <1>3, <1>4 DEF InsertResult
  <1>6. job' = [k \in Jobs |-> IF k \in {j} THEN Released(k, st[k]) ELSE job[k]]
    BY <1>2, <1>3
  <1>7. ReleaseRows({j}, st)
    BY <1>2, <1>3, <1>5, <1>6 DEF ReleaseRows, Terminal
  <1> QED BY <1>2, <1>3, <1>7

\* finish releases its row, or none when the row is no longer its own.
LEMMA EndFinishReleases ==
  ASSUME IInv, NEW w \in Workers, EndFinish(w)
  PROVE  /\ \E S \in SUBSET Jobs, st \in [Jobs -> {"queued", "failed"}] : ReleaseRows(S, st)
         /\ call' = [call EXCEPT ![w] = NoCall]
         /\ UNCHANGED held
  <1> DEFINE j == call[w].job
             t == call[w].token
             retry == call[w].op = "retry"
             own == OwnedBy(j, call[w].worker, t)
             S == IF own THEN {j} ELSE {}
             s == IF retry THEN "queued" ELSE "failed"
             st == [k \in Jobs |-> s]
  <1>1. /\ call[w] \in Call
        /\ job \in [Jobs -> Row] /\ result \in [Jobs -> Verdict]
        /\ call[w].op \in {"retry", "fail"}
    BY DEF IInv, TypeOK, TableTypeOK, EndFinish, FinishApply
  <1>2. j \in Jobs /\ t \in Nat /\ job[j].status # "absent"
    <2>1. call[w] # NoCall
      BY <1>1 DEF NoCall
    <2>2. j \in Jobs /\ <<j, t>> \in held[w]
      BY <2>1 DEF IInv, CallIsHeld
    <2>3. t \in Nat
      BY <1>1 DEF Call
    <2>4. t > 0 /\ t <= job[j].attempts
      BY <2>2 DEF IInv, HeldTokensIssued
    <2>5. job[j].attempts \in Nat
      BY <1>1, <2>2 DEF Row
    <2>6. job[j].attempts # 0
      BY <2>3, <2>4, <2>5
    <2> QED BY <2>2, <2>3, <2>6 DEF IInv, AbsentIsFresh
  <1>3. /\ job' = IF own THEN [job EXCEPT ![j] = Released(j, s)] ELSE job
        /\ IF retry THEN UNCHANGED result ELSE InsertResult(j, Failure(t))
        /\ call' = [call EXCEPT ![w] = NoCall]
        /\ UNCHANGED held
    BY DEF EndFinish, FinishApply
  <1>4. own => Running(j)
    BY DEF OwnedBy
  <1>5. s \in {"queued", "failed"} /\ (s = "failed" <=> ~retry)
    OBVIOUS
  <1> HIDE DEF own, retry, s, t, j
  <1>6. Failure(t) \in Verdict /\ Failure(t) # NoResult
    BY <1>2 DEF Failure, Verdict, NoResult
  <1>7. /\ result' \in [Jobs -> Verdict]
        /\ \A k \in Jobs : result[k] # NoResult => result'[k] = result[k]
        /\ \A k \in Jobs : k # j \/ retry => result'[k] = result[k]
        /\ ~retry => result'[j] # NoResult
    BY <1>1, <1>2, <1>3, <1>6 DEF InsertResult
  <1>11. result[j] = NoResult => job[j].status \in {"queued", "running"}
    BY <1>1, <1>2 DEF IInv, TerminalHasResult, Row, Statuses, Terminal
  <1>8. job' = [k \in Jobs |-> IF k \in S THEN Released(k, st[k]) ELSE job[k]]
    <2>1. CASE own
      BY <1>1, <1>2, <1>3, <2>1
    <2>2. CASE ~own
      BY <1>1, <1>3, <2>2
    <2> QED BY <2>1, <2>2
  <1>9. /\ S \in SUBSET Jobs
        /\ st \in [Jobs -> {"queued", "failed"}]
        /\ \A k \in S : k = j /\ own
        /\ \A k \in Jobs : st[k] = s
    BY <1>2, <1>5
  <1> HIDE DEF S, st
  <1>10. ReleaseRows(S, st)
    BY <1>2, <1>4, <1>5, <1>7, <1>8, <1>9, <1>11 DEF ReleaseRows, Terminal
  <1> QED BY <1>3, <1>9, <1>10

\* Recovery releases every row that is due.
LEMMA RecoverReleases ==
  ASSUME IInv, Recover
  PROVE  /\ \E S \in SUBSET Jobs, st \in [Jobs -> {"queued"} \union Terminal] :
              ReleaseRows(S, st)
         /\ UNCHANGED <<call, held>>
  <1>1. PICK force \in BOOLEAN : RecoverRows(RecoverLimit, force) /\ UNCHANGED held
    BY DEF Recover
  <1> DEFINE S == Due(force)
             st == [k \in Jobs |-> RecoveredStatus(k, RecoverLimit)]
  <1>2. job \in [Jobs -> Row] /\ result \in [Jobs -> Verdict]
    BY DEF IInv, TypeOK, TableTypeOK
  <1>3. S \in SUBSET Jobs /\ \A k \in S : Running(k)
    BY DEF Due
  <1>4. st \in [Jobs -> {"queued"} \union Terminal]
    BY DEF RecoveredStatus, Terminal
  <1>5. job' = [k \in Jobs |-> IF k \in S THEN Released(k, st[k]) ELSE job[k]]
    BY <1>1 DEF RecoverRows
  <1>6. result' = [k \in Jobs |-> IF k \in S /\ RecoveredStatus(k, RecoverLimit) = "failed"
                                  THEN Failure(0) ELSE result[k]]
    BY <1>1 DEF RecoverRows
  <1>7. Failure(0) \in Verdict /\ Failure(0) # NoResult
    BY DEF Failure, Verdict, NoResult
  <1>8. /\ result' \in [Jobs -> Verdict]
        /\ \A k \in Jobs : result[k] # NoResult => result'[k] = result[k]
        /\ \A k \in Jobs : k \notin S \/ st[k] = "queued" => result'[k] = result[k]
    BY <1>2, <1>6, <1>7 DEF RecoveredStatus
  <1>9. \A k \in S : st[k] \in Terminal => result'[k] # NoResult
    BY <1>3, <1>6, <1>7, <1>8 DEF RecoveredStatus, Terminal
  <1>10. ReleaseRows(S, st)
    <2> HIDE DEF S, st
    <2> QED BY <1>3, <1>4, <1>5, <1>8, <1>9 DEF ReleaseRows
  <1>11. UNCHANGED <<call, held>>
    BY <1>1 DEF RecoverRows
  <1> QED BY <1>3, <1>4, <1>8, <1>10, <1>11

-----------------------------------------------------------------------------

\* The clock moves leases, never the owner of a row.
LEMMA TimePassesIInv ==
  ASSUME IInv, TimePasses
  PROVE  IInv'
  <1> DEFINE r(k) == [job[k] EXCEPT !.lease = IF job[k].lease > 0 THEN job[k].lease - 1 ELSE 0]
  <1>1. /\ job' = [k \in Jobs |-> r(k)]
        /\ UNCHANGED <<result, call, held>>
        /\ job \in [Jobs -> Row]
    BY DEF TimePasses, Tick, IInv, TypeOK, TableTypeOK
  <1>2. ASSUME NEW k \in Jobs
        PROVE  /\ r(k) \in Row
               /\ r(k).status = job[k].status
               /\ r(k).attempts = job[k].attempts
               /\ r(k).worker = job[k].worker
               /\ r(k).token = job[k].token
               /\ job[k].lease = 0 => r(k).lease = 0
    <2>1. job[k] \in Row /\ job[k].lease \in 0..LeaseTicks
      BY <1>1 DEF Row
    <2>2. (IF job[k].lease > 0 THEN job[k].lease - 1 ELSE 0) \in 0..LeaseTicks
      BY <2>1, TableAssumption
    <2> QED BY <2>1, <2>2 DEF Row
  <1> HIDE DEF r
  <1>3. \A k \in Jobs : job'[k] = r(k)
    BY <1>1
  <1>4. TypeOK'
    BY <1>1, <1>2 DEF IInv, TypeOK, TableTypeOK
  <1>5. OwnershipShape' /\ AbsentIsFresh' /\ TerminalHasResult'
    BY <1>1, <1>2, <1>3 DEF IInv, OwnershipShape, AbsentIsFresh, TerminalHasResult, Running
  <1>6. HeldTokensIssued' /\ CredentialsAreExclusive'
    <2> SUFFICES ASSUME NEW v \in Workers, NEW d \in held[v]
                 PROVE  /\ d[2] > 0 /\ d[2] <= job'[d[1]].attempts
                        /\ Running(d[1])' /\ job'[d[1]].token = d[2] => job'[d[1]].worker = v
      BY <1>1 DEF HeldTokensIssued, CredentialsAreExclusive
    <2>1. d[1] \in Jobs
      BY DEF IInv, TypeOK
    <2> QED
      BY <1>2, <1>3, <2>1 DEF IInv, HeldTokensIssued, CredentialsAreExclusive, Running
  <1>7. CallIsHeld'
    BY <1>1 DEF IInv, CallIsHeld
  <1> QED BY <1>4, <1>5, <1>6, <1>7 DEF IInv

\* A step that leaves the rows alone, loses no result and hands out no
\* credential keeps everything that is said of them.
LEMMA RowsUntouchedIInv ==
  ASSUME IInv, UNCHANGED job,
         result' \in [Jobs -> Verdict],
         \A j \in Jobs : result[j] # NoResult => result'[j] = result[j],
         held' \in [Workers -> SUBSET (Jobs \X Nat)],
         \A w \in Workers : held'[w] \subseteq held[w],
         call' \in [Workers -> Call], CallIsHeld'
  PROVE  IInv'
  <1>1. TypeOK'
    BY DEF IInv, TypeOK, TableTypeOK
  <1>2. OwnershipShape' /\ AbsentIsFresh' /\ TerminalHasResult'
    BY DEF IInv, OwnershipShape, AbsentIsFresh, TerminalHasResult, Running
  <1>3. HeldTokensIssued' /\ CredentialsAreExclusive'
    BY DEF IInv, HeldTokensIssued, CredentialsAreExclusive, Running
  <1> QED BY <1>1, <1>2, <1>3 DEF IInv

\* A call that passes its check presents what its process holds; a call that
\* returns, or dies with its process, presents nothing any more.
LEMMA CallsIInv ==
  ASSUME IInv, NEW w \in Workers
  PROVE  /\ BeginFinish(w) \/ BeginRecord(w) =>
              call' \in [Workers -> Call] /\ CallIsHeld' /\ UNCHANGED <<job, result, held>>
         /\ call' = [call EXCEPT ![w] = NoCall] =>
              /\ call' \in [Workers -> Call]
              /\ (\A v \in Workers : v # w => held'[v] = held[v]) => CallIsHeld'
  <1>1. call \in [Workers -> Call] /\ held \in [Workers -> SUBSET (Jobs \X Nat)]
    BY DEF IInv, TypeOK, TableTypeOK
  <1>2. ASSUME BeginFinish(w) \/ BeginRecord(w)
        PROVE  call' \in [Workers -> Call] /\ CallIsHeld' /\ UNCHANGED <<job, result, held>>
    <2>1. PICK c \in held[w], op \in {"retry", "fail", "record"} :
            /\ call' = [call EXCEPT ![w] = [op |-> op, job |-> c[1], worker |-> w, token |-> c[2]]]
            /\ UNCHANGED <<job, result, held>>
      <3>1. CASE BeginFinish(w)
        <4>1. PICK c \in held[w], retry \in BOOLEAN :
                FinishCheck(w, c[1], w, c[2], retry) /\ UNCHANGED held
          BY <3>1 DEF BeginFinish
        <4> DEFINE op == IF retry THEN "retry" ELSE "fail"
        <4>2. op \in {"retry", "fail", "record"}
          OBVIOUS
        <4>3. /\ call' = [call EXCEPT ![w] = [op |-> op, job |-> c[1], worker |-> w, token |-> c[2]]]
              /\ UNCHANGED <<job, result, held>>
          BY <4>1 DEF FinishCheck
        <4> HIDE DEF op
        <4> QED BY <4>2, <4>3
      <3>2. CASE BeginRecord(w)
        <4>1. PICK c \in held[w] : RecordCheck(w, c[1], w, c[2]) /\ UNCHANGED held
          BY <3>2 DEF BeginRecord
        <4> QED BY <4>1 DEF RecordCheck
      <3> QED BY <1>2, <3>1, <3>2
    <2>2. c \in Jobs \X Nat /\ c = <<c[1], c[2]>>
      BY <1>1
    <2> DEFINE new == [op |-> op, job |-> c[1], worker |-> w, token |-> c[2]]
    <2>3. new \in Call /\ new # NoCall
      BY <2>2 DEF Call, NoCall
    <2>4. CallIsHeld'
      <3> SUFFICES ASSUME NEW v \in Workers, call'[v] # NoCall
                   PROVE  /\ call'[v].op # "idle"
                          /\ call'[v].worker = v
                          /\ call'[v].job \in Jobs
                          /\ <<call'[v].job, call'[v].token>> \in held'[v]
        BY DEF CallIsHeld
      <3>1. CASE v = w
        BY <1>1, <2>1, <2>2, <3>1
      <3>2. CASE v # w
        BY <1>1, <2>1, <3>2 DEF IInv, CallIsHeld
      <3> QED BY <3>1, <3>2
    <2> QED BY <1>1, <2>1, <2>3, <2>4
  <1>3. ASSUME call' = [call EXCEPT ![w] = NoCall]
        PROVE  /\ call' \in [Workers -> Call]
               /\ (\A v \in Workers : v # w => held'[v] = held[v]) => CallIsHeld'
    <2>1. NoCall \in Call
      BY DEF NoCall, Call
    <2>2. /\ call' \in [Workers -> Call]
          /\ call'[w] = NoCall
          /\ \A v \in Workers : v # w => call'[v] = call[v]
      BY <1>1, <1>3, <2>1
    <2> QED BY <2>2 DEF IInv, CallIsHeld
  <1> QED BY <1>2, <1>3

\* record_result writes at most the first result, of a row that is there and
\* has not ended.
LEMMA EndRecordWrites ==
  ASSUME IInv, NEW w \in Workers, EndRecord(w)
  PROVE  /\ UNCHANGED <<job, held>>
         /\ call' = [call EXCEPT ![w] = NoCall]
         /\ result' \in [Jobs -> Verdict]
         /\ \A j \in Jobs : result[j] # NoResult => result'[j] = result[j]
         /\ \A j \in Jobs :
              result'[j] # result[j] => job[j].status \in {"queued", "running"}
  <1> DEFINE j == call[w].job
             t == call[w].token
  <1>1. /\ call[w].op = "record"
        /\ InsertResult(j, Work(t))
        /\ call' = [call EXCEPT ![w] = NoCall]
        /\ UNCHANGED <<job, held>>
    BY DEF EndRecord, RecordApply
  <1>2. /\ call[w] \in Call /\ call[w] # NoCall
        /\ job \in [Jobs -> Row] /\ result \in [Jobs -> Verdict]
    BY <1>1 DEF IInv, TypeOK, TableTypeOK, NoCall
  <1>3. j \in Jobs /\ <<j, t>> \in held[w] /\ t \in Nat
    BY <1>2 DEF IInv, CallIsHeld, Call
  <1>4. job[j].status # "absent"
    <2>1. t > 0 /\ t <= job[j].attempts
      BY <1>3 DEF IInv, HeldTokensIssued
    <2>2. job[j].attempts \in Nat
      BY <1>2, <1>3 DEF Row
    <2>3. job[j].attempts # 0
      BY <1>3, <2>1, <2>2
    <2> QED BY <1>3, <2>3 DEF IInv, AbsentIsFresh
  <1>5. result[j] = NoResult => job[j].status \in {"queued", "running"}
    BY <1>2, <1>3, <1>4 DEF IInv, TerminalHasResult, Row, Statuses, Terminal
  <1>6. Work(t) \in Verdict
    BY <1>3 DEF Work, Verdict
  <1> HIDE DEF j, t
  <1> QED BY <1>1, <1>2, <1>3, <1>5, <1>6 DEF InsertResult

-----------------------------------------------------------------------------

\* The invariant is inductive: one step per action.
LEMMA NextIInv == IInv /\ [Next]_vars => IInv'
  <1> SUFFICES ASSUME IInv, [Next]_vars PROVE IInv'
    OBVIOUS
  <1>1. call \in [Workers -> Call] /\ CallIsHeld
    BY DEF IInv, TypeOK, TableTypeOK
  <1>2. ASSUME NEW j \in Jobs, Submit(j) PROVE IInv'
    BY <1>2, SubmitIInv
  <1>3. ASSUME NEW w \in Workers, ClaimNext(w) \/ Claim(w) PROVE IInv'
    <2>1. PICK j \in Jobs : job[j].status = "queued" /\ ClaimRow(w, j) /\ Keep(w, j)
      BY <1>3 DEF ClaimNext, Claim, ClaimNextRow, ClaimThisRow, Claimable
    <2> QED BY <2>1, ClaimIInv
  <1>4. ASSUME NEW w \in Workers, Renew(w) PROVE IInv'
    BY <1>4, RenewIInv
  <1>5. ASSUME NEW w \in Workers, Complete(w) PROVE IInv'
    <2>1. UNCHANGED <<call, held>>
      BY <1>5, CompleteReleases
    <2>2. call' \in [Workers -> Call] /\ CallIsHeld'
      BY <1>1, <2>1 DEF CallIsHeld
    <2> QED BY <1>5, <2>1, <2>2, CompleteReleases, ReleaseIInv
  <1>6. ASSUME NEW w \in Workers, EndFinish(w) PROVE IInv'
    <2>1. UNCHANGED held /\ call' = [call EXCEPT ![w] = NoCall]
      BY <1>6, EndFinishReleases
    <2>2. call' \in [Workers -> Call] /\ CallIsHeld'
      BY <2>1, CallsIInv
    <2> QED BY <1>6, <2>1, <2>2, EndFinishReleases, ReleaseIInv
  <1>7. ASSUME NEW w \in Workers, BeginFinish(w) \/ BeginRecord(w) PROVE IInv'
    <2>1. call' \in [Workers -> Call] /\ CallIsHeld' /\ UNCHANGED <<job, result, held>>
      BY <1>7, CallsIInv
    <2> QED BY <2>1, RowsUntouchedIInv DEF IInv, TypeOK, TableTypeOK
  <1>8. ASSUME NEW w \in Workers, EndRecord(w) PROVE IInv'
    <2>1. UNCHANGED <<job, held>> /\ call' = [call EXCEPT ![w] = NoCall]
      BY <1>8, EndRecordWrites
    <2>2. call' \in [Workers -> Call] /\ CallIsHeld'
      BY <2>1, CallsIInv
    <2>3. /\ held' \in [Workers -> SUBSET (Jobs \X Nat)]
          /\ \A v \in Workers : held'[v] \subseteq held[v]
      BY <2>1 DEF IInv, TypeOK
    <2> QED BY <1>8, <2>1, <2>2, <2>3, EndRecordWrites, RowsUntouchedIInv
  <1>9. ASSUME NEW w \in Workers, Crash(w) PROVE IInv'
    <2>1. /\ call' = [call EXCEPT ![w] = NoCall]
          /\ held' = [held EXCEPT ![w] = {}]
          /\ UNCHANGED <<job, result>>
      BY <1>9 DEF Crash, DropCall
    <2>2. /\ held' \in [Workers -> SUBSET (Jobs \X Nat)]
          /\ \A v \in Workers : held'[v] \subseteq held[v]
          /\ \A v \in Workers : v # w => held'[v] = held[v]
      BY <2>1 DEF IInv, TypeOK
    <2>3. call' \in [Workers -> Call] /\ CallIsHeld'
      BY <2>1, <2>2, CallsIInv
    <2>4. result' \in [Jobs -> Verdict]
      BY <2>1 DEF IInv, TypeOK, TableTypeOK
    <2> QED BY <2>1, <2>2, <2>3, <2>4, RowsUntouchedIInv
  <1>10. ASSUME Recover PROVE IInv'
    <2>1. UNCHANGED <<call, held>>
      BY <1>10, RecoverReleases
    <2>2. call' \in [Workers -> Call] /\ CallIsHeld'
      BY <1>1, <2>1 DEF CallIsHeld
    <2> QED BY <1>10, <2>1, <2>2, RecoverReleases, ReleaseIInv
  <1>11. ASSUME TimePasses PROVE IInv'
    BY <1>11, TimePassesIInv
  <1>12. ASSUME UNCHANGED vars PROVE IInv'
    BY <1>12
    DEF vars, IInv, TypeOK, TableTypeOK, OwnershipShape, AbsentIsFresh, TerminalHasResult,
        HeldTokensIssued, CredentialsAreExclusive, CallIsHeld, Running
  <1> QED
    BY <1>2, <1>3, <1>4, <1>5, <1>6, <1>7, <1>8, <1>9, <1>10, <1>11, <1>12 DEF Next

\* The inductive invariant holds in every state of every behaviour.
THEOREM InductiveInvariant == Spec => []IInv
  BY InitIInv, NextIInv, PTL DEF Spec

\* Every variable has its type (RuntimeStore's tables and its callers).
THEOREM TypeCorrect == Spec => []TypeOK
  <1>1. IInv => TypeOK
    BY DEF IInv
  <1> QED BY <1>1, InductiveInvariant, PTL

\* An execution that ended has its durable result, for any number of processes
\* and any interleaving of complete, finish, record_result and recovery.
THEOREM TerminalRowsHaveResults == Spec => []TerminalHasResult
  <1>1. IInv => TerminalHasResult
    BY DEF IInv
  <1> QED BY <1>1, InductiveInvariant, PTL

\* The fence: no process but the owner holds the credentials of a running row.
THEOREM FencingTokensAreExclusive == Spec => []CredentialsAreExclusive
  <1>1. IInv => CredentialsAreExclusive
    BY DEF IInv
  <1> QED BY <1>1, InductiveInvariant, PTL

\* Exactly the running rows have an owner, and their token is the latest.
THEOREM OwnershipIsConsistent == Spec => []OwnershipShape
  <1>1. IInv => OwnershipShape
    BY DEF IInv
  <1> QED BY <1>1, InductiveInvariant, PTL

-----------------------------------------------------------------------------

\* Releasing rows is requeueing, succeeding or failing, of each its own job.
LEMMA ReleaseLifecycle ==
  ASSUME IInv, NEW S, NEW st, ReleaseRows(S, st), NEW k \in Jobs
  PROVE  Lifecycle!JobStep(k)
  <1>1. job[k] \in Row /\ result \in [Jobs -> Verdict] /\ result' \in [Jobs -> Verdict]
    BY DEF IInv, TypeOK, TableTypeOK, ReleaseRows
  <1>2. CASE k \in S
    <2>1. /\ job'[k] = Released(k, st[k])
          /\ Running(k)
          /\ st[k] \in {"queued"} \union Terminal
          /\ result[k] # NoResult => result'[k] = result[k]
          /\ st[k] \in Terminal => result'[k] # NoResult
          /\ st[k] = "queued" => result'[k] = result[k]
      BY <1>2 DEF ReleaseRows
    <2>2. job'[k].status = st[k]
      BY <1>1, <2>1, ReleasedRow
    <2> QED
      BY <1>1, <2>1, <2>2
      DEF Terminal, Running, Lifecycle!JobStep, Lifecycle!Requeue, Lifecycle!Succeed,
          Lifecycle!Fail, Lifecycle!Decide, Lifecycle!KeepOutcome
  <1>3. CASE k \notin S
    <2>1. /\ job'[k] = job[k]
          /\ result[k] # NoResult => result'[k] = result[k]
          /\ result'[k] # result[k] => job[k].status \in {"queued", "running"}
      BY <1>3 DEF ReleaseRows
    <2> QED
      BY <1>1, <2>1
      DEF Lifecycle!JobStep, Lifecycle!Record, Lifecycle!Rest, Lifecycle!Decide,
          Lifecycle!KeepOutcome
  <1> QED BY <1>2, <1>3

\* A row whose status stays follows the life cycle if its result stays, or
\* appears before the job ends.
LEMMA RestLifecycle ==
  ASSUME NEW k \in Jobs, job'[k].status = job[k].status,
         result' \in [Jobs -> Verdict],
         result[k] # NoResult => result'[k] = result[k],
         result'[k] # result[k] => job[k].status \in {"queued", "running"}
  PROVE  Lifecycle!JobStep(k)
  BY DEF Lifecycle!JobStep, Lifecycle!Record, Lifecycle!Rest, Lifecycle!Decide,
         Lifecycle!KeepOutcome

\* Every step of the store is a step of every job's life cycle.
LEMMA LifecycleStep ==
  ASSUME IInv, [Next]_vars, NEW k \in Jobs
  PROVE  Lifecycle!JobStep(k)
  <1>1. job \in [Jobs -> Row] /\ result \in [Jobs -> Verdict] /\ job[k] \in Row
    BY DEF IInv, TypeOK, TableTypeOK
  <1>2. ASSUME NEW j \in Jobs, Submit(j) PROVE Lifecycle!JobStep(k)
    <2>1. /\ UNCHANGED result
          /\ job[j].status = "absent"
          /\ job' = [job EXCEPT ![j].status = "queued",
                                ![j].before = {i \in Jobs : job[i].status # "absent"}]
      BY <1>2 DEF Submit, Enqueue
    <2>2. /\ k # j => job'[k] = job[k]
          /\ k = j => job'[k].status = "queued"
      BY <1>1, <2>1 DEF Row
    <2> QED
      BY <1>1, <2>1, <2>2, RestLifecycle
      DEF Lifecycle!JobStep, Lifecycle!Submit, Lifecycle!KeepOutcome
  <1>3. ASSUME NEW w \in Workers, ClaimNext(w) \/ Claim(w) PROVE Lifecycle!JobStep(k)
    <2>1. PICK j \in Jobs : job[j].status = "queued" /\ ClaimRow(w, j)
      BY <1>3 DEF ClaimNext, Claim, ClaimNextRow, ClaimThisRow, Claimable
    <2>2. /\ UNCHANGED result
          /\ k # j => job'[k] = job[k]
          /\ k = j => job'[k].status = "running"
      BY <1>1, <2>1 DEF ClaimRow, Row
    <2> QED
      BY <1>1, <2>1, <2>2, RestLifecycle
      DEF Lifecycle!JobStep, Lifecycle!Start, Lifecycle!KeepOutcome
  <1>4. ASSUME NEW w \in Workers, Renew(w) PROVE Lifecycle!JobStep(k)
    <2>1. PICK c \in held[w] : Heartbeat(w, c[1], w, c[2])
      BY <1>4 DEF Renew
    <2>2. c[1] \in Jobs
      BY <2>1 DEF IInv, TypeOK
    <2>3. UNCHANGED result /\ job'[k].status = job[k].status
      BY <1>1, <2>1, <2>2 DEF Heartbeat, Row
    <2> QED BY <1>1, <2>3, RestLifecycle
  <1>5. ASSUME NEW w \in Workers, Complete(w) PROVE Lifecycle!JobStep(k)
    BY <1>5, CompleteReleases, ReleaseLifecycle
  <1>6. ASSUME NEW w \in Workers, EndFinish(w) PROVE Lifecycle!JobStep(k)
    BY <1>6, EndFinishReleases, ReleaseLifecycle
  <1>7. ASSUME NEW w \in Workers, BeginFinish(w) \/ BeginRecord(w) PROVE Lifecycle!JobStep(k)
    <2>1. UNCHANGED <<job, result>>
      BY <1>7, CallsIInv
    <2> QED BY <1>1, <2>1, RestLifecycle
  <1>8. ASSUME NEW w \in Workers, EndRecord(w) PROVE Lifecycle!JobStep(k)
    BY <1>8, EndRecordWrites, RestLifecycle
  <1>9. ASSUME NEW w \in Workers, Crash(w) PROVE Lifecycle!JobStep(k)
    BY <1>1, <1>9, RestLifecycle DEF Crash, DropCall
  <1>10. ASSUME Recover PROVE Lifecycle!JobStep(k)
    BY <1>10, RecoverReleases, ReleaseLifecycle
  <1>11. ASSUME TimePasses PROVE Lifecycle!JobStep(k)
    <2>1. UNCHANGED result /\ job'[k].status = job[k].status
      BY <1>1, <1>11 DEF TimePasses, Tick, Row
    <2> QED BY <1>1, <2>1, RestLifecycle
  <1>12. ASSUME UNCHANGED vars PROVE Lifecycle!JobStep(k)
    BY <1>1, <1>12, RestLifecycle DEF vars
  <1> QED
    BY <1>2, <1>3, <1>4, <1>5, <1>6, <1>7, <1>8, <1>9, <1>10, <1>11, <1>12 DEF Next

\* RuntimeStore implements the abstract life cycle of its jobs: what callers
\* may rely on, whoever calls and however the calls interleave.
THEOREM StoreImplementsLifecycle == Spec => ImplementsLifecycle
  <1>1. Init => Lifecycle!Init
    BY DEF Init, TableInit, NoRow, Lifecycle!Init
  <1>2. IInv /\ IInv' /\ [Next]_vars =>
          [Lifecycle!Next]_<<[j \in Jobs |-> job[j].status], result>>
    <2> SUFFICES ASSUME IInv, IInv', [Next]_vars PROVE Lifecycle!Next
      OBVIOUS
    <2>1. /\ job' \in [Jobs -> Row]
          /\ result' \in [Jobs -> Verdict]
      BY DEF IInv, TypeOK, TableTypeOK
    <2>2. [j \in Jobs |-> job'[j].status] \in [Jobs -> Lifecycle!States]
      BY <2>1 DEF Row, Statuses, Terminal, Lifecycle!States
    <2>3. \A j \in Jobs : Lifecycle!JobStep(j)
      BY LifecycleStep
    <2> QED BY <2>1, <2>2, <2>3 DEF Lifecycle!Next
  <1> QED
    BY <1>1, <1>2, InductiveInvariant, PTL DEF Spec, ImplementsLifecycle, Lifecycle!Spec

\* The first durable result of an execution is never overwritten
\* (the ON CONFLICT DO NOTHING of complete, finish and record_result, and the
\* recovery that looks for a result before it writes one).
THEOREM ResultsAreWrittenOnce == Spec => ResultIsWriteOnce
  <1>1. IInv /\ [Next]_vars => \A j \in Jobs : result[j] # NoResult => result'[j] = result[j]
    <2> SUFFICES ASSUME IInv, [Next]_vars, NEW j \in Jobs, result[j] # NoResult
                 PROVE  result'[j] = result[j]
      OBVIOUS
    <2>1. Lifecycle!JobStep(j)
      BY LifecycleStep
    <2> QED
      BY <2>1
      DEF Lifecycle!JobStep, Lifecycle!Submit, Lifecycle!Start, Lifecycle!Requeue,
          Lifecycle!Succeed, Lifecycle!Fail, Lifecycle!Record, Lifecycle!Rest,
          Lifecycle!Decide, Lifecycle!KeepOutcome
  <1> QED BY <1>1, InductiveInvariant, PTL DEF Spec, ResultIsWriteOnce

\* No call, however late, moves a row out of completed or failed.
THEOREM TerminalRowsStay == Spec => TerminalIsFinal
  <1>1. IInv /\ [Next]_vars =>
          \A j \in Jobs : job[j].status \in Terminal => job'[j].status = job[j].status
    <2> SUFFICES ASSUME IInv, [Next]_vars, NEW j \in Jobs, job[j].status \in Terminal
                 PROVE  job'[j].status = job[j].status
      OBVIOUS
    <2>1. Lifecycle!JobStep(j)
      BY LifecycleStep
    <2> QED
      BY <2>1
      DEF Terminal, Lifecycle!JobStep, Lifecycle!Submit, Lifecycle!Start, Lifecycle!Requeue,
          Lifecycle!Succeed, Lifecycle!Fail, Lifecycle!Record, Lifecycle!Rest
  <1> QED BY <1>1, InductiveInvariant, PTL DEF Spec, TerminalIsFinal

\* Unless recovery is forced, a row whose lease runs leaves running only by a
\* complete or finish of its owner, with the credentials of its last claim.
THEOREM LeasesProtectOwners == ~AllowForce => (Spec => LeaseProtectsOwner)
  <1> SUFFICES ASSUME ~AllowForce PROVE Spec => LeaseProtectsOwner
    OBVIOUS
  <1> DEFINE Ends(j, w) ==
        /\ job[j].worker = w
        /\ <<j, job[j].token>> \in held[w]
        /\ Complete(w) \/ EndFinish(w)
  <1>1. ASSUME IInv, [Next]_vars, NEW j \in Jobs,
               Running(j), job[j].lease > 0, job'[j].status # "running"
        PROVE  \E w \in Workers : Ends(j, w)
    <2>1. /\ job \in [Jobs -> Row] /\ job[j] \in Row /\ job[j].status = "running"
          /\ held \in [Workers -> SUBSET (Jobs \X Nat)]
      BY <1>1 DEF IInv, TypeOK, TableTypeOK, Running
    <2>2. job'[j] # job[j]
      BY <1>1, <2>1
    <2>3. ASSUME NEW i \in Jobs, Submit(i) PROVE FALSE
      <3>1. job[i].status = "absent" /\ i # j
        BY <2>1, <2>3 DEF Submit, Enqueue
      <3> QED BY <2>1, <2>2, <2>3, <3>1 DEF Submit, Enqueue
    <2>4. ASSUME NEW w \in Workers, ClaimNext(w) \/ Claim(w) PROVE FALSE
      <3>1. PICK i \in Jobs : job[i].status = "queued" /\ ClaimRow(w, i)
        BY <2>4 DEF ClaimNext, Claim, ClaimNextRow, ClaimThisRow, Claimable
      <3> QED BY <2>1, <2>2, <3>1 DEF ClaimRow
    <2>5. ASSUME NEW w \in Workers, Renew(w) PROVE FALSE
      <3>1. PICK c \in held[w] : Heartbeat(w, c[1], w, c[2])
        BY <2>5 DEF Renew
      <3>2. c[1] \in Jobs
        BY <2>1, <3>1
      <3> QED BY <1>1, <2>1, <3>1, <3>2 DEF Heartbeat, Row
    <2>6. ASSUME NEW w \in Workers, Complete(w) PROVE Ends(j, w)
      <3>1. PICK c \in held[w] : CompleteRow(w, c[1], w, c[2]) /\ UNCHANGED held
        BY <2>6 DEF Complete
      <3>2. c = <<c[1], c[2]>> /\ c[1] \in Jobs
        BY <2>1
      <3>3. c[1] = j
        BY <2>1, <2>2, <3>1, <3>2 DEF CompleteRow
      <3>4. OwnedBy(c[1], w, c[2])
        BY <3>1 DEF CompleteRow, CompleteOutcome
      <3> QED BY <2>6, <3>2, <3>3, <3>4 DEF OwnedBy
    <2>7. ASSUME NEW w \in Workers, EndFinish(w) PROVE Ends(j, w)
      <3>1. /\ FinishApply(w)
            /\ call[w] # NoCall
        BY <2>7 DEF EndFinish, FinishApply, NoCall
      <3>2. /\ call[w].worker = w
            /\ call[w].job \in Jobs
            /\ <<call[w].job, call[w].token>> \in held[w]
        BY <1>1, <3>1 DEF IInv, CallIsHeld
      <3>3. OwnedBy(call[w].job, call[w].worker, call[w].token) /\ call[w].job = j
        BY <2>1, <2>2, <3>1, <3>2 DEF FinishApply
      <3> QED BY <2>7, <3>2, <3>3 DEF OwnedBy
    <2>8. ASSUME NEW w \in Workers,
                 BeginFinish(w) \/ BeginRecord(w) \/ EndRecord(w) \/ Crash(w)
          PROVE  FALSE
      <3>1. UNCHANGED job
        BY <2>8
        DEF BeginFinish, BeginRecord, EndRecord, Crash, FinishCheck, RecordCheck,
            RecordApply, DropCall
      <3> QED BY <2>2, <3>1
    <2>9. ASSUME Recover PROVE FALSE
      <3>1. RecoverRows(RecoverLimit, FALSE)
        BY <1>1, <2>9 DEF Recover
      <3>2. j \notin Due(FALSE)
        BY <1>1, <2>1 DEF Due
      <3> QED BY <2>2, <3>1, <3>2 DEF RecoverRows
    <2>10. ASSUME TimePasses PROVE FALSE
      BY <1>1, <2>1, <2>10 DEF TimePasses, Tick, Row
    <2>11. ASSUME UNCHANGED vars PROVE FALSE
      BY <2>2, <2>11 DEF vars
    <2> QED
      BY <1>1, <2>3, <2>4, <2>5, <2>6, <2>7, <2>8, <2>9, <2>10, <2>11 DEF Next
  <1>2. IInv /\ [Next]_vars =>
          \A j \in Jobs :
            Running(j) /\ job[j].lease > 0 /\ job'[j].status # "running"
              => \E w \in Workers :
                   /\ job[j].worker = w
                   /\ <<j, job[j].token>> \in held[w]
                   /\ Complete(w) \/ EndFinish(w)
    BY <1>1
  <1> QED BY <1>2, InductiveInvariant, PTL DEF Spec, LeaseProtectsOwner
=============================================================================
