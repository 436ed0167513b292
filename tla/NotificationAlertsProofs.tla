---------------------- MODULE NotificationAlertsProofs ----------------------
(***************************************************************************)
(* Theorems about NotificationAlerts, for every value of its constants.    *)
(***************************************************************************)
EXTENDS NotificationAlerts, FiniteSetTheorems, TLAPS

USE DEF journal, history

\* A row keeps its type when its state or its next attempt is rewritten.
LEMMA PendingRows ==
  /\ NoRow \in PendingRow
  /\ \A r \in PendingRow, s \in {"none"} \cup InTransit \cup Final :
       [r EXCEPT !.state = s] \in PendingRow
  /\ \A r \in PendingRow, s \in {"none"} \cup InTransit \cup Final, n \in Nat :
       [r EXCEPT !.state = s, !.next = n] \in PendingRow
BY DEF NoRow, PendingRow

\* Attention keeps its type when it is created, retired or deleted.
LEMMA AttentionRowTypes ==
  /\ NoAttention \in AttentionRow
  /\ \A r \in AttentionRow : [r EXCEPT !.state = "retired"] \in AttentionRow
BY NumbersAssumption DEF NoAttention, AttentionRow, Owners

\* The worker's memory keeps its type when it moves to a row, past it, or is replaced.
LEMMA WorkerTypes ==
  ASSUME TypeOK
  PROVE  /\ NoWorker \in Worker
         /\ \A rest \in SUBSET Intents : NextRow(rest) \in Worker
         /\ \A p \in Procs : [NoWorker EXCEPT !.proc = p] \in Worker
         /\ \A batch \in SUBSET Intents :
              [worker EXCEPT !.phase = "drain", !.batch = batch] \in Worker
         /\ [worker EXCEPT !.phase = "transport"] \in Worker
         /\ \A answer \in Answers :
              [worker EXCEPT !.phase = "answered", !.answer = answer] \in Worker
         /\ \A i \in Intents, phase \in {"claimed", "transport"} :
              [worker EXCEPT !.phase = phase, !.batch = @ \ {i}, !.row = {i}] \in Worker
BY DEF TypeOK, NoWorker, NextRow, Worker, Answers

\* remove(), as a handler and as the answer to a 403 or 404.
LEMMA RemoveRowsType ==
  ASSUME TypeOK, NEW g \in Grants, RemoveRows(g)
  PROVE  /\ grants' \in [Grants -> {"absent", "active", "removed"}]
         /\ attention' \in [Intents -> AttentionRow]
         /\ subs' \subseteq Grants \X Sessions
         /\ pending' \in [Intents -> PendingRow]
BY PendingRows, AttentionRowTypes DEF RemoveRows, TypeOK

\* _retire_approval_scope writes tombstones and retires rows.
LEMMA RetireType ==
  ASSUME TypeOK, NEW p \in Procs, NEW t \in Turns, NEW k \in Keys, RetireApprovalScope(p, t, k)
  PROVE  /\ attention' \in [Intents -> AttentionRow]
         /\ pending' \in [Intents -> PendingRow]
<1>1. [state |-> "retired", owner |-> Owner(p), expires |-> now] \in AttentionRow
  BY NumbersAssumption DEF TypeOK, AttentionRow, Owner, Owners
<1>2. attention' \in [Intents -> AttentionRow]
  BY <1>1, AttentionRowTypes DEF RetireApprovalScope, TypeOK
<1>3. pending' \in [Intents -> PendingRow]
  BY PendingRows DEF RetireApprovalScope, TypeOK, Final
<1> QED BY <1>2, <1>3

\* _queue_event inserts into three tables and counts the insertion.
LEMMA QueueEventType ==
  ASSUME TypeOK, NEW p \in Procs, NEW t \in Turns, NEW k \in Keys, QueueEvent(p, t, k)
  PROVE  /\ attention' \in [Intents -> AttentionRow]
         /\ events' \in [Intents -> Nat \cup {Absent}]
         /\ pending' \in [Intents -> PendingRow]
         /\ queued' \in [Intents -> 0..2]
         /\ observer' \in [Intents -> Owners]
<1>1. now \in Nat /\ TTL(k) \in Nat /\ Owner(p) \in Owners /\ <<p, epoch[p]>> \in Owners
  BY NumbersAssumption DEF TypeOK, TTL, Owner, Owners
<1>2. \A i \in Intents : Earlier(now + TTL(k), GrantExpires[i[1]]) \in Nat
  BY <1>1, ShapeAssumption DEF Earlier, Intents
<1>3. now + (IF k \in Tools THEN Grace ELSE 0) \in Nat
  BY <1>1, NumbersAssumption
<1>4. \A e \in Nat : [state |-> "pending", owner |-> Owner(p), expires |-> e] \in AttentionRow
  BY <1>1 DEF AttentionRow
<1>5. \A e, n \in Nat : [state |-> "pending", next |-> n, expires |-> e] \in PendingRow
  BY DEF PendingRow, InTransit
<1>6. attention' \in [Intents -> AttentionRow]
  BY <1>2, <1>4 DEF QueueEvent, TypeOK
<1>7. pending' \in [Intents -> PendingRow]
  BY <1>2, <1>3, <1>5 DEF QueueEvent, TypeOK
<1>8. events' \in [Intents -> Nat \cup {Absent}] /\ observer' \in [Intents -> Owners]
  BY <1>1 DEF QueueEvent, TypeOK
<1>9. queued' \in [Intents -> 0..2]
  BY DEF QueueEvent, Counted, Earlier, TypeOK
<1> QED BY <1>6, <1>7, <1>8, <1>9

\* A final refusal rewrites the states of one intent's two rows.
LEMMA FailRowType ==
  ASSUME TypeOK, NEW i \in Intents, FailRow(i)
  PROVE  pending' \in [Intents -> PendingRow] /\ attention' \in [Intents -> AttentionRow]
<1>1. pending[i] \in PendingRow /\ attention[i] \in AttentionRow
  BY DEF TypeOK
<1>2. [pending[i] EXCEPT !.state = IF @ = "sending" THEN "failed" ELSE @] \in PendingRow
  BY <1>1 DEF PendingRow, Final
<1>3. [attention[i] EXCEPT !.state = IF @ = "pending" THEN "retired" ELSE @] \in AttentionRow
  BY <1>1 DEF AttentionRow
<1> QED BY <1>2, <1>3 DEF FailRow, TypeOK

\* The transaction that opens a drain.
LEMMA SweepType ==
  ASSUME TypeOK, NEW p \in Procs, Sweep(p)
  PROVE  TypeOK'
<1>1. attention' \in [Intents -> AttentionRow]
  BY AttentionRowTypes DEF Sweep, SweptAttention, TypeOK
<1>2. \A i \in Intents : SweptPending(p, i) \in PendingRow
  <2> SUFFICES ASSUME NEW i \in Intents PROVE SweptPending(p, i) \in PendingRow
    OBVIOUS
  <2>1. pending[i] \in PendingRow
    BY DEF TypeOK
  <2>2. pending[i].state \in {"none"} \cup InTransit \cup Final
    BY <2>1 DEF PendingRow
  <2>3. {"retired", "pending", "expired"} \subseteq {"none"} \cup InTransit \cup Final
    BY DEF InTransit, Final
  <2> QED BY <2>1, <2>2, <2>3, PendingRows DEF SweptPending
<1>3. pending' \in [Intents -> PendingRow]
  BY <1>2, PendingRows DEF Sweep
<1>4. worker' \in Worker
  <2>1. \A batch \in SUBSET Intents :
          [worker EXCEPT !.phase = "drain", !.batch = batch] \in Worker
    BY WorkerTypes
  <2>2. worker \in Worker
    BY DEF TypeOK
  <2> QED BY <2>1, <2>2 DEF Sweep
<1>5. events' \in [Intents -> Nat \cup {Absent}]
  BY DEF Sweep, TypeOK
<1>6. grants' \in [Grants -> {"absent", "active", "removed"}] /\ subs' \subseteq Grants \X Sessions
  BY DEF Sweep, TypeOK
<1> QED BY <1>1, <1>3, <1>4, <1>5, <1>6 DEF Sweep, TypeOK

\* The claim of one row.
LEMMA ClaimType ==
  ASSUME TypeOK, NEW p \in Procs, NEW i \in Intents, Claim(p, i)
  PROVE  TypeOK'
<1>1. pending' \in [Intents -> PendingRow]
  <2>1. pending[i] \in PendingRow /\ now + ClaimLease \in Nat
    BY NumbersAssumption DEF TypeOK
  <2>2. [pending[i] EXCEPT !.state = "sending", !.next = now + ClaimLease] \in PendingRow
    BY <2>1, PendingRows DEF InTransit
  <2> QED BY <2>2 DEF Claim, TypeOK
<1>2. worker' \in Worker
  <2>1. /\ \A rest \in SUBSET Intents : NextRow(rest) \in Worker
        /\ \A phase \in {"claimed", "transport"} :
             [worker EXCEPT !.phase = phase, !.batch = @ \ {i}, !.row = {i}] \in Worker
    BY WorkerTypes
  <2>2. worker.batch \ {i} \in SUBSET Intents
    BY DEF TypeOK, Worker
  <2> QED BY <2>1, <2>2 DEF Claim
<1> QED BY <1>1, <1>2 DEF Claim, TypeOK

\* The last local fence before an approval's call.
LEMMA FenceType ==
  ASSUME TypeOK, NEW p \in Procs, NEW i \in Intents, Fence(p, i)
  PROVE  TypeOK'
<1>1. pending' \in [Intents -> PendingRow] /\ attention' \in [Intents -> AttentionRow]
  BY FailRowType DEF Fence, TypeOK
<1>2. worker' \in Worker
  <2>1. worker.batch \in SUBSET Intents
    BY DEF TypeOK, Worker
  <2> QED BY <2>1, WorkerTypes DEF Fence
<1> QED BY <1>1, <1>2 DEF Fence, TypeOK

\* The transaction that records the relay's answer.
LEMMA RecordType ==
  ASSUME TypeOK, NEW p \in Procs, NEW i \in Intents, Record(p, i)
  PROVE  TypeOK'
<1>1. worker' \in Worker
  <2>1. worker.batch \in SUBSET Intents
    BY DEF TypeOK, Worker
  <2> QED BY <2>1, WorkerTypes DEF Record
<1>2. pending[i] \in PendingRow
  BY DEF TypeOK
<1>3. CASE Accepted(i)
  <2>1. [pending[i] EXCEPT !.state = IF @ = "sending" THEN "accepted" ELSE @] \in PendingRow
    BY <1>2 DEF PendingRow, Final
  <2> QED BY <1>1, <1>3, <2>1 DEF Accepted, Record, TypeOK
<1>4. CASE Retried(i)
  <2>1. \A delay \in Backoffs : now + delay \in Nat
    BY NumbersAssumption DEF TypeOK
  <2>2. \A n \in Nat : [pending[i] EXCEPT !.state = "pending", !.next = n] \in PendingRow
    BY <1>2, PendingRows DEF InTransit
  <2>3. \E n \in Nat : pending' = pending \/ pending' = [pending EXCEPT ![i].state = "pending", ![i].next = n]
    BY <1>4, <2>1 DEF Retried
  <2>4. pending' \in [Intents -> PendingRow]
    BY <2>2, <2>3 DEF TypeOK
  <2> QED BY <1>1, <1>4, <2>4 DEF Retried, Record, TypeOK
<1>5. CASE Refused(i)
  BY <1>1, <1>5, FailRowType DEF Refused, Record, TypeOK
<1>6. CASE RemoveRows(i[1])
  <2>1. i[1] \in Grants
    BY DEF Intents
  <2> QED BY <1>1, <1>6, <2>1, RemoveRowsType DEF Record, TypeOK
<1> QED BY <1>3, <1>4, <1>5, <1>6 DEF Record

\* The variables of every state are in their types: the rows of the journal keep
\* the states the code writes, and the clock and the epochs stay in their bounds.
LEMMA TypeStep == TypeOK /\ [Next]_vars => TypeOK'
<1> SUFFICES ASSUME TypeOK, [Next]_vars PROVE TypeOK'
  OBVIOUS
<1>1. CASE Tick
  BY <1>1, NumbersAssumption DEF Tick, TypeOK
<1>2. ASSUME NEW g \in Grants, Enroll(g) PROVE TypeOK'
  BY <1>2 DEF Enroll, TypeOK
<1>3. ASSUME NEW g \in Grants, Remove(g) PROVE TypeOK'
  BY <1>3, RemoveRowsType DEF Remove, TypeOK
<1>4. ASSUME NEW g \in Grants, NEW s \in Sessions, BeginSubscribe(g, s) PROVE TypeOK'
  BY <1>4 DEF BeginSubscribe, TypeOK
<1>5. ASSUME NEW g \in Grants, NEW s \in Sessions, FinishSubscribe(g, s) PROVE TypeOK'
  BY <1>5 DEF FinishSubscribe, TypeOK
<1>6. ASSUME NEW g \in Grants, NEW s \in Sessions, Unsubscribe(g, s) PROVE TypeOK'
  BY <1>6, PendingRows, AttentionRowTypes DEF Unsubscribe, TypeOK
<1>7. ASSUME NEW s \in Sessions, Archive(s) PROVE TypeOK'
  BY <1>7 DEF Archive, TypeOK
<1>8. ASSUME NEW p \in Procs, NEW t \in Turns, NEW k \in Keys,
             PreApproval(p, t, k) \/ PublishClarification(p, t, k) \/ SubagentStop(p, t, k)
      PROVE  TypeOK'
  <2>1. QueueEvent(p, t, k)
    BY <1>8 DEF PreApproval, PublishClarification, SubagentStop
  <2> QED BY <1>8, <2>1, QueueEventType
          DEF PreApproval, PublishClarification, SubagentStop, TypeOK
<1>9. ASSUME NEW p \in Procs, NEW t \in Turns, NEW k \in Keys, AlertOutcome(p, t, k) PROVE TypeOK'
  <2>1. QueueEvent(p, t, k)
    BY <1>9 DEF AlertOutcome
  <2> QED BY <1>9, <2>1, QueueEventType DEF AlertOutcome, TypeOK
<1>10. ASSUME NEW p \in Procs, NEW t \in Turns, NEW k \in Keys, SettleTool(p, t, k) PROVE TypeOK'
  <2>1. RetireApprovalScope(p, t, k)
    BY <1>10 DEF SettleTool
  <2> QED BY <1>10, <2>1, RetireType DEF SettleTool, TypeOK
<1>11. ASSUME NEW p \in Procs, NEW t \in Turns, EndTurn(p, t) PROVE TypeOK'
  <2>1. RetireApprovalScope(p, t, TurnEnd) /\ TurnEnd \in Keys
    BY <1>11 DEF EndTurn, Keys
  <2> QED BY <1>11, <2>1, RetireType DEF EndTurn, TypeOK
<1>12. ASSUME NEW p \in Procs, NEW t \in Turns, SilentOutcome(p, t) PROVE TypeOK'
  BY <1>12 DEF SilentOutcome, TypeOK
<1>13. ASSUME NEW p \in Procs, ProducerLoaded(p) PROVE TypeOK'
  BY <1>13, WorkerTypes DEF ProducerLoaded, TypeOK
<1>14. ASSUME NEW p \in Procs, Sweep(p) PROVE TypeOK'
  BY <1>14, SweepType
<1>15. ASSUME NEW p \in Procs, StopWorker(p) PROVE TypeOK'
  BY <1>15, WorkerTypes DEF StopWorker, TypeOK
<1>16. ASSUME NEW p \in Procs, NEW i \in Intents, Claim(p, i) PROVE TypeOK'
  BY <1>16, ClaimType
<1>17. ASSUME NEW p \in Procs, NEW i \in Intents, Fence(p, i) PROVE TypeOK'
  BY <1>17, FenceType
<1>18. ASSUME NEW p \in Procs, NEW i \in Intents, NEW answer \in Answers, Transport(p, i, answer)
       PROVE  TypeOK'
  <2>1. worker' \in Worker
    BY <1>18, WorkerTypes DEF Transport
  <2>2. late' \in [Intents -> 0..2]
    BY <1>18 DEF Transport, Counted, Earlier, TypeOK
  <2> QED BY <1>18, <2>1, <2>2 DEF Transport, TypeOK
<1>19. ASSUME NEW p \in Procs, NEW i \in Intents, Record(p, i) PROVE TypeOK'
  BY <1>19, RecordType
<1>20. ASSUME NEW p \in Procs, Close(p) PROVE TypeOK'
  BY <1>20 DEF Close, TypeOK
<1>21. ASSUME NEW p \in Procs, Restart(p) PROVE TypeOK'
  <2>1. worker' \in Worker
    BY <1>21, WorkerTypes DEF Restart, TypeOK
  <2>2. epoch' \in [Procs -> 0..MaxEpoch]
    BY <1>21, NumbersAssumption DEF Restart, TypeOK
  <2>3. loaded' \in [Procs -> BOOLEAN] /\ closed' \in [Procs -> BOOLEAN]
    BY <1>21 DEF Restart, TypeOK
  <2>4. ending' \subseteq Procs \X Turns
    BY <1>21 DEF Restart, TypeOK
  <2> QED BY <1>21, <2>1, <2>2, <2>3, <2>4 DEF Restart, TypeOK
<1>22. CASE UNCHANGED vars
  BY <1>22 DEF vars, TypeOK
<1> QED
  BY <1>1, <1>2, <1>3, <1>4, <1>5, <1>6, <1>7, <1>8, <1>9, <1>10, <1>11, <1>12, <1>13,
     <1>14, <1>15, <1>16, <1>17, <1>18, <1>19, <1>20, <1>21, <1>22
  DEF Next, Authority, Observe, Drain, Keys

\* Every reachable state of the journal, the processes and the worker is typed:
\* no handler, hook or late UPDATE writes a state or a time the readers do not expect.
THEOREM Typing == Spec => []TypeOK
<1>1. Init => TypeOK
  BY NumbersAssumption, ShapeAssumption
  DEF Init, TypeOK, Absent, NoRow, NoAttention, NoWorker, PendingRow, AttentionRow, Worker, Owners
<1> QED BY <1>1, TypeStep, PTL DEF Spec

-----------------------------------------------------------------------------
\* The safety invariants, strengthened until every step preserves them.

Inv ==
  /\ TypeOK
  /\ Strengthening
  /\ RetiredStaysSilent /\ AttentionBacked
  /\ QueuedOnce /\ OwnObservationOnly /\ TurnEndIsFinal

\* What a step must do to the journal for the invariant to survive, when it neither
\* inserts an intent nor moves the worker's hand.

LEMMA MoreRows ==
  ASSUME NEW g \in Grants, AttentionRows(g) \subseteq AttentionRows(g)',
         Cardinality(AttentionRows(g)) >= AttentionLimit
  PROVE  Cardinality(AttentionRows(g)') >= AttentionLimit
<1>1. IsFiniteSet(AttentionRows(g)')
  BY ShapeAssumption, FS_Subset DEF AttentionRows
<1>2. Cardinality(AttentionRows(g)) <= Cardinality(AttentionRows(g)')
  BY <1>1, FS_Subset
<1>3. Cardinality(AttentionRows(g)) \in Nat /\ Cardinality(AttentionRows(g)') \in Nat
  BY <1>1, FS_Subset, FS_CardinalityType
<1> QED BY <1>2, <1>3, NumbersAssumption

\* A table of attention that only grows, or whose grant is over, keeps every turn
\* that ended fenced.
LEMMA TurnStaysFenced ==
  ASSUME TypeOK, TypeOK', TurnFenced, ended' = ended, now <= now',
         \A i \in Intents : attention[i].state # "none" =>
           attention'[i].state # "none" \/ GrantExpires[i[1]] <= now'
  PROVE  TurnFenced'
<1> SUFFICES ASSUME NEW e \in ended, ~(GrantExpires[e[1]] <= now')
             PROVE  \/ attention'[<<e[1], e[2], TurnEnd>>].state # "none"
                    \/ Cardinality(AttentionRows(e[1])') >= AttentionLimit
  BY DEF TurnFenced
<1>1. e[1] \in Grants /\ e[2] \in Turns /\ <<e[1], e[2], TurnEnd>> \in Intents
  BY DEF TypeOK, Intents, Keys
<1>2. now \in Nat /\ now' \in Nat /\ GrantExpires[e[1]] \in Nat
  BY <1>1, NumbersAssumption, ShapeAssumption DEF TypeOK
<1>3. CASE attention[<<e[1], e[2], TurnEnd>>].state # "none"
  BY <1>1, <1>3
<1>4. CASE Cardinality(AttentionRows(e[1])) >= AttentionLimit
  <2>1. AttentionRows(e[1]) \subseteq AttentionRows(e[1])'
    BY DEF AttentionRows
  <2> QED BY <1>1, <1>4, <2>1, MoreRows
<1> QED BY <1>2, <1>3, <1>4 DEF TurnFenced

\* A step that leaves the journal, the histories and the worker alone.
LEMMA Stutter ==
  ASSUME Inv, TypeOK',
         UNCHANGED <<now, grants, events, pending, attention, epoch, worker,
                     queued, observer, ended>>
  PROVE  Inv'
BY DEF Inv, Strengthening, RowInHand, JournalAgrees, Agrees, TurnFenced, AttentionRows, GrantActive,
       RetiredStaysSilent, AttentionBacked, QueuedOnce, OwnObservationOnly, TurnEndIsFinal

\* Time only takes authority away.
LEMMA TickStep ==
  ASSUME Inv, TypeOK', Tick
  PROVE  Inv'
<1> USE DEF Inv, Strengthening
<1>1. now \in Nat /\ now' = now + 1 /\ UNCHANGED <<grants, events, pending, attention, epoch,
        worker, queued, observer, ended>>
  BY NumbersAssumption DEF Tick, TypeOK
<1>2. \A i \in Intents : GrantExpires[i[1]] \in Nat /\ GrantCreated[i[1]] \in Nat
  BY ShapeAssumption DEF Intents
<1>3. JournalAgrees'
  BY <1>1, <1>2 DEF JournalAgrees, Agrees, GrantActive
<1>4. TurnFenced'
  BY <1>1, TurnStaysFenced
<1> QED BY <1>1, <1>3, <1>4 DEF RowInHand, RetiredStaysSilent, AttentionBacked, QueuedOnce,
          OwnObservationOnly, TurnEndIsFinal

\* An enrollment turns an absent grant, which left no request, into an active one.
LEMMA EnrollStep ==
  ASSUME Inv, TypeOK', NEW g \in Grants, Enroll(g)
  PROVE  Inv'
<1> USE DEF Inv, Strengthening
<1>1. UNCHANGED <<now, events, pending, attention, epoch, worker, queued, observer, ended>>
  BY DEF Enroll
<1>2. JournalAgrees'
  BY <1>1 DEF Enroll, JournalAgrees, Agrees, GrantActive, TypeOK, InTransit
<1>3. TurnFenced'
  BY <1>1, NumbersAssumption, TurnStaysFenced DEF TypeOK
<1> QED BY <1>1, <1>2, <1>3 DEF RowInHand, RetiredStaysSilent, AttentionBacked, QueuedOnce,
          OwnObservationOnly, TurnEndIsFinal

\* Steps that retire attention and withdraw requests, and do nothing else to the
\* journal: removal, unsubscription, settlement, and the worker's own failures.
Withdraws ==
  /\ \A i \in Intents :
       /\ \/ attention'[i] = attention[i]
          \/ /\ attention'[i].state = "retired" /\ attention[i].state # "none"
             /\ attention'[i].owner = attention[i].owner
             /\ attention'[i].expires = attention[i].expires
       /\ pending'[i].state \in InTransit => pending'[i].state = pending[i].state
       /\ attention'[i].state = "pending" =>
            pending'[i].state = pending[i].state /\ pending'[i].expires = pending[i].expires
       /\ attention'[i].state = "retired" => pending'[i].state \notin InTransit
       /\ pending[i].state = "none" => pending'[i].state = "none"
  /\ \A g \in Grants : grants'[g] = grants[g] \/ (grants[g] = "active" /\ grants'[g] = "removed")
  /\ UNCHANGED <<now, events, epoch, queued, observer, ended>>

\* Withdrawing rows keeps the invariant, whoever withdraws them.
LEMMA WithdrawStep ==
  ASSUME Inv, TypeOK', Withdraws, 
         UNCHANGED worker \/ worker' = NextRow(worker.batch)
  PROVE  Inv'
<1> USE DEF Inv, Strengthening
<1>1. JournalAgrees'
  <2> SUFFICES ASSUME NEW i \in Intents
               PROVE  Agrees(i)'
    BY DEF JournalAgrees
  <2>1. Agrees(i) /\ i[1] \in Grants
    BY DEF JournalAgrees, Intents
  <2>2. /\ now' = now /\ events' = events /\ queued' = queued /\ observer' = observer
        /\ grants'[i[1]] = grants[i[1]] \/ (grants[i[1]] = "active" /\ grants'[i[1]] = "removed")
    BY <2>1 DEF Withdraws
  <2>3. /\ \/ attention'[i] = attention[i]
           \/ attention'[i].state = "retired" /\ attention[i].state # "none"
        /\ pending'[i].state \in InTransit => pending'[i].state = pending[i].state
        /\ pending[i].state = "none" => pending'[i].state = "none"
    BY DEF Withdraws
  <2> QED BY <2>1, <2>2, <2>3 DEF Agrees, GrantActive
<1>2. TurnFenced'
  BY NumbersAssumption, TurnStaysFenced DEF Withdraws, TypeOK
<1>3. RowInHand'
  <2>1. CASE UNCHANGED worker
    BY <2>1 DEF Withdraws, RowInHand, InTransit, TypeOK, Worker
  <2>2. CASE worker' = NextRow(worker.batch)
    BY <2>2 DEF NextRow, RowInHand, TypeOK, Worker
  <2> QED BY <2>1, <2>2
<1>4. OwnObservationOnly'
  <2>1. CASE UNCHANGED worker
    BY <2>1 DEF Withdraws, OwnObservationOnly
  <2>2. CASE worker' = NextRow(worker.batch)
    BY <2>2 DEF NextRow, OwnObservationOnly, TypeOK, Worker
  <2> QED BY <2>1, <2>2
<1>5. RetiredStaysSilent' /\ AttentionBacked'
  BY DEF Withdraws, RetiredStaysSilent, AttentionBacked
<1>6. QueuedOnce' /\ TurnEndIsFinal'
  BY DEF Withdraws, QueuedOnce, TurnEndIsFinal
<1> QED BY <1>1, <1>2, <1>3, <1>4, <1>5, <1>6

\* remove() withdraws.
LEMMA RemoveWithdraws ==
  ASSUME Inv, TypeOK', NEW g \in Grants, RemoveRows(g),
         UNCHANGED <<now, events, epoch, queued, observer, ended>>
  PROVE  Withdraws
<1>1. ASSUME NEW i \in Intents, i[1] # g
      PROVE  attention'[i] = attention[i] /\ pending'[i] = pending[i]
  BY <1>1 DEF RemoveRows
<1>2. ASSUME NEW i \in Intents, i[1] = g
      PROVE  /\ pending'[i].state = "none"
             /\ attention[i].state = "none" => attention'[i] = attention[i]
             /\ attention[i].state # "none" =>
                  /\ attention'[i].state = "retired"
                  /\ attention'[i].owner = attention[i].owner
                  /\ attention'[i].expires = attention[i].expires
  BY <1>2 DEF RemoveRows, Inv, TypeOK, AttentionRow, NoRow
<1>3. RetiredStaysSilent
  BY DEF Inv
<1>4. \A h \in Grants : grants'[h] = grants[h] \/ (grants[h] = "active" /\ grants'[h] = "removed")
  <2> SUFFICES ASSUME NEW h \in Grants, grants'[h] # grants[h]
               PROVE  grants[h] = "active" /\ grants'[h] = "removed"
    OBVIOUS
  <2>1. grants \in [Grants -> {"absent", "active", "removed"}]
    BY DEF Inv, TypeOK
  <2>2. h = g
    BY <2>1 DEF RemoveRows
  <2> QED BY <2>1, <2>2 DEF RemoveRows
<1>5. \A i \in Intents : i[1] = g \/ i[1] # g
  OBVIOUS
<1>6. ASSUME NEW i \in Intents
      PROVE  /\ \/ attention'[i] = attention[i]
                \/ /\ attention'[i].state = "retired" /\ attention[i].state # "none"
                   /\ attention'[i].owner = attention[i].owner
                   /\ attention'[i].expires = attention[i].expires
             /\ pending'[i] = pending[i] \/ pending'[i].state = "none"
             /\ attention'[i].state = "pending" => pending'[i] = pending[i]
             /\ attention'[i].state = "retired" => pending'[i].state \notin InTransit
  <2>1. CASE i[1] # g
    BY <1>1, <1>3, <2>1 DEF RetiredStaysSilent
  <2>2. CASE i[1] = g
    BY <1>2, <2>2 DEF InTransit
  <2> QED BY <2>1, <2>2
<1> QED BY <1>4, <1>6 DEF Withdraws, InTransit

\* An unsubscription withdraws.
LEMMA UnsubscribeWithdraws ==
  ASSUME Inv, TypeOK', NEW g \in Grants, NEW s \in Sessions, Unsubscribe(g, s)
  PROVE  Withdraws
<1> DEFINE scope == {i \in Intents : i[1] = g /\ SessionOf[i[2]] = s}
<1>1. ASSUME NEW i \in Intents, i \notin scope
      PROVE  attention'[i] = attention[i] /\ pending'[i] = pending[i]
  BY <1>1 DEF Unsubscribe
<1>2. ASSUME NEW i \in Intents, i \in scope
      PROVE  /\ pending'[i].state = "none"
             /\ attention[i].state = "none" => attention'[i] = attention[i]
             /\ attention[i].state # "none" =>
                  /\ attention'[i].state = "retired"
                  /\ attention'[i].owner = attention[i].owner
                  /\ attention'[i].expires = attention[i].expires
  BY <1>2 DEF Unsubscribe, Inv, TypeOK, AttentionRow, NoRow
<1>3. RetiredStaysSilent
  BY DEF Inv
<1>4. UNCHANGED <<now, grants, events, epoch, queued, observer, ended>>
  BY DEF Unsubscribe
<1>5. ASSUME NEW i \in Intents
      PROVE  /\ \/ attention'[i] = attention[i]
                \/ /\ attention'[i].state = "retired" /\ attention[i].state # "none"
                   /\ attention'[i].owner = attention[i].owner
                   /\ attention'[i].expires = attention[i].expires
             /\ pending'[i] = pending[i] \/ pending'[i].state = "none"
             /\ attention'[i].state = "pending" => pending'[i] = pending[i]
             /\ attention'[i].state = "retired" => pending'[i].state \notin InTransit
  <2>1. CASE i \notin scope
    BY <1>1, <1>3, <2>1 DEF RetiredStaysSilent
  <2>2. CASE i \in scope
    BY <1>2, <2>2 DEF InTransit
  <2> QED BY <2>1, <2>2
<1> QED BY <1>4, <1>5 DEF Withdraws, InTransit

\* A tombstone is a new retired row where there was none, and only where a tool
\* call or the turn's end may be recorded.
LEMMA RetireStep ==
  ASSUME Inv, TypeOK', NEW p \in Procs, NEW t \in Turns, NEW k \in Tools \cup {TurnEnd},
         RetireApprovalScope(p, t, k),
         UNCHANGED <<now, grants, events, epoch, worker, queued, observer>>,
         \A e \in ended : e \in ended',
         \A e \in ended' : e \in ended \/
           /\ e \in Grants \X Turns /\ e[2] = t /\ k = TurnEnd
           /\ GrantActive(e[1]) /\ Tools \cap Permits[e[1]] # {}
  PROVE  Inv'
<1> USE DEF Inv, Strengthening
<1> DEFINE holders == {g \in Grants : GrantActive(g) /\ Tools \cap Permits[g] # {}}
<1>1. ASSUME NEW i \in Intents
      PROVE  /\ attention'[i] = attention[i] \/ attention'[i].state = "retired"
             /\ attention[i].state # "none" => attention'[i].state # "none"
             /\ attention'[i].state # "none" => attention[i].state # "none" \/ i[3] = k
             /\ pending'[i].state = pending[i].state \/
                  (pending'[i].state = "retired" /\ attention'[i].state = "retired")
             /\ pending'[i].expires = pending[i].expires
             /\ attention'[i].state = "retired" /\ attention[i].state # "none"
                  => attention[i].state = "retired" \/ pending'[i].state \notin InTransit
  BY DEF RetireApprovalScope, TypeOK, AttentionRow, PendingRow, InTransit
<1>2. \A i \in Intents : attention'[i].state = "pending" => attention'[i] = attention[i]
  BY <1>1
<1>3. RetiredStaysSilent'
  <2> SUFFICES ASSUME NEW i \in Intents, attention'[i].state = "retired"
               PROVE  pending'[i].state \notin InTransit
    BY DEF RetiredStaysSilent
  <2>1. CASE attention[i].state # "none"
    BY <1>1, <2>1 DEF RetiredStaysSilent, InTransit
  <2>2. CASE attention[i].state = "none"
    <3>1. i[3] = k
      BY <1>1, <2>2
    <3>2. pending[i].state = "none"
      BY <2>2, <3>1 DEF JournalAgrees, Agrees
    <3> QED BY <1>1, <3>2 DEF InTransit
  <2> QED BY <2>1, <2>2
<1>4. AttentionBacked'
  <2> SUFFICES ASSUME NEW i \in Intents, attention'[i].state = "pending"
               PROVE  /\ pending'[i].state \in InTransit \cup {"accepted"}
                      /\ pending'[i].expires = attention'[i].expires
    BY DEF AttentionBacked
  <2>1. attention[i].state = "pending" /\ attention'[i].expires = attention[i].expires
    BY <1>2
  <2> QED BY <1>1, <2>1 DEF AttentionBacked
<1>5. JournalAgrees'
  <2> SUFFICES ASSUME NEW i \in Intents PROVE Agrees(i)'
    BY DEF JournalAgrees
  <2>1. /\ attention'[i].state # "none" => i[3] \in Tools \cup {TurnEnd}
        /\ attention'[i].state = "pending" => observer'[i] = attention'[i].owner
    BY <1>1, <1>2 DEF JournalAgrees, Agrees
  <2>2. attention'[i].state = "none" => attention'[i] = attention[i] /\ pending'[i].state = pending[i].state
    BY <1>1
  <2>3. /\ i[3] \in Tools \cup {TurnEnd} /\ attention'[i].state = "none" => pending'[i].state = "none"
        /\ pending[i].state = "none" => pending'[i].state = "none"
    BY <2>2, <1>1 DEF JournalAgrees, Agrees, RetireApprovalScope, InTransit
  <2>4. pending'[i].state \in InTransit => pending[i].state \in InTransit
    BY <1>1 DEF InTransit
  <2> QED BY <2>1, <2>3, <2>4 DEF JournalAgrees, Agrees, GrantActive
<1>6. RowInHand'
  <2>1. \A i \in worker.row : i \in Intents
    BY DEF TypeOK, Worker
  <2> QED BY <1>1, <2>1 DEF RowInHand
<1>7. OwnObservationOnly' /\ QueuedOnce'
  BY DEF OwnObservationOnly, QueuedOnce
<1>8. TurnEndIsFinal'
  <2> SUFFICES ASSUME NEW i \in Intents, <<i[1], i[2]>> \in ended', attention'[i].state = "pending"
               PROVE  FALSE
    BY DEF TurnEndIsFinal
  <2>1. attention[i].state = "pending" /\ <<i[1], i[2]>> \notin ended
    BY <1>2 DEF TurnEndIsFinal
  <2>2. i[1] \in holders /\ i[2] = t /\ k = TurnEnd
    BY <2>1 DEF Intents
  <2> QED BY <2>1, <2>2 DEF RetireApprovalScope
<1>9. TurnFenced'
  <2> SUFFICES ASSUME NEW e \in ended'
               PROVE  \/ attention'[<<e[1], e[2], TurnEnd>>].state # "none"
                      \/ Cardinality(AttentionRows(e[1])') >= AttentionLimit
                      \/ GrantExpires[e[1]] <= now'
    BY DEF TurnFenced
  <2>1. e[1] \in Grants /\ e[2] \in Turns /\ <<e[1], e[2], TurnEnd>> \in Intents
    BY DEF TypeOK, Intents, Keys
  <2>2. \/ attention'[<<e[1], e[2], TurnEnd>>].state # "none"
        \/ Cardinality(AttentionRows(e[1])) >= AttentionLimit
        \/ GrantExpires[e[1]] <= now
    <3>1. CASE e \in ended
      BY <1>1, <2>1, <3>1 DEF TurnFenced
    <3>2. CASE e \notin ended
      <4>1. e[1] \in holders /\ e[2] = t /\ k = TurnEnd
        BY <3>2
      <4>2. Cardinality(AttentionRows(e[1])) \in Nat
        BY ShapeAssumption, FS_Subset, FS_CardinalityType DEF AttentionRows
      <4> QED BY <2>1, <4>1, <4>2, NumbersAssumption DEF RetireApprovalScope
    <3> QED BY <3>1, <3>2
  <2>3. AttentionRows(e[1]) \subseteq AttentionRows(e[1])'
    BY <1>1 DEF AttentionRows
  <2> QED BY <2>1, <2>2, <2>3, MoreRows
<1> QED BY <1>3, <1>4, <1>5, <1>6, <1>7, <1>8, <1>9

\* An insertion: the intent was unseen and its grant is live, so it was never
\* queued before, is not in the worker's hand, and meets no tombstone.
LEMMA QueueEventStep ==
  ASSUME Inv, TypeOK', NEW p \in Procs, NEW t \in Turns, NEW k \in Keys \ {TurnEnd},
         QueueEvent(p, t, k),
         UNCHANGED <<now, grants, epoch, worker, ended>>
  PROVE  Inv'
<1> USE DEF Inv, Strengthening
<1>0. PICK crowded \in SUBSET Grants : QueueEvent(p, t, k)!(crowded)
  BY DEF QueueEvent
<1> DEFINE new == {i \in Intents : i[2] = t /\ i[3] = k /\ Admits(i, crowded)}
           expires(i) == Earlier(now + TTL(k), GrantExpires[i[1]])
<1>1. ASSUME NEW i \in Intents, i \notin new
      PROVE  /\ attention'[i] = attention[i] /\ events'[i] = events[i] /\ pending'[i] = pending[i]
             /\ observer'[i] = observer[i] /\ queued'[i] = queued[i]
  BY <1>0, <1>1 DEF Counted
<1>2. ASSUME NEW i \in Intents, i \in new
      PROVE  /\ events[i] = Absent /\ GrantActive(i[1]) /\ i[3] = k /\ i[2] = t
             /\ events'[i] = now /\ pending'[i].state = "pending" /\ pending'[i].expires = expires(i)
             /\ observer'[i] = <<p, epoch[p]>> /\ queued'[i] = Earlier(queued[i] + 1, 2)
  BY <1>0, <1>2 DEF Admits, Unseen, Counted
<1>3. \A i \in Intents : (i \in new /\ k \in Tools) =>
        /\ attention[i].state = "none" /\ attention[<<i[1], i[2], TurnEnd>>].state = "none"
        /\ Cardinality(AttentionRows(i[1])) < AttentionLimit
        /\ attention'[i].state = "pending" /\ attention'[i].owner = Owner(p)
        /\ attention'[i].expires = expires(i)
  <2> SUFFICES ASSUME NEW i \in Intents, i \in new /\ k \in Tools
               PROVE  /\ attention[i].state = "none" /\ attention[<<i[1], i[2], TurnEnd>>].state = "none"
                      /\ Cardinality(AttentionRows(i[1])) < AttentionLimit
                      /\ attention'[i].state = "pending" /\ attention'[i].owner = Owner(p)
                      /\ attention'[i].expires = expires(i)
    OBVIOUS
  <2>1. i[3] \in Tools /\ Admits(i, crowded)
    OBVIOUS
  <2>2. Undecided(i) /\ HasRoom(i)
    BY <2>1 DEF Admits
  <2>3. attention'[i] = [state |-> "pending", owner |-> Owner(p), expires |-> expires(i)]
    BY <1>0
  <2> QED BY <2>1, <2>2, <2>3 DEF Undecided, HasRoom
<1>4. ASSUME NEW i \in Intents, i \in new, k \notin Tools
      PROVE  attention'[i] = attention[i] /\ attention[i].state = "none"
  <2>1. attention'[i] = attention[i]
    BY <1>0, <1>4
  <2>2. i[3] \notin Tools \cup {TurnEnd}
    BY <1>2, <1>4
  <2> QED BY <2>1, <2>2 DEF JournalAgrees, Agrees
<1>5. \A i \in Intents : i[1] \in Grants /\ GrantCreated[i[1]] \in Nat /\ GrantExpires[i[1]] \in Nat
  BY ShapeAssumption DEF Intents
<1>6. now \in Nat /\ now # Absent
  BY NumbersAssumption DEF TypeOK, Absent
<1>7. \A i \in Intents : i \in new => grants[i[1]] = "active" /\ GrantExpires[i[1]] > now
  BY <1>2 DEF GrantActive
<1> HIDE DEF new, expires
<1>8. JournalAgrees'
  <2> SUFFICES ASSUME NEW i \in Intents PROVE Agrees(i)'
    BY DEF JournalAgrees
  <2>1. CASE i \notin new
    BY <1>1, <2>1 DEF JournalAgrees, Agrees, GrantActive
  <2>2. CASE i \in new /\ k \in Tools
    <3>1. attention'[i].state = "pending" /\ attention'[i].owner = <<p, epoch[p]>>
      BY <1>3, <2>2 DEF Owner
    <3> QED BY <1>2, <1>6, <1>7, <2>2, <3>1 DEF JournalAgrees, Agrees, GrantActive
  <2>3. CASE i \in new /\ k \notin Tools
    <3>1. attention'[i].state = "none" /\ i[3] \notin Tools \cup {TurnEnd}
      BY <1>2, <1>4, <2>3
    <3> QED BY <1>2, <1>6, <1>7, <2>3, <3>1 DEF JournalAgrees, Agrees, GrantActive
  <2> QED BY <2>1, <2>2, <2>3
<1>9. RetiredStaysSilent' /\ AttentionBacked'
  <2> SUFFICES ASSUME NEW i \in Intents
               PROVE  /\ attention'[i].state = "retired" => pending'[i].state \notin InTransit
                      /\ attention'[i].state = "pending" =>
                           /\ pending'[i].state \in InTransit \cup {"accepted"}
                           /\ pending'[i].expires = attention'[i].expires
    BY DEF RetiredStaysSilent, AttentionBacked
  <2>1. CASE i \notin new
    BY <1>1, <2>1 DEF RetiredStaysSilent, AttentionBacked
  <2>2. CASE i \in new /\ k \in Tools
    <3>1. attention'[i].state = "pending" /\ attention'[i].expires = expires(i)
      BY <1>3, <2>2
    <3> QED BY <1>2, <2>2, <3>1 DEF InTransit
  <2>3. CASE i \in new /\ k \notin Tools
    BY <1>4, <2>3
  <2> QED BY <2>1, <2>2, <2>3
<1>10. \A i \in worker.row : i \in Intents /\ i \notin new
  BY <1>2 DEF RowInHand, TypeOK, Worker
<1>11. RowInHand' /\ OwnObservationOnly'
  BY <1>1, <1>10 DEF RowInHand, OwnObservationOnly
<1>12. QueuedOnce'
  <2> SUFFICES ASSUME NEW i \in Intents PROVE queued'[i] <= 1
    BY DEF QueuedOnce
  <2>1. CASE i \notin new
    BY <1>1, <2>1 DEF QueuedOnce
  <2>2. CASE i \in new
    <3>1. queued[i] = 0
      BY <1>2, <1>5, <1>6, <1>7, <2>2 DEF JournalAgrees, Agrees
    <3> QED BY <1>2, <2>2, <3>1 DEF Earlier
  <2> QED BY <2>1, <2>2
<1>13. TurnEndIsFinal'
  <2> SUFFICES ASSUME NEW i \in Intents, <<i[1], i[2]>> \in ended, attention'[i].state = "pending"
               PROVE  FALSE
    BY DEF TurnEndIsFinal
  <2>1. i \in new /\ k \in Tools
    BY <1>1, <1>4 DEF TurnEndIsFinal
  <2>2. \/ attention[<<i[1], i[2], TurnEnd>>].state # "none"
        \/ Cardinality(AttentionRows(i[1])) >= AttentionLimit
        \/ GrantExpires[i[1]] <= now
    BY DEF TurnFenced
  <2>3. Cardinality(AttentionRows(i[1])) \in Nat
    BY ShapeAssumption, FS_Subset, FS_CardinalityType DEF AttentionRows
  <2> QED BY <1>3, <1>5, <1>6, <1>7, <2>1, <2>2, <2>3, NumbersAssumption
<1>14. TurnFenced'
  <2>1. \A i \in Intents : attention[i].state # "none" => attention'[i].state # "none"
    BY <1>1, <1>3, <1>4
  <2> QED BY <1>6, <2>1, TurnStaysFenced
<1> QED BY <1>8, <1>9, <1>11, <1>12, <1>13, <1>14

\* The sweep: retention takes an event only when its grant is over, a deleted grant
\* takes its rows along, and the rows of one approval are retired together.
LEMMA SweepStep ==
  ASSUME Inv, TypeOK', NEW p \in Procs, Sweep(p)
  PROVE  Inv'
<1> USE DEF Inv, Strengthening
<1> DEFINE gone == {g \in Grants : grants[g] # "absent" /\ GrantExpires[g] < now - GrantRetention}
<1>1. /\ UNCHANGED <<now, epoch, queued, observer, ended>>
      /\ worker.phase = "idle" /\ worker'.row = worker.row /\ worker.row = {}
      /\ worker'.phase \in {"idle", "drain"}
  BY DEF Sweep, RowInHand, TypeOK, Worker
<1>2. now \in Nat /\ GrantRetention \in Nat /\ EventRetention \in Nat /\ PendingRetention \in Nat
  BY NumbersAssumption DEF TypeOK
<1>3. \A i \in Intents :
        /\ i[1] \in Grants /\ GrantCreated[i[1]] \in Nat /\ GrantExpires[i[1]] \in Nat
        /\ GrantExpires[i[1]] <= GrantCreated[i[1]] + EventRetention
  BY ShapeAssumption, LifetimeAssumption DEF Intents
<1>4. \A i \in Intents : i[1] \in gone =>
        /\ GrantExpires[i[1]] <= now
        /\ attention'[i].state = "none" /\ pending'[i].state = "none"
        /\ events'[i] = Absent /\ grants'[i[1]] = "absent"
  BY <1>2, <1>3 DEF Sweep, NoAttention, NoRow
<1>5. \A i \in Intents : i[1] \notin gone =>
        /\ attention'[i] = SweptAttention(p, i) /\ pending'[i] = SweptPending(p, i)
        /\ events'[i] = IF events[i] < now - EventRetention THEN Absent ELSE events[i]
        /\ grants'[i[1]] = grants[i[1]]
  BY <1>3 DEF Sweep, TypeOK
<1> HIDE DEF gone
<1>6. ASSUME NEW i \in Intents
      PROVE  LET a == SweptAttention(p, i) IN
             /\ a = attention[i] \/ (attention[i].state = "pending" /\ a.state = "retired")
             /\ a.state = "pending" => a = attention[i] /\ attention[i].expires > now
             /\ a.state = "none" => attention[i].state = "none"
  <2>1. attention[i] \in AttentionRow
    BY DEF TypeOK
  <2> QED BY <1>2, <2>1 DEF SweptAttention, AttentionRow
<1>7. ASSUME NEW i \in Intents
      PROVE  LET q == SweptPending(p, i) IN
             /\ pending[i].state = "none" => q.state = "none"
             /\ q.state \in InTransit =>
                  pending[i].state \in InTransit /\ SweptAttention(p, i).state # "retired"
             /\ (pending[i].state \in InTransit \cup {"accepted"} /\ pending[i].expires > now
                   /\ SweptAttention(p, i).state # "retired") =>
                  q.state \in InTransit \cup {"accepted"} /\ q.expires = pending[i].expires
  <2>1. pending[i] \in PendingRow
    BY DEF TypeOK
  <2> QED BY <1>2, <2>1 DEF SweptPending, PendingRow, InTransit, Final, NoRow
<1>8. JournalAgrees'
  <2> SUFFICES ASSUME NEW i \in Intents PROVE Agrees(i)'
    BY DEF JournalAgrees
  <2>1. CASE i[1] \in gone
    BY <1>1, <1>4, <2>1 DEF Agrees, InTransit
  <2>2. CASE i[1] \notin gone
    <3>1. Agrees(i)
      BY DEF JournalAgrees
    <3>2. /\ attention'[i].state # "none" => attention[i].state # "none"
          /\ attention'[i].state = "pending" => attention'[i] = attention[i]
          /\ attention'[i].state = "none" => attention[i].state = "none"
      BY <1>5, <1>6, <2>2
    <3>3. /\ pending[i].state = "none" => pending'[i].state = "none"
          /\ pending'[i].state \in InTransit => pending[i].state \in InTransit
      BY <1>5, <1>7, <2>2
    <3>4. /\ events'[i] # Absent => events'[i] = events[i]
          /\ events[i] # Absent /\ GrantExpires[i[1]] > now => events'[i] = events[i]
      <4>1. events[i] \in Nat \cup {Absent} /\ Absent \notin Nat
        BY DEF TypeOK, Absent
      <4> QED BY <1>2, <1>3, <1>5, <2>2, <3>1, <4>1 DEF Agrees
    <3>5. events'[i] = Absent /\ events[i] # Absent => GrantExpires[i[1]] <= now
      BY <1>2, <1>3, <3>4
    <3> QED BY <1>1, <1>5, <2>2, <3>1, <3>2, <3>3, <3>4, <3>5 DEF Agrees, GrantActive
  <2> QED BY <2>1, <2>2
<1>9. RetiredStaysSilent' /\ AttentionBacked'
  <2> SUFFICES ASSUME NEW i \in Intents
               PROVE  /\ attention'[i].state = "retired" => pending'[i].state \notin InTransit
                      /\ attention'[i].state = "pending" =>
                           /\ pending'[i].state \in InTransit \cup {"accepted"}
                           /\ pending'[i].expires = attention'[i].expires
    BY DEF RetiredStaysSilent, AttentionBacked
  <2>1. CASE i[1] \in gone
    BY <1>4, <2>1
  <2>2. CASE i[1] \notin gone
    <3>1. attention'[i].state = "retired" => pending'[i].state \notin InTransit
      BY <1>5, <1>7, <2>2
    <3>2. ASSUME attention'[i].state = "pending"
          PROVE  /\ pending'[i].state \in InTransit \cup {"accepted"}
                 /\ pending'[i].expires = attention'[i].expires
      <4>1. attention'[i] = attention[i] /\ attention[i].expires > now
        BY <1>5, <1>6, <2>2, <3>2
      <4>2. /\ pending[i].state \in InTransit \cup {"accepted"}
            /\ pending[i].expires = attention[i].expires
        BY <3>2, <4>1 DEF AttentionBacked
      <4>3. SweptAttention(p, i).state # "retired"
        BY <1>5, <2>2, <3>2
      <4> QED BY <1>5, <1>7, <2>2, <4>1, <4>2, <4>3
    <3> QED BY <3>1, <3>2
  <2> QED BY <2>1, <2>2
<1>10. RowInHand' /\ OwnObservationOnly'
  BY <1>1 DEF RowInHand, OwnObservationOnly
<1>11. QueuedOnce'
  BY <1>1 DEF QueuedOnce
<1>12. TurnEndIsFinal'
  BY <1>1, <1>4, <1>5, <1>6 DEF TurnEndIsFinal
<1>13. TurnFenced'
  <2>1. \A i \in Intents : attention[i].state # "none" =>
          attention'[i].state # "none" \/ GrantExpires[i[1]] <= now'
    BY <1>1, <1>4, <1>5, <1>6
  <2> QED BY <1>1, <1>2, <2>1, TurnStaysFenced
<1> QED BY <1>8, <1>9, <1>10, <1>11, <1>12, <1>13

\* Steps of the worker that only move its hand.
LEMMA HandStep ==
  ASSUME Inv, TypeOK',
         UNCHANGED <<now, grants, events, pending, attention, queued, observer, ended>>,
         worker' # worker => worker'.row = {} /\ worker'.phase \in {"idle", "drain"},
         worker' = worker => \A p \in Procs : worker.proc = p => epoch'[p] = epoch[p]
  PROVE  Inv'
<1> USE DEF Inv, Strengthening
<1>1. RowInHand'
  BY DEF RowInHand, TypeOK, Worker
<1>2. JournalAgrees' /\ RetiredStaysSilent' /\ AttentionBacked' /\ QueuedOnce' /\ TurnEndIsFinal'
  BY DEF JournalAgrees, Agrees, GrantActive, RetiredStaysSilent, AttentionBacked, QueuedOnce,
         TurnEndIsFinal
<1>3. TurnFenced'
  BY NumbersAssumption, TurnStaysFenced DEF TypeOK
<1>4. OwnObservationOnly'
  <2>1. CASE worker' # worker
    BY <2>1 DEF OwnObservationOnly
  <2>2. CASE worker' = worker
    BY <2>2 DEF OwnObservationOnly, RowInHand, TypeOK, Worker
  <2> QED BY <2>1, <2>2
<1> QED BY <1>1, <1>2, <1>3, <1>4

\* A claim takes a row that is pending, hence not in anybody's hand.
LEMMA ClaimStep ==
  ASSUME Inv, TypeOK', NEW p \in Procs, NEW i \in Intents, Claim(p, i)
  PROVE  Inv'
<1> USE DEF Inv, Strengthening
<1>1. /\ UNCHANGED <<now, grants, events, attention, epoch, queued, observer, ended>>
      /\ worker.proc = p /\ worker.phase = "drain" /\ worker.row = {}
  BY DEF Claim, RowInHand
<1>2. CASE UNCHANGED pending /\ worker' = NextRow(worker.batch \ {i})
  BY <1>1, <1>2, HandStep DEF NextRow, TypeOK, Worker
<1>3. CASE /\ pending[i].state = "pending" /\ GrantActive(i[1])
           /\ pending' = [pending EXCEPT ![i].state = "sending", ![i].next = now + ClaimLease]
           /\ worker' = [worker EXCEPT !.phase = IF i[3] \in Tools THEN "claimed" ELSE "transport",
                                       !.batch = @ \ {i}, !.row = {i}]
  <2>1. /\ pending'[i].state = "sending" /\ pending'[i].expires = pending[i].expires
        /\ \A j \in Intents \ {i} : pending'[j] = pending[j]
    BY <1>3 DEF TypeOK, PendingRow
  <2>2. worker'.row = {i} /\ worker'.proc = p /\ (worker'.phase = "transport" => i[3] \notin Tools)
        /\ worker'.phase \in {"claimed", "transport"}
    BY <1>1, <1>3 DEF TypeOK, Worker
  <2>3. events[i] # Absent
    BY <1>3 DEF JournalAgrees, Agrees, InTransit
  <2>4. RowInHand'
    BY <1>1, <2>1, <2>2, <2>3, ShapeAssumption DEF RowInHand
  <2>5. JournalAgrees'
    <3>1. ASSUME NEW j \in Intents \ {i} PROVE Agrees(j)'
      BY <1>1, <2>1 DEF JournalAgrees, Agrees, GrantActive, InTransit
    <3>2. Agrees(i)'
      BY <1>1, <1>3, <2>1, <2>3 DEF JournalAgrees, Agrees, GrantActive, InTransit
    <3> QED BY <3>1, <3>2 DEF JournalAgrees
  <2>6. RetiredStaysSilent' /\ AttentionBacked'
    <3>1. attention' = attention
      BY <1>1
    <3>2. RetiredStaysSilent'
      BY <1>3, <2>1, <3>1 DEF RetiredStaysSilent, InTransit
    <3>3. AttentionBacked'
      BY <1>3, <2>1, <3>1 DEF AttentionBacked, InTransit
    <3> QED BY <3>2, <3>3
  <2>7. OwnObservationOnly'
    BY <2>2 DEF OwnObservationOnly
  <2>8. QueuedOnce' /\ TurnEndIsFinal'
    BY <1>1 DEF QueuedOnce, TurnEndIsFinal
  <2>9. TurnFenced'
    BY <1>1, NumbersAssumption, TurnStaysFenced DEF TypeOK
  <2> QED BY <2>4, <2>5, <2>6, <2>7, <2>8, <2>9
<1> QED BY <1>2, <1>3 DEF Claim

\* A final refusal: the row in hand is not pending, so its attention is retired
\* together with a request that is no longer in transit.
LEMMA FailWithdraws ==
  ASSUME Inv, NEW i \in worker.row, FailRow(i),
         UNCHANGED <<now, grants, events, epoch, queued, observer, ended>>
  PROVE  Withdraws
<1> USE DEF Inv, Strengthening
<1>1. i \in Intents /\ pending[i].state # "pending"
  BY DEF RowInHand, TypeOK, Worker
<1>2. attention[i] \in AttentionRow /\ pending[i] \in PendingRow
  BY <1>1 DEF TypeOK
<1>3. /\ pending'[i].state = IF pending[i].state = "sending" THEN "failed" ELSE pending[i].state
      /\ pending'[i].expires = pending[i].expires
      /\ attention'[i].state = IF attention[i].state = "pending" THEN "retired" ELSE attention[i].state
      /\ attention'[i].owner = attention[i].owner /\ attention'[i].expires = attention[i].expires
      /\ attention[i].state # "pending" => attention'[i] = attention[i]
  BY <1>1, <1>2 DEF FailRow, TypeOK, PendingRow, AttentionRow
<1>4. \A j \in Intents \ {i} : pending'[j] = pending[j] /\ attention'[j] = attention[j]
  BY <1>1 DEF FailRow, TypeOK
<1>5. ASSUME NEW j \in Intents
      PROVE  /\ \/ attention'[j] = attention[j]
                \/ /\ attention'[j].state = "retired" /\ attention[j].state # "none"
                   /\ attention'[j].owner = attention[j].owner
                   /\ attention'[j].expires = attention[j].expires
             /\ pending'[j].state \in InTransit => pending'[j].state = pending[j].state
             /\ attention'[j].state = "pending" =>
                  pending'[j].state = pending[j].state /\ pending'[j].expires = pending[j].expires
             /\ attention'[j].state = "retired" => pending'[j].state \notin InTransit
             /\ pending[j].state = "none" => pending'[j].state = "none"
  <2>1. CASE j # i
    BY <1>4, <2>1 DEF RetiredStaysSilent
  <2>2. CASE j = i
    BY <1>1, <1>2, <1>3, <2>2 DEF InTransit, RetiredStaysSilent, PendingRow, AttentionRow
  <2> QED BY <2>1, <2>2
<1> QED BY <1>5 DEF Withdraws

\* An approval that passes the fence was observed by this very incarnation.
LEMMA FenceStep ==
  ASSUME Inv, TypeOK', NEW p \in Procs, NEW i \in Intents, Fence(p, i)
  PROVE  Inv'
<1> USE DEF Inv, Strengthening
<1>1. i \in worker.row /\ worker.proc = p
  BY DEF Fence
<1>2. CASE ~ApprovalTransportReady(p, i)
  BY <1>1, <1>2, FailWithdraws, WithdrawStep DEF Fence
<1>3. CASE ApprovalTransportReady(p, i)
  <2>1. /\ UNCHANGED <<now, grants, events, pending, attention, epoch, queued, observer, ended>>
        /\ worker'.row = worker.row /\ worker'.proc = p /\ worker'.phase = "transport"
    BY <1>3, <1>1 DEF Fence, TypeOK, Worker
  <2>2. observer[i] = <<p, epoch[p]>>
    BY <1>3 DEF ApprovalTransportReady, JournalAgrees, Agrees, Owner
  <2>3. \A j \in worker.row : j = i
    BY <1>1 DEF RowInHand
  <2>4. OwnObservationOnly'
    BY <2>1, <2>2, <2>3 DEF OwnObservationOnly
  <2>5. RowInHand'
    BY <1>1, <2>1, ShapeAssumption DEF RowInHand
  <2>6. JournalAgrees' /\ RetiredStaysSilent' /\ AttentionBacked' /\ QueuedOnce' /\ TurnEndIsFinal'
    BY <2>1 DEF JournalAgrees, Agrees, GrantActive, RetiredStaysSilent, AttentionBacked, QueuedOnce,
                TurnEndIsFinal
  <2>7. TurnFenced'
    BY <2>1, NumbersAssumption, TurnStaysFenced DEF TypeOK
  <2> QED BY <2>4, <2>5, <2>6, <2>7
<1> QED BY <1>2, <1>3

\* The call itself changes only the worker's memory.
LEMMA TransportStep ==
  ASSUME Inv, TypeOK', NEW p \in Procs, NEW i \in Intents, NEW answer \in Answers,
         Transport(p, i, answer)
  PROVE  Inv'
<1> USE DEF Inv, Strengthening
<1>1. /\ UNCHANGED <<now, grants, events, pending, attention, epoch, queued, observer, ended>>
      /\ worker'.row = worker.row /\ worker'.proc = worker.proc /\ worker'.phase = "answered"
  BY DEF Transport, TypeOK, Worker
<1>2. RowInHand' /\ OwnObservationOnly'
  BY <1>1 DEF RowInHand, OwnObservationOnly
<1>3. JournalAgrees' /\ RetiredStaysSilent' /\ AttentionBacked' /\ QueuedOnce' /\ TurnEndIsFinal'
  BY <1>1 DEF JournalAgrees, Agrees, GrantActive, RetiredStaysSilent, AttentionBacked, QueuedOnce,
              TurnEndIsFinal
<1>4. TurnFenced'
  BY <1>1, NumbersAssumption, TurnStaysFenced DEF TypeOK
<1> QED BY <1>2, <1>3, <1>4

\* The answer is recorded on a row that is sending, or has been withdrawn meanwhile.
LEMMA RecordStep ==
  ASSUME Inv, TypeOK', NEW p \in Procs, NEW i \in Intents, Record(p, i)
  PROVE  Inv'
<1> USE DEF Inv, Strengthening
<1>1. /\ i \in worker.row /\ worker' = NextRow(worker.batch)
      /\ UNCHANGED <<now, events, epoch, queued, observer, ended>>
  BY DEF Record
<1>2. pending[i].state # "pending" /\ events[i] # Absent
  BY <1>1 DEF RowInHand
<1>3. CASE RemoveRows(i[1])
  <2>1. i[1] \in Grants
    BY DEF Intents
  <2> QED BY <1>1, <1>3, <2>1, RemoveWithdraws, WithdrawStep
<1>4. CASE Refused(i)
  BY <1>1, <1>4, FailWithdraws, WithdrawStep DEF Refused
<1>5. CASE Accepted(i) \/ Retried(i)
  <2>1. UNCHANGED <<grants, attention>>
    BY <1>5 DEF Accepted, Retried
  <2>2. pending[i] \in PendingRow
    BY DEF TypeOK
  <2>3. /\ \A j \in Intents \ {i} : pending'[j] = pending[j]
        /\ pending'[i].expires = pending[i].expires
        /\ pending[i].state # "sending" => pending'[i].state = pending[i].state
        /\ pending[i].state = "sending" => pending'[i].state \in {"accepted", "pending"}
    BY <1>5, <2>2 DEF Accepted, Retried, TypeOK, PendingRow
  <2>4. \A j \in Intents :
          /\ pending'[j].state \in InTransit => pending[j].state \in InTransit
          /\ pending[j].state = "none" => pending'[j].state = "none"
          /\ pending'[j].expires = pending[j].expires
          /\ pending[j].state \in InTransit \cup {"accepted"} =>
               pending'[j].state \in InTransit \cup {"accepted"}
    BY <2>3 DEF InTransit
  <2>5. JournalAgrees'
    BY <1>1, <2>1, <2>4 DEF JournalAgrees, Agrees, GrantActive
  <2>6. RetiredStaysSilent' /\ AttentionBacked'
    BY <2>1, <2>4 DEF RetiredStaysSilent, AttentionBacked
  <2>7. RowInHand' /\ OwnObservationOnly'
    BY <1>1 DEF NextRow, RowInHand, OwnObservationOnly, TypeOK, Worker
  <2>8. QueuedOnce' /\ TurnEndIsFinal'
    BY <1>1, <2>1 DEF QueuedOnce, TurnEndIsFinal
  <2>9. TurnFenced'
    BY <1>1, <2>1, NumbersAssumption, TurnStaysFenced DEF TypeOK
  <2> QED BY <2>5, <2>6, <2>7, <2>8, <2>9
<1> QED BY <1>3, <1>4, <1>5 DEF Record

LEMMA InvStep == Inv /\ [Next]_vars => Inv'
<1> SUFFICES ASSUME Inv, [Next]_vars PROVE Inv'
  OBVIOUS
<1>0. TypeOK'
  BY TypeStep DEF Inv
<1>1. CASE Tick
  BY <1>0, <1>1, TickStep
<1>2. ASSUME NEW g \in Grants, Enroll(g) PROVE Inv'
  BY <1>0, <1>2, EnrollStep
<1>3. ASSUME NEW g \in Grants, Remove(g) PROVE Inv'
  BY <1>0, <1>3, RemoveWithdraws, WithdrawStep DEF Remove
<1>4. ASSUME NEW g \in Grants, NEW s \in Sessions, BeginSubscribe(g, s) \/ FinishSubscribe(g, s)
      PROVE  Inv'
  BY <1>0, <1>4, Stutter DEF BeginSubscribe, FinishSubscribe
<1>5. ASSUME NEW g \in Grants, NEW s \in Sessions, Unsubscribe(g, s) PROVE Inv'
  <2>1. UNCHANGED worker
    BY <1>5 DEF Unsubscribe
  <2> QED BY <1>0, <1>5, <2>1, UnsubscribeWithdraws, WithdrawStep
<1>6. ASSUME NEW s \in Sessions, Archive(s) PROVE Inv'
  BY <1>0, <1>6, Stutter DEF Archive
<1>7. ASSUME NEW p \in Procs, NEW t \in Turns, NEW k \in Keys \ {TurnEnd},
             \/ PreApproval(p, t, k) \/ PublishClarification(p, t, k)
             \/ SubagentStop(p, t, k) \/ AlertOutcome(p, t, k)
      PROVE  Inv'
  <2>1. QueueEvent(p, t, k) /\ UNCHANGED <<now, grants, epoch, worker, ended>>
    BY <1>7 DEF PreApproval, PublishClarification, SubagentStop, AlertOutcome
  <2> QED BY <1>0, <2>1, QueueEventStep
<1>8. ASSUME NEW p \in Procs, NEW t \in Turns, NEW k \in Tools, SettleTool(p, t, k) PROVE Inv'
  BY <1>0, <1>8, RetireStep DEF SettleTool
<1>9. ASSUME NEW p \in Procs, NEW t \in Turns, EndTurn(p, t) PROVE Inv'
  <2>1. /\ RetireApprovalScope(p, t, TurnEnd)
        /\ UNCHANGED <<now, grants, events, epoch, worker, queued, observer>>
        /\ \A e \in ended : e \in ended'
        /\ \A e \in ended' : e \in ended \/
             /\ e \in Grants \X Turns /\ e[2] = t /\ TurnEnd = TurnEnd
             /\ GrantActive(e[1]) /\ Tools \cap Permits[e[1]] # {}
    BY <1>9 DEF EndTurn
  <2> QED BY <1>0, <2>1, RetireStep
<1>10. ASSUME NEW p \in Procs, NEW t \in Turns, SilentOutcome(p, t) PROVE Inv'
  BY <1>0, <1>10, Stutter DEF SilentOutcome
<1>11. ASSUME NEW p \in Procs, ProducerLoaded(p) \/ StopWorker(p) \/ Close(p) \/ Restart(p)
       PROVE  Inv'
  <2>1. worker' # worker => worker'.row = {} /\ worker'.phase \in {"idle", "drain"}
    BY <1>11 DEF ProducerLoaded, StopWorker, Close, Restart, NoWorker
  <2>2. UNCHANGED <<now, grants, events, pending, attention, queued, observer, ended>>
    BY <1>11 DEF ProducerLoaded, StopWorker, Close, Restart
  <2>3. worker' = worker => \A q \in Procs : worker.proc = q => epoch'[q] = epoch[q]
    <3>1. p # NoProc
      BY ShapeAssumption
    <3>2. CASE UNCHANGED epoch
      BY <3>2
    <3>3. CASE Restart(p)
      BY <3>1, <3>3 DEF Restart, NoWorker, Inv, TypeOK
    <3> QED BY <1>11, <3>2, <3>3 DEF ProducerLoaded, StopWorker, Close
  <2> QED BY <1>0, <2>1, <2>2, <2>3, HandStep
<1>12. ASSUME NEW p \in Procs, Sweep(p) PROVE Inv'
  BY <1>0, <1>12, SweepStep
<1>13. ASSUME NEW p \in Procs, NEW i \in Intents, Claim(p, i) PROVE Inv'
  BY <1>0, <1>13, ClaimStep
<1>14. ASSUME NEW p \in Procs, NEW i \in Intents, Fence(p, i) PROVE Inv'
  BY <1>0, <1>14, FenceStep
<1>15. ASSUME NEW p \in Procs, NEW i \in Intents, NEW answer \in Answers, Transport(p, i, answer)
       PROVE  Inv'
  BY <1>0, <1>15, TransportStep
<1>16. ASSUME NEW p \in Procs, NEW i \in Intents, Record(p, i) PROVE Inv'
  BY <1>0, <1>16, RecordStep
<1>17. CASE UNCHANGED vars
  BY <1>0, <1>17, Stutter DEF vars
<1>18. Tools \cup Questions \cup Children \cup Outcomes \subseteq Keys \ {TurnEnd}
  BY ShapeAssumption DEF Keys
<1> QED
  BY <1>1, <1>2, <1>3, <1>4, <1>5, <1>6, <1>7, <1>8, <1>9, <1>10, <1>11, <1>12, <1>13,
     <1>14, <1>15, <1>16, <1>17, <1>18
  DEF Next, Authority, Observe, Drain

LEMMA Safety == Spec => []Inv
<1>1. Init => Inv
  <2>1. Init => TypeOK
    BY NumbersAssumption, ShapeAssumption
    DEF Init, TypeOK, Absent, NoRow, NoAttention, NoWorker, PendingRow, AttentionRow, Worker, Owners
  <2> QED BY <2>1
    DEF Init, Inv, Strengthening, RowInHand, JournalAgrees, Agrees, TurnFenced, RetiredStaysSilent,
        AttentionBacked, QueuedOnce, OwnObservationOnly, TurnEndIsFinal, NoRow, NoAttention,
        NoWorker, InTransit, Intents
<1> QED BY <1>1, InvStep, PTL DEF Spec

\* No request of a retired attention is ever in transit again, whatever the worker
\* had in flight when it was retired.
THEOREM RetirementHolds == Spec => []RetiredStaysSilent
BY Safety, PTL DEF Inv

\* Waiting attention and its request are written, expired and retired together.
THEOREM AttentionAlwaysBacked == Spec => []AttentionBacked
BY Safety, PTL DEF Inv

\* Retention and grant deletion never let a repeated hook queue an intent again.
THEOREM EveryIntentQueuedOnce == Spec => []QueuedOnce
BY Safety, PTL DEF Inv

\* An approval is sent by the incarnation that observed it or by none.
THEOREM NeverARecoveredPrompt == Spec => []OwnObservationOnly
BY Safety, PTL DEF Inv

\* After a recorded turn end no approval of the turn waits for attention.
THEOREM TurnEndStaysFinal == Spec => []TurnEndIsFinal
BY Safety, PTL DEF Inv
-----------------------------------------------------------------------------
\* One call without authority at most: LateIsSpent on top of Inv.

\* What a step must leave alone for LateIsSpent to survive: rows in transit were in
\* transit with the same deadline, and events and removed grants go only when the
\* grant is over.
Spares ==
  /\ now' \in Nat /\ now \in Nat /\ now <= now'
  /\ \A i \in Intents :
       /\ pending'[i].state \in InTransit =>
            pending[i].state \in InTransit /\ pending'[i].expires = pending[i].expires
       /\ events[i] # Absent => events'[i] # Absent \/ GrantExpires[i[1]] <= now'
       /\ events'[i] # Absent => events[i] # Absent /\ grants'[i[1]] # "absent"
       /\ grants[i[1]] = "removed" => grants'[i[1]] = "removed" \/ GrantExpires[i[1]] <= now'

\* The worker's hand is where it was, or nowhere near the relay.
HandRests ==
  worker'.phase \in {"claimed", "transport"} =>
    worker.phase \in {"claimed", "transport"} /\ worker'.row = worker.row

\* A worker that goes on to the next row has none in its hand.
LEMMA NextRests ==
  ASSUME TypeOK, NEW rest
  PROVE  NextRow(rest).phase \notin {"claimed", "transport"}
BY DEF TypeOK, Worker, NextRow

\* What was past being claimed stays so.
LEMMA SpentStays ==
  ASSUME TypeOK, TypeOK', Spares, NEW i \in Intents, Spent(i)
  PROVE  Spent(i)'
<1>1. GrantExpires[i[1]] \in Nat
  BY ShapeAssumption DEF Intents
<1>2. /\ pending[i] \in PendingRow /\ pending'[i] \in PendingRow
      /\ pending'[i].state \in InTransit =>
            pending[i].state \in InTransit /\ pending'[i].expires = pending[i].expires
      /\ events[i] # Absent => events'[i] # Absent \/ GrantExpires[i[1]] <= now'
      /\ grants[i[1]] = "removed" => grants'[i[1]] = "removed" \/ GrantExpires[i[1]] <= now'
      /\ now' \in Nat /\ now \in Nat /\ now <= now'
  BY DEF Spares, TypeOK
<1>3. pending[i].expires \in Nat
  BY <1>2 DEF PendingRow
<1> QED BY <1>1, <1>2, <1>3 DEF Spent

\* A step that spares the journal and sends nothing without authority.
LEMMA SparesStep ==
  ASSUME TypeOK, TypeOK', LateIsSpent, Spares, HandRests, UNCHANGED late
  PROVE  LateIsSpent'
<1>1. \A i \in Intents : late'[i] # 0 => Spent(i)'
  BY SpentStays DEF LateIsSpent
<1> QED BY <1>1 DEF LateIsSpent, HandRests, Spares

\* _queue_event gives a row to intents without an event only, which no late call had
\* unless their grant is over.
LEMMA QueueEventSpares ==
  ASSUME Inv, TypeOK', LateIsSpent, NEW p \in Procs, NEW t \in Turns, NEW k \in Keys,
         QueueEvent(p, t, k), UNCHANGED <<now, grants, worker, late>>
  PROVE  LateIsSpent'
<1>1. PICK crowded \in SUBSET Grants :
        LET new == {i \in Intents : i[2] = t /\ i[3] = k /\ Admits(i, crowded)} IN
        /\ events' = [i \in Intents |-> IF i \in new THEN now ELSE events[i]]
        /\ \A i \in Intents \ new : pending'[i] = pending[i]
  BY DEF QueueEvent
<1> DEFINE new == {i \in Intents : i[2] = t /\ i[3] = k /\ Admits(i, crowded)}
<1>2. now \in Nat /\ Absent \notin Nat
  BY DEF Inv, TypeOK, Absent
<1>3. \A i \in Intents : i[1] \in Grants /\ GrantExpires[i[1]] \in Nat
  BY ShapeAssumption DEF Intents
<1>4. \A i \in new : events[i] = Absent /\ grants[i[1]] = "active" /\ ~(GrantExpires[i[1]] <= now)
  BY <1>2, <1>3 DEF Admits, Unseen, GrantActive
<1>5. \A i \in Intents : i \notin new => events'[i] = events[i] /\ pending'[i] = pending[i]
  BY <1>1
<1>6. \A i \in new : late[i] = 0
  BY <1>4 DEF LateIsSpent, Spent
<1> HIDE DEF new
<1>7. \A i \in Intents : late'[i] # 0 => Spent(i)'
  <2> SUFFICES ASSUME NEW i \in Intents, late'[i] # 0 PROVE Spent(i)'
    OBVIOUS
  <2>1. i \notin new /\ Spent(i)
    BY <1>6 DEF LateIsSpent
  <2> QED BY <1>5, <2>1 DEF Spent
<1>8. \A i \in Intents : events'[i] # Absent => grants'[i[1]] # "absent"
  BY <1>4, <1>5 DEF LateIsSpent
<1> QED BY <1>7, <1>8 DEF LateIsSpent

\* The sweep ends rows and deletes them; an event goes only when its grant is over.
LEMMA SweepSpares ==
  ASSUME Inv, TypeOK', LateIsSpent, NEW p \in Procs, Sweep(p)
  PROVE  Spares
<1> DEFINE gone == {g \in Grants : grants[g] # "absent" /\ GrantExpires[g] < now - GrantRetention}
<1>1. /\ now \in Nat /\ GrantRetention \in Nat /\ EventRetention \in Nat /\ PendingRetention \in Nat
      /\ now' = now
  BY NumbersAssumption DEF Inv, TypeOK, Sweep
<1>2. ASSUME NEW i \in Intents
      PROVE  /\ i[1] \in Grants /\ GrantCreated[i[1]] \in Nat /\ GrantExpires[i[1]] \in Nat
             /\ GrantExpires[i[1]] <= GrantCreated[i[1]] + EventRetention
             /\ events[i] \in Nat \cup {Absent} /\ Absent \notin Nat
             /\ pending[i] \in PendingRow /\ Agrees(i)
             /\ events[i] # Absent => grants[i[1]] # "absent"
  BY ShapeAssumption, LifetimeAssumption
  DEF Intents, Inv, Strengthening, JournalAgrees, TypeOK, Absent, LateIsSpent
<1>3. ASSUME NEW i \in Intents
      PROVE  /\ pending'[i] = IF i[1] \in gone THEN NoRow ELSE SweptPending(p, i)
             /\ events'[i] = IF i[1] \in gone \/ events[i] < now - EventRetention
                             THEN Absent ELSE events[i]
             /\ grants'[i[1]] = IF i[1] \in gone THEN "absent" ELSE grants[i[1]]
  BY <1>2 DEF Sweep
<1>4. ASSUME NEW i \in Intents, i[1] \in gone
      PROVE  GrantExpires[i[1]] <= now
  BY <1>1, <1>2, <1>4
<1> HIDE DEF gone
<1>5. ASSUME NEW i \in Intents
      PROVE  pending'[i].state \in InTransit =>
               pending[i].state \in InTransit /\ pending'[i].expires = pending[i].expires
  <2>1. CASE i[1] \in gone
    BY <1>3, <2>1 DEF NoRow, InTransit
  <2>2. CASE i[1] \notin gone
    <3>1. pending'[i] = SweptPending(p, i) /\ pending[i] \in PendingRow
      BY <1>2, <1>3, <2>2
    <3>2. SweptPending(p, i).state \in InTransit =>
            pending[i].state \in InTransit /\ SweptPending(p, i).expires = pending[i].expires
      BY <3>1 DEF SweptPending, NoRow, InTransit, PendingRow, Final
    <3> QED BY <3>1, <3>2
  <2> QED BY <2>1, <2>2
<1>6. ASSUME NEW i \in Intents
      PROVE  events[i] # Absent => events'[i] # Absent \/ GrantExpires[i[1]] <= now'
  BY <1>1, <1>2, <1>3, <1>4 DEF Agrees
<1>7. ASSUME NEW i \in Intents
      PROVE  /\ events'[i] # Absent => events[i] # Absent /\ grants'[i[1]] # "absent"
             /\ grants[i[1]] = "removed" => grants'[i[1]] = "removed" \/ GrantExpires[i[1]] <= now'
  BY <1>1, <1>2, <1>3, <1>4
<1> QED BY <1>1, <1>5, <1>6, <1>7 DEF Spares

\* A claim takes only what is not spent.
LEMMA ClaimSpares ==
  ASSUME Inv, TypeOK', LateIsSpent, NEW p \in Procs, NEW i \in Intents, Claim(p, i)
  PROVE  LateIsSpent'
<1>1. now \in Nat /\ UNCHANGED <<now, grants, events, late>>
  BY DEF Inv, TypeOK, Claim
<1>2. Spares
  BY <1>1 DEF Claim, Spares, LateIsSpent, InTransit, Inv, TypeOK, PendingRow
<1>3. CASE pending[i].state = "pending" /\ pending[i].expires > now /\ GrantActive(i[1])
  <2>1. worker'.row = {i}
    BY <1>3 DEF Claim, Inv, TypeOK, Worker
  <2>2. GrantExpires[i[1]] \in Nat /\ pending[i].expires \in Nat
    BY ShapeAssumption DEF Intents, Inv, TypeOK, PendingRow
  <2>3. ~Spent(i)
    BY <1>1, <1>3, <2>2 DEF Spent, GrantActive, InTransit
  <2>4. late[i] = 0
    BY <2>3 DEF LateIsSpent
  <2>5. \A j \in Intents : late'[j] # 0 => Spent(j)'
    BY <1>1, <1>2, SpentStays DEF LateIsSpent, Inv
  <2> QED BY <1>1, <2>1, <2>4, <2>5 DEF LateIsSpent
<1>4. CASE ~(pending[i].state = "pending" /\ pending[i].expires > now /\ GrantActive(i[1]))
  <2>1. HandRests
    <3>1. worker' = NextRow(worker.batch \ {i})
      BY <1>4 DEF Claim
    <3> QED BY <3>1, NextRests DEF Inv, HandRests
  <2> QED BY <1>1, <1>2, <2>1, SparesStep DEF Inv
<1> QED BY <1>3, <1>4

\* The call itself: without authority it is the first one, and the intent is spent.
LEMMA TransportSpends ==
  ASSUME Inv, TypeOK', LateIsSpent, NEW p \in Procs, NEW i \in Intents, NEW answer \in Answers,
         Transport(p, i, answer)
  PROVE  LateIsSpent'
<1>1. /\ UNCHANGED <<now, grants, events, pending, attention>>
      /\ i \in worker.row /\ worker.phase = "transport" /\ worker'.phase = "answered"
  BY DEF Transport, Inv, TypeOK, Worker
<1>2. late[i] = 0 /\ events[i] # Absent /\ grants[i[1]] # "absent"
  BY <1>1 DEF LateIsSpent, Inv, Strengthening, RowInHand
<1>3. late' = late \/ (Unauthorised(i) /\ late' = Counted(late, {i}))
  BY DEF Transport
<1>4. ASSUME Unauthorised(i) PROVE Spent(i)
  <2>1. GrantExpires[i[1]] \in Nat /\ now \in Nat /\ pending[i].state \in {"none"} \cup InTransit \cup Final
        /\ grants[i[1]] \in {"absent", "active", "removed"}
        /\ attention[i].state \in {"none", "pending", "retired"}
    BY ShapeAssumption DEF Intents, Inv, TypeOK, PendingRow, AttentionRow
  <2>2. pending[i].state # "pending"
    BY <1>1 DEF Inv, Strengthening, RowInHand
  <2>3. CASE ~GrantActive(i[1])
    BY <1>2, <2>1, <2>3 DEF GrantActive, Spent
  <2>4. CASE pending[i].state # "sending" \/ pending[i].expires <= now
    BY <1>2, <2>2, <2>4 DEF Spent, InTransit
  <2>5. CASE i[3] \in Tools /\ attention[i].state # "pending"
    <3>1. pending[i].state \notin InTransit
      BY <2>1, <2>5 DEF Inv, Strengthening, JournalAgrees, Agrees, RetiredStaysSilent, InTransit
    <3> QED BY <1>2, <3>1 DEF Spent
  <2> QED BY <1>4, <2>3, <2>4, <2>5 DEF Unauthorised
<1>5. \A j \in Intents : Spent(j)' = Spent(j)
  BY <1>1 DEF Spent
<1>6. CASE late' = late
  BY <1>1, <1>5, <1>6 DEF LateIsSpent
<1>7. CASE Unauthorised(i) /\ late' = Counted(late, {i})
  <2>1. late'[i] = 1 /\ \A j \in Intents \ {i} : late'[j] = late[j]
    BY <1>2, <1>7 DEF Counted, Earlier
  <2> QED BY <1>1, <1>4, <1>5, <1>7, <2>1 DEF LateIsSpent
<1> QED BY <1>3, <1>6, <1>7

LEMMA LateStep == Inv /\ Inv' /\ LateIsSpent /\ [Next]_vars => LateIsSpent'
<1> SUFFICES ASSUME Inv, Inv', LateIsSpent, [Next]_vars PROVE LateIsSpent'
  OBVIOUS
<1>0. TypeOK /\ TypeOK'
  BY DEF Inv
<1>1. /\ now \in Nat
      /\ \A i \in Intents : i[1] \in Grants /\ (events[i] # Absent => grants[i[1]] # "absent")
  BY DEF Intents, Inv, TypeOK, LateIsSpent
<1>2. \A i \in Intents : pending[i] \in PendingRow
  BY DEF Inv, TypeOK
\* Steps that at most withdraw requests.
<1>3. ASSUME UNCHANGED <<now, grants, events, worker, late>>,
             \A i \in Intents : pending'[i].state \in InTransit =>
               pending[i].state \in InTransit /\ pending'[i].expires = pending[i].expires
      PROVE  LateIsSpent'
  BY <1>0, <1>1, <1>3, SparesStep DEF Spares, HandRests
<1>4. CASE Tick
  <2>1. Spares /\ HandRests /\ UNCHANGED late
    BY <1>1, <1>4 DEF Tick, Spares, HandRests
  <2> QED BY <1>0, <2>1, SparesStep
<1>5. ASSUME NEW g \in Grants, Enroll(g) PROVE LateIsSpent'
  <2>1. Spares /\ HandRests /\ UNCHANGED late
    BY <1>0, <1>1, <1>5 DEF Enroll, Spares, HandRests, TypeOK
  <2> QED BY <1>0, <2>1, SparesStep
<1>6. ASSUME NEW g \in Grants, RemoveRows(g), UNCHANGED <<now, events, late>>,
             UNCHANGED worker \/ worker' = NextRow(worker.batch)
      PROVE  LateIsSpent'
  <2>1. \A i \in Intents :
          /\ pending'[i] = pending[i] \/ pending'[i] = NoRow
          /\ grants'[i[1]] = grants[i[1]] \/ grants'[i[1]] = "removed"
    BY <1>0, <1>1, <1>6 DEF RemoveRows, TypeOK
  <2>2. Spares
    BY <1>1, <1>6, <2>1 DEF Spares, NoRow, InTransit
  <2>3. HandRests
    <3>1. CASE UNCHANGED worker
      BY <3>1 DEF HandRests
    <3>2. CASE worker' = NextRow(worker.batch)
      BY <1>0, <3>2, NextRests DEF HandRests
    <3> QED BY <1>6, <3>1, <3>2
  <2> QED BY <1>0, <1>6, <2>2, <2>3, SparesStep
<1>7. ASSUME NEW g \in Grants, NEW s \in Sessions, Unsubscribe(g, s) PROVE LateIsSpent'
  <2>1. \A i \in Intents : pending'[i] = pending[i] \/ pending'[i] = NoRow
    BY <1>7 DEF Unsubscribe
  <2> QED BY <1>3, <1>7, <2>1 DEF Unsubscribe, NoRow, InTransit
<1>8. ASSUME NEW p \in Procs, NEW t \in Turns, NEW k \in Keys, RetireApprovalScope(p, t, k),
             UNCHANGED <<now, grants, events, worker, late>>
      PROVE  LateIsSpent'
  <2>1. \A i \in Intents :
          pending'[i] = pending[i] \/ pending'[i] = [pending[i] EXCEPT !.state = "retired"]
    BY <1>8 DEF RetireApprovalScope
  <2> QED BY <1>2, <1>3, <1>8, <2>1 DEF InTransit, PendingRow
<1>9. ASSUME NEW p \in Procs, NEW t \in Turns, NEW k \in Keys,
             \/ PreApproval(p, t, k) \/ PublishClarification(p, t, k)
             \/ SubagentStop(p, t, k) \/ AlertOutcome(p, t, k)
      PROVE  LateIsSpent'
  <2>1. QueueEvent(p, t, k) /\ UNCHANGED <<now, grants, worker, late>>
    BY <1>9 DEF PreApproval, PublishClarification, SubagentStop, AlertOutcome
  <2> QED BY <1>0, <2>1, QueueEventSpares
<1>10. ASSUME NEW p \in Procs, ProducerLoaded(p) \/ StopWorker(p) \/ Close(p) \/ Restart(p)
       PROVE  LateIsSpent'
  <2>1. HandRests
    BY <1>0, <1>10 DEF ProducerLoaded, StopWorker, Close, Restart, NoWorker, HandRests
  <2>2. Spares /\ UNCHANGED late
    BY <1>1, <1>10 DEF ProducerLoaded, StopWorker, Close, Restart, Spares
  <2> QED BY <1>0, <2>1, <2>2, SparesStep
<1>11. ASSUME NEW p \in Procs, Sweep(p) PROVE LateIsSpent'
  <2>1. Spares
    BY <1>0, <1>11, SweepSpares
  <2>2. HandRests /\ UNCHANGED late
    BY <1>0, <1>11 DEF Sweep, HandRests, TypeOK, Worker
  <2> QED BY <1>0, <2>1, <2>2, SparesStep
<1>12. ASSUME NEW p \in Procs, NEW i \in Intents, Fence(p, i) PROVE LateIsSpent'
  <2>1. HandRests /\ UNCHANGED <<now, grants, events, late>>
    <3>1. UNCHANGED <<now, grants, events, late>>
      BY <1>12 DEF Fence, history
    <3>2. ASSUME worker' = [worker EXCEPT !.phase = "transport"] PROVE HandRests
      BY <1>0, <1>12, <3>2 DEF Fence, HandRests, TypeOK, Worker
    <3>3. ASSUME worker' = NextRow(worker.batch) PROVE HandRests
      <4>1. worker'.phase \notin {"claimed", "transport"}
        BY <1>0, <3>3, NextRests
      <4> QED BY <4>1 DEF HandRests
    <3> QED BY <1>12, <3>1, <3>2, <3>3 DEF Fence
  <2>2. Spares
    BY <1>0, <1>1, <1>12, <2>1 DEF Fence, FailRow, Spares, InTransit, TypeOK, PendingRow
  <2> QED BY <1>0, <2>1, <2>2, SparesStep
<1>13. ASSUME NEW p \in Procs, NEW i \in Intents, Record(p, i) PROVE LateIsSpent'
  <2>1. worker' = NextRow(worker.batch) /\ UNCHANGED <<now, events, late>>
    BY <1>13 DEF Record
  <2>2. CASE RemoveRows(i[1])
    BY <1>1, <1>6, <2>1, <2>2
  <2>3. CASE Accepted(i) \/ Retried(i) \/ Refused(i)
    <3>1. UNCHANGED grants
      BY <2>3 DEF Accepted, Retried, Refused
    <3>2. \A j \in Intents : pending'[j].state \in InTransit =>
            pending[j].state \in InTransit /\ pending'[j].expires = pending[j].expires
      BY <1>0, <1>2, <2>3 DEF Accepted, Retried, Refused, FailRow, InTransit, TypeOK, PendingRow
    <3>3. Spares
      BY <1>1, <2>1, <3>1, <3>2 DEF Spares
    <3>4. HandRests
      BY <1>0, <2>1 DEF NextRow, HandRests, TypeOK, Worker
    <3> QED BY <1>0, <2>1, <3>3, <3>4, SparesStep
  <2> QED BY <1>13, <2>2, <2>3 DEF Record
<1>14. ASSUME NEW p \in Procs, NEW i \in Intents, Claim(p, i) PROVE LateIsSpent'
  BY <1>0, <1>14, ClaimSpares
<1>15. ASSUME NEW p \in Procs, NEW i \in Intents, NEW answer \in Answers, Transport(p, i, answer)
       PROVE  LateIsSpent'
  BY <1>0, <1>15, TransportSpends
<1>16. ASSUME NEW g \in Grants, NEW s \in Sessions, BeginSubscribe(g, s) \/ FinishSubscribe(g, s)
       PROVE  LateIsSpent'
  BY <1>3, <1>16 DEF BeginSubscribe, FinishSubscribe
<1>17. ASSUME NEW s \in Sessions, Archive(s) PROVE LateIsSpent'
  BY <1>3, <1>17 DEF Archive
<1>18. ASSUME NEW p \in Procs, NEW t \in Turns, SilentOutcome(p, t) PROVE LateIsSpent'
  BY <1>3, <1>18 DEF SilentOutcome
<1>19. ASSUME NEW p \in Procs, NEW t \in Turns, NEW k \in Keys, SettleTool(p, t, k) PROVE LateIsSpent'
  BY <1>8, <1>19 DEF SettleTool
<1>20. ASSUME NEW p \in Procs, NEW t \in Turns, EndTurn(p, t) PROVE LateIsSpent'
  <2>1. TurnEnd \in Keys /\ RetireApprovalScope(p, t, TurnEnd) /\ UNCHANGED <<now, grants, events, worker, late>>
    BY <1>20 DEF EndTurn, Keys
  <2> QED BY <1>8, <2>1
<1>21. ASSUME NEW g \in Grants, Remove(g) PROVE LateIsSpent'
  BY <1>6, <1>21 DEF Remove
<1>22. CASE UNCHANGED vars
  BY <1>3, <1>22 DEF vars
<1> QED
  BY <1>4, <1>5, <1>7, <1>9, <1>10, <1>11, <1>12, <1>13, <1>14, <1>15, <1>16, <1>17, <1>18,
     <1>19, <1>20, <1>21, <1>22
  DEF Next, Authority, Observe, Drain, Keys

\* An HTTPS call can lose its race against a retirement, a removal or an expiry, and
\* once it did the intent is never claimed again: no retry, reclaim, repeated hook or
\* restart makes a second call without authority.
THEOREM OneLateCall == Spec => []AtMostOneLateCall
<1>1. Init => LateIsSpent
  BY DEF Init, LateIsSpent, NoWorker
<1>2. LateIsSpent => AtMostOneLateCall
  BY DEF LateIsSpent, AtMostOneLateCall
<1> QED BY <1>1, <1>2, LateStep, Safety, PTL DEF Spec
=============================================================================
