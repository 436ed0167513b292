-------------------------- MODULE NotificationAlerts --------------------------
(***************************************************************************)
(* The alert lane of loopdy_plugin/managed_notifications.py: the SQLite    *)
(* journal (grants, subscriptions, events, pending, approval_attention),   *)
(* the synchronous Hermes hooks that write it, the HTTP handlers that      *)
(* change a grant's authority, and the one worker of the store that        *)
(* drains frozen requests to the relay.                                    *)
(*                                                                         *)
(* Every transaction of the journal is one step.  A drain is several: the  *)
(* sweep that opens it, then for each row the claim, the last local fence  *)
(* of an approval, the HTTPS call, and the transaction that records the    *)
(* answer; hooks and handlers interleave between them.                     *)
(***************************************************************************)
EXTENDS Integers, FiniteSets

CONSTANTS
  Grants,          \* grant ids; all of them are grants for one profile
  Sessions,        \* stored Hermes sessions of that profile
  Turns,           \* turns, each of one session
  SessionOf,       \* [Turns -> Sessions]
  Tools,           \* tool calls: the key of an approval.required event
  Outcomes,        \* session/scheduled completed or failed
  Questions,       \* clarification request ids
  Children,        \* subagents whose stop is an alert of its own
  TurnEnd,         \* the empty tool call id of a turn-end tombstone
  Permits,         \* [Grants -> SUBSET keys]: the grant's eventTypes
  Procs,           \* plugin processes sharing the store
  NoProc,
  GrantCreated, GrantExpires   \* [Grants -> Nat]: createdAt and expiresAt

CONSTANTS          \* the module's numbers, in the units of the model's clock
  Grace,           \* _APPROVAL_GRACE_SECONDS
  ApprovalTTL,     \* _APPROVAL_TTL_SECONDS
  QuestionTTL,     \* 300
  AlertTTL,        \* 900
  ClaimLease,      \* 30: a claimed row is reclaimed after it
  Backoffs,        \* what is left at the answer of min(60, 2^min(attempts+1, 6)),
                   \* which counts from the claim
  AttentionLimit,  \* _APPROVAL_LIMIT
  EventLimit,      \* 4096 events a grant
  PendingLimit,    \* 32 live rows a grant
  BatchLimit,      \* LIMIT 32 of a drain
  EnrollLimit,     \* 256 grants
  EventRetention,  \* 30 days
  PendingRetention, GrantRetention  \* one day past their expiry

CONSTANTS          \* bounds of the model
  MaxTime,         \* the clock stops here
  MaxEpoch         \* restarts a process may make

Keys    == Tools \cup Outcomes \cup Questions \cup Children \cup {TurnEnd}
Intents == Grants \X Turns \X Keys

ASSUME NumbersAssumption ==
  /\ {Grace, ApprovalTTL, QuestionTTL, AlertTTL, ClaimLease} \subseteq Nat
  /\ {AttentionLimit, EventLimit, PendingLimit, BatchLimit, EnrollLimit} \subseteq Nat
  /\ {EventRetention, PendingRetention, GrantRetention} \subseteq Nat
  /\ Backoffs \subseteq Nat
  /\ {MaxTime, MaxEpoch} \subseteq Nat

ASSUME ShapeAssumption ==
  /\ SessionOf \in [Turns -> Sessions]
  /\ Permits \in [Grants -> SUBSET Keys]
  /\ {GrantCreated, GrantExpires} \subseteq [Grants -> Nat]
  /\ IsFiniteSet(Intents)
  /\ NoProc \notin Procs
  /\ TurnEnd \notin Tools \cup Outcomes \cup Questions \cup Children
  /\ Tools \cap (Outcomes \cup Questions \cup Children) = {}

\* _validate_grant refuses expiresAt > createdAt + 2592000, and drain_pending
\* keeps an event for the same 2592000 seconds.
ASSUME LifetimeAssumption ==
  \A g \in Grants : GrantExpires[g] <= GrantCreated[g] + EventRetention

VARIABLES
  now,        \* clock()
  grants,     \* grants.state, "absent" when there is no row
  subs,       \* rows of subscriptions
  joining,    \* subscribe() calls between enrollment() and their INSERT
  events,     \* events.occurred_at, Absent when there is no row
  pending,    \* rows of pending of path /events
  attention,  \* rows of approval_attention
  archived,   \* sessions _session refuses
  epoch,      \* which incarnation of a process: the _approval_owner uuid
  loaded,     \* producer_loaded has run in this incarnation
  closed,     \* _stop is set
  ending,     \* on_session_end hooks between their two transactions
  worker,     \* the thread holding worker.lock, and where its drain is
  queued,     \* history: times an intent was inserted
  observer,   \* history: the incarnation whose hook inserted it
  ended,      \* history: turn ends a live grant has recorded
  late        \* history: calls made for an intent without authority

journal == <<grants, subs, events, pending, attention>>
history == <<queued, observer, ended, late>>
vars == <<now, grants, subs, joining, events, pending, attention, archived,
          epoch, loaded, closed, ending, worker, queued, observer, ended, late>>

-----------------------------------------------------------------------------
\* Rows.

Absent == -1
NoRow == [state |-> "none", next |-> 0, expires |-> 0]
NoAttention == [state |-> "none", owner |-> <<NoProc, 0>>, expires |-> 0]
NoWorker == [proc |-> NoProc, phase |-> "idle", batch |-> {}, row |-> {}, answer |-> "none"]

InTransit == {"pending", "sending"}
Final     == {"accepted", "failed", "expired", "retired"}
Answers   == {"accepted", "retry", "failed", "gone"}

Owners == (Procs \cup {NoProc}) \X (0..MaxEpoch)
PendingRow   == [state: {"none"} \cup InTransit \cup Final, next: Nat, expires: Nat]
AttentionRow == [state: {"none", "pending", "retired"}, owner: Owners, expires: Nat]
Worker == [proc: Procs \cup {NoProc}, phase: {"idle", "drain", "claimed", "transport", "answered"},
           batch: SUBSET Intents, row: SUBSET Intents, answer: Answers \cup {"none"}]

TypeOK ==
  /\ now \in 0..MaxTime
  /\ grants \in [Grants -> {"absent", "active", "removed"}]
  /\ subs \subseteq Grants \X Sessions
  /\ joining \subseteq Grants \X Sessions
  /\ events \in [Intents -> Nat \cup {Absent}]
  /\ pending \in [Intents -> PendingRow]
  /\ attention \in [Intents -> AttentionRow]
  /\ archived \subseteq Sessions
  /\ epoch \in [Procs -> 0..MaxEpoch]
  /\ loaded \in [Procs -> BOOLEAN]
  /\ closed \in [Procs -> BOOLEAN]
  /\ ending \subseteq Procs \X Turns
  /\ worker \in Worker
  /\ queued \in [Intents -> 0..2]
  /\ observer \in [Intents -> Owners]
  /\ ended \subseteq Grants \X Turns
  /\ late \in [Intents -> 0..2]

GrantActive(g) == grants[g] = "active" /\ GrantExpires[g] > now
Earlier(a, b) == IF a <= b THEN a ELSE b

AttentionRows(g) == {i \in Intents : i[1] = g /\ attention[i].state # "none"}
EventRows(g)     == {i \in Intents : i[1] = g /\ events[i] # Absent}
LiveRows(g)      == {i \in Intents : i[1] = g /\ pending[i].state \in InTransit}

\* Histories count to two: once, and again.
Counted(h, S) == [i \in Intents |-> IF i \in S THEN Earlier(h[i] + 1, 2) ELSE h[i]]

Init ==
  /\ now = 0
  /\ grants = [g \in Grants |-> "absent"]
  /\ subs = {} /\ joining = {} /\ archived = {} /\ ending = {} /\ ended = {}
  /\ events = [i \in Intents |-> Absent]
  /\ pending = [i \in Intents |-> NoRow]
  /\ attention = [i \in Intents |-> NoAttention]
  /\ epoch = [p \in Procs |-> 0]
  /\ loaded = [p \in Procs |-> FALSE]
  /\ closed = [p \in Procs |-> FALSE]
  /\ worker = NoWorker
  /\ queued = [i \in Intents |-> 0]
  /\ observer = [i \in Intents |-> <<NoProc, 0>>]
  /\ late = [i \in Intents |-> 0]

-----------------------------------------------------------------------------
\* Authority: the HTTP handlers.

\* enroll: a grant is inserted once.  A removed grant conflicts, and
\* _validate_grant refuses an expired one.
Enroll(g) ==
  /\ grants[g] = "absent"
  /\ GrantCreated[g] <= now /\ GrantExpires[g] > now
  /\ Cardinality({h \in Grants : grants[h] # "absent"}) < EnrollLimit
  /\ grants' = [grants EXCEPT ![g] = "active"]
  /\ UNCHANGED <<now, subs, joining, events, pending, attention, archived,
                 epoch, loaded, closed, ending, worker, history>>

\* What remove() writes, in one transaction.
RemoveRows(g) ==
  /\ grants' = [grants EXCEPT ![g] = IF @ = "absent" THEN @ ELSE "removed"]
  /\ attention' = [i \in Intents |->
       IF i[1] = g /\ attention[i].state # "none"
       THEN [attention[i] EXCEPT !.state = "retired"] ELSE attention[i]]
  /\ subs' = {s \in subs : s[1] # g}
  /\ pending' = [i \in Intents |-> IF i[1] = g THEN NoRow ELSE pending[i]]

\* remove, and enrollment when the cloud answers 403, 404 or another grant.
Remove(g) ==
  /\ RemoveRows(g)
  /\ UNCHANGED <<now, joining, events, archived, epoch, loaded, closed, ending, worker, history>>

\* subscribe: enrollment() and _session() are awaited over the network before
\* the transaction that inserts, so the grant may be gone when it runs.
BeginSubscribe(g, s) ==
  /\ GrantActive(g) /\ s \notin archived
  /\ joining' = joining \cup {<<g, s>>}
  /\ UNCHANGED <<now, journal, archived, epoch, loaded, closed, ending, worker, history>>

FinishSubscribe(g, s) ==
  /\ <<g, s>> \in joining
  /\ joining' = joining \ {<<g, s>>}
  /\ subs' = IF grants[g] = "absent" THEN subs ELSE subs \cup {<<g, s>>}
  /\ UNCHANGED <<now, grants, events, pending, attention, archived, epoch,
                 loaded, closed, ending, worker, history>>

Unsubscribe(g, s) ==
  LET scope == {i \in Intents : i[1] = g /\ SessionOf[i[2]] = s} IN
  /\ GrantActive(g) /\ s \notin archived
  /\ attention' = [i \in Intents |->
       IF i \in scope /\ attention[i].state # "none"
       THEN [attention[i] EXCEPT !.state = "retired"] ELSE attention[i]]
  /\ subs' = subs \ {<<g, s>>}
  /\ pending' = [i \in Intents |-> IF i \in scope THEN NoRow ELSE pending[i]]
  /\ UNCHANGED <<now, grants, joining, events, archived, epoch, loaded, closed, ending, worker, history>>

-----------------------------------------------------------------------------
\* Observation: the synchronous Hermes hooks, registered with producer_loaded
\* and ignored once _stop is set.

\* Mutant: attention belongs to the journal, not to an incarnation.
StoreOwner(p) == <<NoProc, 0>>

Owner(p) == <<p, epoch[p]>>
Observing(p) == loaded[p] /\ ~closed[p]
Observed(t) == SessionOf[t] \notin archived

\* Mutant: an event counts as seen while its row is in transit only.
SeenAfterDelivery(i) == pending[i].state \notin InTransit

\* The conditions under which _queue_event inserts for a grant.  crowded is the
\* set of grants whose share of the table is filled by live-activity updates.
Unseen(i) == events[i] = Absent

Undecided(i) ==
  /\ attention[i].state = "none"
  /\ attention[<<i[1], i[2], TurnEnd>>].state = "none"

HasRoom(i) ==
  /\ i[3] \in Tools => Cardinality(AttentionRows(i[1])) < AttentionLimit
  /\ Cardinality(EventRows(i[1])) < EventLimit
  /\ Cardinality(LiveRows(i[1])) < PendingLimit

Admits(i, crowded) ==
  /\ GrantActive(i[1]) /\ i[3] \in Permits[i[1]]
  /\ Unseen(i)
  /\ i[3] \in Tools => Undecided(i)
  /\ HasRoom(i) /\ i[1] \notin crowded

TTL(k) == IF k \in Tools THEN ApprovalTTL ELSE IF k \in Questions THEN QuestionTTL ELSE AlertTTL

QueueEvent(p, t, k) ==
  \E crowded \in SUBSET Grants :
    LET new == {i \in Intents : i[2] = t /\ i[3] = k /\ Admits(i, crowded)}
        expires(i) == Earlier(now + TTL(k), GrantExpires[i[1]])
    IN
    /\ attention' = [i \in Intents |->
         IF i \in new /\ k \in Tools
         THEN [state |-> "pending", owner |-> Owner(p), expires |-> expires(i)]
         ELSE attention[i]]
    /\ events' = [i \in Intents |-> IF i \in new THEN now ELSE events[i]]
    /\ pending' = [i \in Intents |->
         IF i \in new
         THEN [state |-> "pending", next |-> now + (IF k \in Tools THEN Grace ELSE 0), expires |-> expires(i)]
         ELSE pending[i]]
    /\ queued' = Counted(queued, new)
    /\ observer' = [i \in Intents |-> IF i \in new THEN <<p, epoch[p]>> ELSE observer[i]]

\* pre_approval_request of an exact gateway observation.
PreApproval(p, t, k) ==
  /\ Observing(p) /\ Observed(t)
  /\ QueueEvent(p, t, k)
  /\ UNCHANGED <<now, grants, subs, joining, archived, epoch, loaded, closed, ending, worker, ended, late>>

\* publish_clarification, after the adapter presented the prompt.  It looks at
\* _clarification_profiles, which close() clears after the worker has stopped.
PublishClarification(p, t, k) ==
  /\ loaded[p] /\ (~closed[p] \/ worker.proc = p) /\ Observed(t)
  /\ QueueEvent(p, t, k)
  /\ UNCHANGED <<now, grants, subs, joining, archived, epoch, loaded, closed, ending, worker, ended, late>>

\* subagent_stop with a terminal status and a goal: no session is read.
SubagentStop(p, t, k) ==
  /\ Observing(p)
  /\ QueueEvent(p, t, k)
  /\ UNCHANGED <<now, grants, subs, joining, archived, epoch, loaded, closed, ending, worker, ended, late>>

\* _retire_approval_scope: k is a tool call, or TurnEnd for the whole turn.  The
\* tombstone fences an observation that arrives after it.
RetireApprovalScope(p, t, k) ==
  LET holders == {g \in Grants : GrantActive(g) /\ Tools \cap Permits[g] # {}}
      scope == {i \in Intents : i[1] \in holders /\ i[2] = t /\ (k = TurnEnd \/ i[3] = k)}
      tombstones == {i \in Intents : /\ i[1] \in holders /\ i[2] = t /\ i[3] = k
                                     /\ attention[i].state = "none"
                                     /\ Cardinality(AttentionRows(i[1])) < AttentionLimit}
  IN
  /\ attention' = [i \in Intents |->
       IF i \in tombstones THEN [state |-> "retired", owner |-> Owner(p), expires |-> now]
       ELSE IF i \in scope /\ attention[i].state # "none"
            THEN [attention[i] EXCEPT !.state = "retired"] ELSE attention[i]]
  /\ pending' = [i \in Intents |->
       IF i \in scope /\ attention[i].state # "none" /\ pending[i].state \in InTransit
       THEN [pending[i] EXCEPT !.state = "retired"] ELSE pending[i]]

\* post_approval_response (any gateway disposition) and post_tool_call.
SettleTool(p, t, k) ==
  /\ Observing(p)
  /\ RetireApprovalScope(p, t, k)
  /\ UNCHANGED <<now, grants, subs, joining, events, archived, epoch, loaded, closed, ending, worker, history>>

\* on_session_end of a profile with a live grant retires the turn's attention,
\* then queues its alert in a second transaction.
EndTurn(p, t) ==
  /\ Observing(p)
  /\ <<p, t>> \notin ending
  /\ \E g \in Grants : GrantActive(g)
  /\ RetireApprovalScope(p, t, TurnEnd)
  /\ ending' = ending \cup {<<p, t>>}
  /\ ended' = ended \cup {e \in Grants \X Turns :
                            e[2] = t /\ GrantActive(e[1]) /\ Tools \cap Permits[e[1]] # {}}
  /\ UNCHANGED <<now, grants, subs, joining, events, archived, epoch, loaded, closed, worker, queued, observer, late>>

\* The alert of a turn that finished with text to show.
AlertOutcome(p, t, k) ==
  /\ <<p, t>> \in ending
  /\ QueueEvent(p, t, k)
  /\ ending' = ending \ {<<p, t>>}
  /\ UNCHANGED <<now, grants, subs, joining, archived, epoch, loaded, closed, worker, ended, late>>

\* Interrupted, without content, or without an avatar: no alert.
SilentOutcome(p, t) ==
  /\ <<p, t>> \in ending
  /\ ending' = ending \ {<<p, t>>}
  /\ UNCHANGED <<now, journal, joining, archived, epoch, loaded, closed, worker, history>>

-----------------------------------------------------------------------------
\* The worker: _run and drain_pending.

\* Registration asks for worker.lock once, without waiting: a process that
\* finds it taken observes and never drains.
ProducerLoaded(p) ==
  /\ ~loaded[p] /\ ~closed[p]
  /\ loaded' = [loaded EXCEPT ![p] = TRUE]
  /\ worker' = IF worker.proc = NoProc THEN [NoWorker EXCEPT !.proc = p] ELSE worker
  /\ UNCHANGED <<now, journal, joining, archived, epoch, closed, ending, history>>

\* The first transaction of drain_pending, statement by statement.
SweptAttention(p, i) ==
  IF attention[i].state = "pending" /\ (attention[i].owner # Owner(p) \/ attention[i].expires <= now)
  THEN [attention[i] EXCEPT !.state = "retired"] ELSE attention[i]

\* Mutant: the sweep reclaims rows and ends none.
SweptReclaimed(p, i) ==
  LET row == pending[i] IN
  IF row.state = "sending" /\ row.next <= now THEN [row EXCEPT !.state = "pending"] ELSE row

SweptPending(p, i) ==
  LET row == pending[i]
      retired == row.state \in InTransit /\ SweptAttention(p, i).state = "retired"
      state == IF retired THEN "retired"
               ELSE IF row.state = "sending" /\ row.next <= now THEN "pending" ELSE row.state
  IN IF row.state # "none" /\ row.expires < now - PendingRetention THEN NoRow
     ELSE [row EXCEPT !.state = IF state = "pending" /\ row.expires <= now THEN "expired" ELSE state]

Sweep(p) ==
  LET gone == {g \in Grants : grants[g] # "absent" /\ GrantExpires[g] < now - GrantRetention}
      due  == {i \in Intents : /\ pending'[i].state = "pending" /\ pending'[i].next <= now
                               /\ pending'[i].expires > now /\ GrantActive(i[1])}
  IN
  /\ worker.proc = p /\ worker.phase = "idle" /\ ~closed[p]
  /\ attention' = [i \in Intents |-> IF i[1] \in gone THEN NoAttention ELSE SweptAttention(p, i)]
  /\ pending' = [i \in Intents |-> IF i[1] \in gone THEN NoRow ELSE SweptPending(p, i)]
  /\ events' = [i \in Intents |->
       IF i[1] \in gone \/ events[i] < now - EventRetention THEN Absent ELSE events[i]]
  /\ grants' = [g \in Grants |-> IF g \in gone THEN "absent" ELSE grants[g]]
  /\ subs' = {s \in subs : s[1] \notin gone}
  \* Live-activity updates that are due may take any part of the LIMIT.
  /\ \E batch \in SUBSET due :
       /\ Cardinality(batch) <= BatchLimit
       /\ \A i \in batch, j \in due \ batch : pending'[i].next <= pending'[j].next
       /\ worker' = IF batch = {} THEN worker ELSE [worker EXCEPT !.phase = "drain", !.batch = batch]
  /\ UNCHANGED <<now, joining, archived, epoch, loaded, closed, ending, history>>

\* The worker after a row: the next one, or the wait between drains.
NextRow(rest) == [worker EXCEPT !.phase = IF rest = {} THEN "idle" ELSE "drain",
                                !.batch = rest, !.row = {}, !.answer = "none"]

\* Rows are taken in the order of next_attempt; ties are ordered by intent_id,
\* a digest, hence in any order.
Claim(p, i) ==
  /\ worker.proc = p /\ worker.phase = "drain" /\ ~closed[p]
  /\ i \in worker.batch
  /\ \A j \in worker.batch : pending[j].state = "pending" => pending[i].next <= pending[j].next
  /\ IF pending[i].state = "pending" /\ pending[i].expires > now /\ GrantActive(i[1])
     THEN /\ pending' = [pending EXCEPT ![i].state = "sending", ![i].next = now + ClaimLease]
          /\ worker' = [worker EXCEPT !.phase = IF i[3] \in Tools THEN "claimed" ELSE "transport",
                                      !.batch = @ \ {i}, !.row = {i}]
     ELSE /\ worker' = NextRow(worker.batch \ {i})
          /\ UNCHANGED pending
  /\ UNCHANGED <<now, grants, subs, joining, events, attention, archived, epoch, loaded, closed, ending, history>>

\* The answers 400, 401, 410 and 422 are final.
FailRow(i) ==
  /\ pending' = [pending EXCEPT ![i].state = IF @ = "sending" THEN "failed" ELSE @]
  /\ attention' = [attention EXCEPT ![i].state = IF @ = "pending" THEN "retired" ELSE @]

ApprovalTransportReady(p, i) ==
  /\ ~closed[p]
  /\ attention[i].state = "pending" /\ attention[i].owner = Owner(p) /\ attention[i].expires > now
  /\ SessionOf[i[2]] \notin archived
  /\ pending[i].state = "sending" /\ pending[i].expires > now
  /\ <<i[1], SessionOf[i[2]]>> \in subs
  /\ GrantActive(i[1])

\* before_transport, after signing: a refusal is a 410 of the host's own.
Fence(p, i) ==
  /\ worker.proc = p /\ worker.phase = "claimed" /\ i \in worker.row
  /\ IF ApprovalTransportReady(p, i)
     THEN /\ worker' = [worker EXCEPT !.phase = "transport"]
          /\ UNCHANGED <<pending, attention>>
     ELSE /\ FailRow(i)
          /\ worker' = NextRow(worker.batch)
  /\ UNCHANGED <<now, grants, subs, joining, events, archived, epoch, loaded, closed, ending, history>>

\* No authority at the instant of the call: the grant ended, the intent expired,
\* its session was unsubscribed, or its attention was retired.
Unauthorised(i) ==
  \/ ~GrantActive(i[1])
  \/ pending[i].state # "sending" \/ pending[i].expires <= now
  \/ i[3] \in Tools /\ attention[i].state # "pending"

\* The HTTPS call: the relay admits the request or not, and the answer is
\* accepted/duplicate, a final refusal, 403/404, or anything to retry.
Transport(p, i, answer) ==
  /\ worker.proc = p /\ worker.phase = "transport" /\ i \in worker.row
  /\ worker' = [worker EXCEPT !.phase = "answered", !.answer = answer]
  /\ late' = IF Unauthorised(i) THEN Counted(late, {i}) ELSE late
  /\ UNCHANGED <<now, journal, joining, archived, epoch, loaded, closed, ending, queued, observer, ended>>

Accepted(i) ==
  /\ pending' = [pending EXCEPT ![i].state = IF @ = "sending" THEN "accepted" ELSE @]
  /\ UNCHANGED <<grants, subs, attention>>

\* Mutant: a row is retried whatever became of it meanwhile.
RetriedAnyway(i) ==
  /\ \E delay \in Backoffs :
       pending' = IF pending[i].state # "none"
                  THEN [pending EXCEPT ![i].state = "pending", ![i].next = now + delay] ELSE pending
  /\ UNCHANGED <<grants, subs, attention>>

\* Mutant: a retried row gets a new deadline.
RetriedAfresh(i) ==
  /\ \E delay \in Backoffs :
       pending' = [pending EXCEPT ![i] =
         [state |-> "pending", next |-> now + delay, expires |-> now + TTL(i[3])]]
  /\ UNCHANGED <<grants, subs, attention>>

Retried(i) ==
  /\ \E delay \in Backoffs :
       pending' = IF pending[i].state = "sending"
                  THEN [pending EXCEPT ![i].state = "pending", ![i].next = now + delay] ELSE pending
  /\ UNCHANGED <<grants, subs, attention>>

Refused(i) == FailRow(i) /\ UNCHANGED <<grants, subs>>

\* The transaction after the call.  It finds whatever hooks and handlers left.
Record(p, i) ==
  /\ worker.proc = p /\ worker.phase = "answered" /\ i \in worker.row
  /\ \/ worker.answer = "accepted" /\ Accepted(i)
     \/ worker.answer = "retry"    /\ Retried(i)
     \/ worker.answer = "failed"   /\ Refused(i)
     \/ worker.answer = "gone"     /\ RemoveRows(i[1])
  /\ worker' = NextRow(worker.batch)
  /\ UNCHANGED <<now, joining, events, archived, epoch, loaded, closed, ending, history>>

\* _run and drain_pending stop between rows once _stop is set.
StopWorker(p) ==
  /\ worker.proc = p /\ closed[p] /\ worker.phase \in {"idle", "drain"}
  /\ worker' = NoWorker
  /\ UNCHANGED <<now, journal, joining, archived, epoch, loaded, closed, ending, history>>

-----------------------------------------------------------------------------
\* The environment.

Close(p) ==
  /\ ~closed[p]
  /\ closed' = [closed EXCEPT ![p] = TRUE]
  /\ UNCHANGED <<now, journal, joining, archived, epoch, loaded, ending, worker, history>>

\* A crash, or a new process after an orderly close: a new owner uuid, nothing
\* in memory, the worker lock released by the kernel.
Restart(p) ==
  /\ epoch[p] < MaxEpoch
  /\ epoch' = [epoch EXCEPT ![p] = @ + 1]
  /\ loaded' = [loaded EXCEPT ![p] = FALSE]
  /\ closed' = [closed EXCEPT ![p] = FALSE]
  /\ ending' = {e \in ending : e[1] # p}
  /\ worker' = IF worker.proc = p THEN NoWorker ELSE worker
  /\ UNCHANGED <<now, journal, joining, archived, history>>

Archive(s) ==
  /\ s \notin archived
  /\ archived' = archived \cup {s}
  /\ UNCHANGED <<now, journal, joining, epoch, loaded, closed, ending, worker, history>>

Tick ==
  /\ now < MaxTime
  /\ now' = now + 1
  /\ UNCHANGED <<journal, joining, archived, epoch, loaded, closed, ending, worker, history>>

-----------------------------------------------------------------------------
Authority ==
  \/ \E g \in Grants : Enroll(g) \/ Remove(g)
  \/ \E g \in Grants, s \in Sessions :
       BeginSubscribe(g, s) \/ FinishSubscribe(g, s) \/ Unsubscribe(g, s)

Observe(p) ==
  \/ \E t \in Turns, k \in Tools : PreApproval(p, t, k) \/ SettleTool(p, t, k)
  \/ \E t \in Turns, k \in Questions : PublishClarification(p, t, k)
  \/ \E t \in Turns, k \in Children : SubagentStop(p, t, k)
  \/ \E t \in Turns, k \in Outcomes : AlertOutcome(p, t, k)
  \/ \E t \in Turns : EndTurn(p, t) \/ SilentOutcome(p, t)

Drain(p) ==
  \/ Sweep(p)
  \/ StopWorker(p)
  \/ \E i \in Intents : Claim(p, i) \/ Fence(p, i) \/ Record(p, i)
  \/ \E i \in Intents, answer \in Answers : Transport(p, i, answer)

Next ==
  \/ Tick
  \/ Authority
  \/ \E s \in Sessions : Archive(s)
  \/ \E p \in Procs : Observe(p) \/ ProducerLoaded(p) \/ Drain(p) \/ Close(p) \/ Restart(p)

Spec == Init /\ [][Next]_vars

\* What the live-path assumes: time passes, a thread that holds worker.lock keeps
\* draining (_run wakes every five seconds), and every HTTPS call returns (its
\* timeout is twelve).
Fairness ==
  /\ WF_vars(Tick)
  /\ \A p \in Procs : WF_vars(Drain(p))

FairSpec == Spec /\ Fairness

-----------------------------------------------------------------------------
\* Properties.

\* Attention that was retired (an answer, the tool's or the turn's end, removal,
\* unsubscription, timeout or recovery) leaves no request of its own to send:
\* not even after the worker's late UPDATE that follows a failed call.
RetiredStaysSilent ==
  \A i \in Intents : attention[i].state = "retired" => pending[i].state \notin InTransit

\* Attention that still waits has its frozen request behind it, with the same
\* deadline: the two rows of one approval never drift apart.
AttentionBacked ==
  \A i \in Intents : attention[i].state = "pending" =>
    /\ pending[i].state \in InTransit \cup {"accepted"}
    /\ pending[i].expires = attention[i].expires

\* An intent is inserted once in the life of its grant, whatever hooks repeat, and
\* although events, pending and grants rows are deleted by retention.
QueuedOnce == \A i \in Intents : queued[i] <= 1

\* The HTTPS call can lose a race against a retirement, removal or expiry once for
\* an intent; no retry, reclaim or restart makes a second call without authority.
AtMostOneLateCall == \A i \in Intents : late[i] <= 1

\* An approval is on the wire only for the very incarnation that observed it:
\* never a recovered prompt, never another process's.
OwnObservationOnly ==
  \A i \in worker.row :
    worker.phase = "transport" /\ i[3] \in Tools
      => observer[i] = <<worker.proc, epoch[worker.proc]>>

\* Once a grant has recorded the end of a turn, no approval of that turn asks for
\* attention any more: a late pre-hook meets the tombstone, or a full table.
TurnEndIsFinal ==
  \A i \in Intents : <<i[1], i[2]>> \in ended => attention[i].state # "pending"

\* While a process keeps worker.lock, every request leaves the live states.
EverySettles ==
  \A i \in Intents :
    []<>(pending[i].state \notin InTransit) \/ []<>(worker.proc = NoProc)

\* What makes those invariants inductive.  The row in the worker's hands is not
\* pending and its event is still recorded, so no hook can insert it again;
RowInHand ==
  /\ worker.phase \in {"idle", "drain"} => worker.row = {}
  /\ worker.proc = NoProc => worker.row = {}
  /\ \A i, j \in worker.row : i = j
  /\ \A i \in worker.row : pending[i].state # "pending" /\ events[i] # Absent

\* an approval has its attention row before its request, a grant that was deleted
\* left no request, a request a worker may still claim has its event, and
\* retention reaches an event only when its grant is over;
Agrees(i) ==
  /\ attention[i].state # "none" => i[3] \in Tools \cup {TurnEnd}
  /\ attention[i].state = "pending" => observer[i] = attention[i].owner
  /\ i[3] \in Tools \cup {TurnEnd} /\ attention[i].state = "none" => pending[i].state = "none"
  /\ grants[i[1]] = "absent" => pending[i].state = "none"
  /\ grants[i[1]] # "absent" => GrantCreated[i[1]] <= now
  /\ pending[i].state \in InTransit /\ GrantActive(i[1]) => events[i] # Absent
  /\ events[i] # Absent => GrantCreated[i[1]] <= events[i]
  /\ queued[i] # 0 => events[i] # Absent \/ GrantExpires[i[1]] <= now

JournalAgrees == \A i \in Intents : Agrees(i)

\* and the end of a turn left a tombstone, unless the grant's table was full.
TurnFenced ==
  \A e \in ended :
    \/ attention[<<e[1], e[2], TurnEnd>>].state # "none"
    \/ Cardinality(AttentionRows(e[1])) >= AttentionLimit
    \/ GrantExpires[e[1]] <= now

Strengthening == RowInHand /\ JournalAgrees /\ TurnFenced

\* And for AtMostOneLateCall: an intent that was sent without authority is past being
\* claimed again, for good, since its grant, its row or its deadline is;
Spent(i) ==
  \/ GrantExpires[i[1]] <= now
  \/ /\ events[i] # Absent
     /\ \/ grants[i[1]] = "removed"
        \/ pending[i].state \notin InTransit
        \/ pending[i].expires <= now

\* whoever is on the way to the relay was never there without authority; and the
\* events of a grant go with it.
LateIsSpent ==
  /\ \A i \in Intents : late[i] <= 1
  /\ \A i \in Intents : late[i] # 0 => Spent(i)
  /\ worker.phase \in {"claimed", "transport"} => \A i \in worker.row : late[i] = 0
  /\ \A i \in Intents : events[i] # Absent => grants[i[1]] # "absent"

\* The comment in _require_subscription: an active grant covers every session in
\* its profile, and per-session rows are "no longer required".
GrantCoversSession ==
  [][\A p \in Procs, i \in Intents :
       /\ Fence(p, i) /\ ~closed[p] /\ GrantActive(i[1]) /\ SessionOf[i[2]] \notin archived
       /\ attention[i].state = "pending" /\ attention[i].owner = Owner(p)
       /\ attention[i].expires > now
       => worker'.phase = "transport"]_vars
=============================================================================
