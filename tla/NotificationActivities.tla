------------------------ MODULE NotificationActivities ------------------------
(***************************************************************************)
(* The Live Activity lane of loopdy_plugin/managed_notifications.py: the   *)
(* in-memory work cohorts (a parent turn and its children) that Hermes     *)
(* hooks build, the activities a phone binds to them, and the coalesced    *)
(* updates the worker sends.  One plugin process, which may crash: the     *)
(* cohorts die with it, the SQLite journal does not.                       *)
(*                                                                         *)
(* Hooks and subscribe_activity hold the observation lock; the HTTP        *)
(* handlers and the worker do not.  Python's sqlite3 opens a transaction   *)
(* at the first write, so the SELECTs that precede it in _queue_activity   *)
(* and subscribe_activity are steps of their own, and handlers and worker  *)
(* run between them and the transaction.                                   *)
(***************************************************************************)
EXTENDS Integers, FiniteSets, Sequences

CONSTANTS
  Grants, Activities, Sessions, Turns, Children, NoTurn,
  GrantOf,         \* [Activities -> Grants]
  SessionOf,       \* [Activities \cup Turns \cup Children -> Sessions]
  GrantExpires,    \* [Grants -> Nat]
  Progress,        \* phases a live turn reports besides "thinking"
  Outcomes,        \* how a parent turn can end
  Answers          \* what a call can come back with

CONSTANTS
  LeaseLength,     \* the cloud's lease of one registration
  Stale,           \* 120: life of an update
  Budget,          \* 30: ordinary updates of one activity
  Refresh,         \* _ACTIVITY_REFRESH_SECONDS
  ClaimLease,      \* 30: a claimed row is reclaimed after it
  Backoffs,        \* what is left at the answer of min(60, 2^min(attempts+1, 6)),
                   \* which counts from the claim
  Retention,       \* one day: rows are deleted that long after they expire
  WorkLimit,       \* 128 cohorts in memory
  ChildLimit,      \* 128 children of a cohort
  ActivityLimit    \* 128 activities with a live lease

CONSTANT HoldsWorkerLock   \* FALSE when another process took worker.lock first

CONSTANTS MaxTime, MaxEpoch, MaxAsked   \* bounds of the model

ASSUME ShapeAssumption ==
  /\ GrantOf \in [Activities -> Grants]
  /\ SessionOf \in [Activities \cup Turns \cup Children -> Sessions]
  /\ GrantExpires \in [Grants -> Nat]
  /\ NoTurn \notin Turns
  /\ Progress \subseteq {"responding", "using_tool"}
  /\ Outcomes \subseteq {"completed", "failed", "cancelled"}
  /\ Answers \subseteq {"accepted", "retry", "failed", "gone"}
  /\ LeaseLength \in Nat \ {0} /\ Stale \in Nat \ {0} /\ Budget \in Nat \ {0}
  /\ Refresh \in Nat \ {0} /\ ClaimLease \in Nat \ {0} /\ Retention \in Nat \ {0}
  /\ WorkLimit \in Nat /\ ChildLimit \in Nat /\ ActivityLimit \in Nat
  /\ MaxTime \in Nat /\ MaxEpoch \in Nat /\ MaxAsked \in Nat
  /\ Backoffs \subseteq Nat /\ HoldsWorkerLock \in BOOLEAN

VARIABLES
  now,
  grants,      \* grants.state
  activities,  \* rows of activities
  pending,     \* rows of pending with an activity_id
  work,        \* _work: the cohorts in memory
  order,       \* _work is an OrderedDict: its keys, oldest first
  owner,       \* _child_owners
  holder,      \* what the thread holding _lock is in the middle of
  asked,       \* subscribe_activity calls whose cloud receipt is confirmed
  worker,
  epoch,       \* incarnation of the process
  binder,      \* history: the incarnation that last bound or confirmed an activity
  forgotten    \* history: activities whose rows were deleted once

journal == <<grants, activities, pending>>
memory  == <<work, order, owner>>
history == <<binder, forgotten>>
vars == <<now, grants, activities, pending, work, order, owner, holder, asked,
          worker, epoch, binder, forgotten>>

-----------------------------------------------------------------------------
\* Data.

Ends     == {"completed", "failed"}          \* the terminal phases of an update
Phases   == {"thinking", "delegating"} \cup Progress \cup Ends
Signature == [phase: Phases, count: 0..ChildLimit, stopped: BOOLEAN]
NoSignature == [phase |-> "none", count |-> 0, stopped |-> FALSE]

Cohort == [phase: {"thinking"} \cup Progress, outcome: Outcomes \cup {"none"},
           children: [Children -> {"none", "active", "ended"}], terminal: BOOLEAN]
NoCohort == [phase |-> "none", outcome |-> "none",
             children |-> [c \in Children |-> "none"], terminal |-> FALSE]

Row == [state: {"none", "active", "terminal_pending", "terminal_accepted"}, turn: Turns \cup {NoTurn},
        lease: Nat, stamp: Nat, sig: Signature \cup {NoSignature}, queuedAt: Nat]
NoActivity == [state |-> "none", turn |-> NoTurn, lease |-> 0, stamp |-> 0,
               sig |-> NoSignature, queuedAt |-> 0]

\* The key of an update: update_id is a digest of these.
Key(r) == <<r.act, r.turn, r.sig, r.stamp>>
Live == {"pending", "sending"}
Update == [act: Activities, turn: Turns, sig: Signature, stamp: Nat,
           state: Live \cup {"accepted", "failed", "expired"}, expires: Nat, next: Nat]

Idle == [phase |-> "idle"]
NoWorker == [phase |-> "idle", batch |-> {}, row |-> {}, answer |-> "none"]

GrantActive(g) == grants[g] = "active" /\ GrantExpires[g] > now
UpperOf(a, b) == IF a >= b THEN a ELSE b
LowerOf(S) == CHOOSE x \in S : \A y \in S : x <= y

ActiveChildren(w) == {c \in DOMAIN w.children : w.children[c] = "active"}

\* Mutant: children that still run are left out of the phase.
ProjectionOfParent(w) ==
  [phase |-> IF w.outcome = "cancelled" THEN "completed" ELSE IF w.outcome \in Ends THEN w.outcome ELSE w.phase,
   count |-> Cardinality(ActiveChildren(w)), stopped |-> w.outcome = "cancelled"]

\* _work_projection.
Projection(w) ==
  LET busy == ActiveChildren(w) # {}
  IN [phase |-> IF busy THEN "delegating"
                ELSE IF w.outcome = "cancelled" THEN "completed"
                ELSE IF w.outcome \in Ends THEN w.outcome ELSE w.phase,
      count |-> Cardinality(ActiveChildren(w)),
      stopped |-> w.outcome = "cancelled" /\ ~busy]

Init ==
  /\ now = 0
  /\ grants = [g \in Grants |-> "absent"]
  /\ activities = [a \in Activities |-> NoActivity]
  /\ pending = {}
  /\ work = [t \in Turns |-> NoCohort] /\ order = <<>>
  /\ owner = [c \in Children |-> NoTurn]
  /\ holder = Idle /\ asked = {} /\ worker = NoWorker
  /\ epoch = 0
  /\ binder = [a \in Activities |-> 0]
  /\ forgotten = {}

-----------------------------------------------------------------------------
\* _queue_activity, under the lock.  Its first SELECT finds the rows to update;
\* a row bound elsewhere, or with the same state sent recently, is passed over.

Selected(t, sig, bind, rows) ==
  {a \in Activities :
     /\ SessionOf[a] = SessionOf[t]
     /\ rows[a].state = "active" /\ rows[a].lease > now /\ GrantActive(GrantOf[a])
     /\ rows[a].turn = t \/ (rows[a].turn = NoTurn /\ bind)
     /\ ~(rows[a].sig = sig /\ rows[a].queuedAt > now - Refresh)}

\* The lock's holder goes on to _queue_activity, or releases the lock.
Queueing(t, sig, bind) ==
  LET chosen == Selected(t, sig, bind, activities)
  IN holder' = IF chosen = {} THEN Idle
               ELSE [phase |-> "selected", turn |-> t, sig |-> sig,
                     rows |-> [a \in chosen |-> activities[a]]]

\* The time of an update never goes back, and an ordinary one waits for the budget.
Stamp(row, replaced) ==
  IF replaced # {} THEN UpperOf(now, (CHOOSE r \in replaced : TRUE).stamp)
  ELSE UpperOf(now, row.stamp + 1)

\* Mutant: every update is due at once, the send budget is ignored.
DueAtOnce(row, sig, replaced) == now

Due(row, sig, replaced) ==
  IF sig.phase \in Ends THEN now
  ELSE IF replaced # {} THEN UpperOf(now, (CHOOSE r \in replaced : TRUE).next)
  ELSE UpperOf(now, row.queuedAt + Budget)

\* The update for a row, from the pending update it replaces.
UpdateFor(a, row, t, sig, replaced) ==
  LET stamp == Stamp(row, replaced)
  IN [act |-> a, turn |-> t, sig |-> sig, stamp |-> stamp, state |-> "pending",
      expires |-> LowerOf({stamp + Stale, GrantExpires[GrantOf[a]], row.lease}),
      next |-> Due(row, sig, replaced)]

\* SELECT ... ORDER BY next_attempt LIMIT 1.
Replaced(a) ==
  LET candidates == {r \in pending : r.act = a /\ r.state = "pending"}
      first == {r \in candidates : \A s \in candidates : r.next <= s.next}
  IN IF first = {} THEN {{}} ELSE {{r} : r \in first}

\* The next SELECT, of the update a row would replace, still precedes the
\* transaction; a row whose update would be born expired is passed over.
PeekRow(a) ==
  /\ holder.phase = "selected" /\ a \in DOMAIN holder.rows
  /\ \E replaced \in Replaced(a) :
       LET update == UpdateFor(a, holder.rows[a], holder.turn, holder.sig, replaced)
           others == [b \in DOMAIN holder.rows \ {a} |-> holder.rows[b]]
       IN holder' = IF update.expires > update.stamp
                    THEN [phase |-> "writing", turn |-> holder.turn, sig |-> holder.sig,
                          rows |-> others, first |-> update]
                    ELSE IF DOMAIN others = {} THEN Idle ELSE [holder EXCEPT !.rows = others]
  /\ UNCHANGED <<now, journal, memory, asked, worker, epoch, history>>

\* INSERT meets the primary key.
Collides(kept, updates) == \E r \in kept, u \in updates : Key(r) = Key(u)

\* The transaction: each update replaces what is pending now, whatever was read.
\* A second row with one update_id raises, and everything is rolled back.
WriteUpdates ==
  /\ holder.phase = "writing"
  /\ \E picks \in [DOMAIN holder.rows -> {{}} \cup {{r} : r \in pending}] :
       LET updates == {holder.first} \cup
             {u \in {UpdateFor(a, holder.rows[a], holder.turn, holder.sig, picks[a]) : a \in DOMAIN picks} :
                u.expires > u.stamp}
           kept == {r \in pending : ~(r.state = "pending" /\ \E u \in updates : u.act = r.act)}
           state == IF holder.sig.phase \in Ends THEN "terminal_pending" ELSE "active"
       IN /\ \A a \in DOMAIN picks : picks[a] \in Replaced(a)
          /\ IF Collides(kept, updates)
             THEN UNCHANGED <<activities, pending, binder>>
             ELSE /\ pending' = kept \cup updates
                  /\ activities' = [a \in Activities |->
                       IF activities[a].state # "none" /\ \E u \in updates : u.act = a
                       THEN LET u == CHOOSE v \in updates : v.act = a
                            IN [activities[a] EXCEPT !.turn = u.turn, !.state = state, !.stamp = u.stamp,
                                                     !.sig = u.sig, !.queuedAt = u.next]
                       ELSE activities[a]]
                  /\ binder' = [a \in Activities |-> IF \E u \in updates : u.act = a THEN epoch ELSE binder[a]]
  /\ holder' = Idle
  /\ UNCHANGED <<now, grants, memory, asked, worker, epoch, forgotten>>

-----------------------------------------------------------------------------
\* Hooks: they need a live grant, change a cohort under the lock, and queue.

Observing == holder = Idle /\ \E g \in Grants : GrantActive(g)

Known(t) == work[t] # NoCohort
Open(t)  == Known(t) /\ ~work[t].terminal

\* The tail of _observe: project, freeze a settled cohort, queue.
Settled(w) == [w EXCEPT !.terminal = w.outcome # "none" /\ ActiveChildren(w) = {}]

Publish(t, w, bind) ==
  /\ work' = [work EXCEPT ![t] = Settled(w)]
  /\ Queueing(t, Projection(w), bind)

Fresh == [NoCohort EXCEPT !.phase = "thinking"]

\* Activities whose lease is live keep their cohort in memory.
Bound == {activities[a].turn : a \in {b \in Activities : activities[b].lease > now}}

\* Mutant: an activity with a live lease does not hold its cohort.
EvictableIgnoringLeases == {n \in DOMAIN order : work[order[n]].terminal}

\* Eviction: the oldest settled cohort that no activity holds.
Evictable == {n \in DOMAIN order : work[order[n]].terminal /\ order[n] \notin Bound}
Without(n) == SubSeq(order, 1, n - 1) \o SubSeq(order, n + 1, Len(order))

HasSlot == Len(order) < WorkLimit

\* pre_llm_call: a turn starts, or a retained one thinks again.
PreLlmCall(t) ==
  /\ Observing
  /\ \/ /\ Open(t) /\ work[t].outcome = "none"
        /\ Publish(t, work[t], TRUE)
        /\ UNCHANGED <<order, owner>>
     \/ /\ ~Known(t) /\ HasSlot
        /\ order' = Append(order, t)
        /\ Publish(t, Fresh, TRUE)
        /\ UNCHANGED owner
     \/ /\ ~Known(t) /\ ~HasSlot
        /\ \E n \in Evictable : LET old == order[n] IN
             /\ \A m \in Evictable : n <= m
             /\ order' = Append(Without(n), t)
             /\ work' = [work EXCEPT ![old] = NoCohort, ![t] = Fresh]
             /\ owner' = [c \in Children |-> IF owner[c] = old /\ SessionOf[c] = SessionOf[old]
                                             THEN NoTurn ELSE owner[c]]
        /\ Queueing(t, Projection(Fresh), TRUE)
  /\ UNCHANGED <<now, journal, asked, worker, epoch, history>>

\* post_llm_call, pre_tool_call and post_tool_call of a turn still running.
Report(t, phase) ==
  /\ Observing /\ Open(t) /\ work[t].outcome = "none"
  /\ Publish(t, [work[t] EXCEPT !.phase = phase], FALSE)
  /\ UNCHANGED <<now, journal, order, owner, asked, worker, epoch, history>>

\* on_session_end: the first outcome stays; a parent with running children is
\* not terminal yet.
SessionEnd(t, outcome) ==
  /\ Observing /\ Open(t) /\ work[t].outcome = "none"
  /\ Publish(t, [work[t] EXCEPT !.outcome = outcome], FALSE)
  /\ UNCHANGED <<now, journal, order, owner, asked, worker, epoch, history>>

\* subagent_start(c) that names t as its parent turn.  A child keeps its first
\* parent, and a repeated start does not revive a child that stopped.
Adopts(t, c) ==
  /\ owner[c] \in {NoTurn, t}
  /\ work[t].children[c] # "none" \/ Cardinality({d \in Children : work[t].children[d] # "none"}) < ChildLimit

Started(w, c) ==
  IF w.children[c] = "none" THEN [w EXCEPT !.children[c] = "active"] ELSE w

SubagentStart(t, c) ==
  /\ Observing /\ Open(t) /\ SessionOf[c] = SessionOf[t]
  /\ Adopts(t, c)
  /\ owner' = [owner EXCEPT ![c] = t]
  /\ Publish(t, Started(work[t], c), FALSE)
  /\ UNCHANGED <<now, journal, order, asked, worker, epoch, history>>

\* subagent_stop(c): whatever turn the hook names, the child's owner settles.
SubagentStop(c) ==
  LET t == owner[c] IN
  /\ Observing /\ t # NoTurn
  /\ Open(t) /\ work[t].children[c] = "active"
  /\ Publish(t, [work[t] EXCEPT !.children[c] = "ended"], FALSE)
  /\ UNCHANGED <<now, journal, order, owner, asked, worker, epoch, history>>

-----------------------------------------------------------------------------
\* Handlers.

Enroll(g) ==
  /\ grants[g] = "absent" /\ GrantExpires[g] > now
  /\ grants' = [grants EXCEPT ![g] = "active"]
  /\ UNCHANGED <<now, activities, pending, memory, holder, asked, worker, epoch, history>>

\* What remove, remove_activity and an unsubscription delete.
Forget(S) ==
  /\ activities' = [a \in Activities |-> IF a \in S THEN NoActivity ELSE activities[a]]
  /\ pending' = {r \in pending : r.act \notin S}
  /\ forgotten' = forgotten \cup {a \in S : activities[a].state # "none"}

RemoveRows(g) ==
  /\ grants' = [grants EXCEPT ![g] = IF @ = "absent" THEN @ ELSE "removed"]
  /\ Forget({a \in Activities : GrantOf[a] = g})

Remove(g) ==
  /\ RemoveRows(g)
  /\ UNCHANGED <<now, memory, holder, asked, worker, epoch, binder>>

RemoveActivity(a) ==
  /\ GrantActive(GrantOf[a])
  /\ Forget({a})
  /\ UNCHANGED <<now, grants, memory, holder, asked, worker, epoch, binder>>

Unsubscribe(g, s) ==
  /\ GrantActive(g)
  /\ Forget({a \in Activities : GrantOf[a] = g /\ SessionOf[a] = s})
  /\ UNCHANGED <<now, grants, memory, holder, asked, worker, epoch, binder>>

\* subscribe_activity, up to the lock: the grant was active when enrollment()
\* asked for it, and the cloud confirmed the registration and its lease.
AskActivity(a, t) ==
  /\ GrantActive(GrantOf[a])
  /\ t # NoTurn => SessionOf[t] = SessionOf[a]
  /\ Cardinality(asked) < MaxAsked
  /\ asked' = asked \cup {<<a, t, now + LeaseLength>>}
  /\ UNCHANGED <<now, journal, memory, holder, worker, epoch, history>>

\* The newest running turn of the session, for a call that names none.
Running(s) ==
  LET running == {n \in DOMAIN order : LET u == order[n] IN
                    SessionOf[u] = s /\ ~work[u].terminal /\ work[u].outcome = "none"}
  IN IF running = {} THEN NoTurn ELSE order[CHOOSE n \in running : \A m \in running : m <= n]

\* The turn a call binds its activity to: a retry keeps the owner it had.
Chosen(row, t, s) ==
  IF row.state # "none" /\ row.turn # NoTurn THEN row.turn ELSE IF t # NoTurn THEN t ELSE Running(s)

\* Under the lock: authority, the conflicting row, the limit and the cohort are
\* read before the INSERT opens the transaction.
CheckActivity(a, t, lease) ==
  LET row == activities[a]
      turn == Chosen(row, t, SessionOf[a])
      crowd == {b \in Activities : activities[b].lease > now}
      allowed == /\ GrantActive(GrantOf[a])
                 /\ row.state = "none" => Cardinality(crowd) < ActivityLimit
                 /\ ~(row.state # "none" /\ t # NoTurn /\ row.turn \notin {NoTurn, t})
                 /\ turn \in {NoTurn} \cup {u \in Turns : Known(u)}
  IN
  /\ holder = Idle
  /\ <<a, t, lease>> \in asked
  /\ asked' = asked \ {<<a, t, lease>>}
  /\ holder' = IF allowed THEN [phase |-> "binding", act |-> a, turn |-> turn, lease |-> lease] ELSE Idle
  /\ UNCHANGED <<now, journal, memory, worker, epoch, history>>

\* INSERT ... ON CONFLICT, committed before the cohort's state is queued.
BindActivity ==
  /\ holder.phase = "binding"
  /\ LET a == holder.act
         row == activities[a]
         bound == IF row.turn = NoTurn THEN holder.turn ELSE row.turn
     IN IF grants[GrantOf[a]] = "absent"    \* the foreign key
        THEN /\ holder' = Idle
             /\ UNCHANGED <<activities, binder>>
        ELSE /\ activities' = [activities EXCEPT ![a] =
                  IF row.state = "none" THEN [NoActivity EXCEPT !.state = "active", !.turn = holder.turn, !.lease = holder.lease]
                  ELSE [row EXCEPT !.lease = holder.lease, !.turn = bound]]
             /\ binder' = [binder EXCEPT ![a] = epoch]
             /\ holder' = IF holder.turn = NoTurn THEN Idle
                          ELSE [phase |-> "bound", turn |-> holder.turn]
  /\ UNCHANGED <<now, grants, pending, memory, asked, worker, epoch, forgotten>>

\* _queue_activity's first SELECT, after that commit.
SelectBound ==
  /\ holder.phase = "bound"
  /\ Queueing(holder.turn, Projection(work[holder.turn]), FALSE)
  /\ UNCHANGED <<now, journal, memory, asked, worker, epoch, history>>

-----------------------------------------------------------------------------
\* The worker.

\* Mutant: the sweep reclaims rows and expires none.
SweptRowUnexpired(r) ==
  IF r.state = "sending" /\ r.next <= now THEN [r EXCEPT !.state = "pending"] ELSE r

\* Reclaimed when its claim is old, expired when it is pending and out of time.
SweptRow(r) ==
  IF r.state = "pending" \/ (r.state = "sending" /\ r.next <= now)
  THEN [r EXCEPT !.state = IF r.expires <= now THEN "expired" ELSE "pending"] ELSE r

Sweep ==
  LET gone == {g \in Grants : grants[g] # "absent" /\ GrantExpires[g] < now - Retention}
      stale == {a \in Activities : GrantOf[a] \in gone \/ activities[a].lease < now - Retention}
      swept == {SweptRow(r) : r \in {s \in pending : s.expires >= now - Retention /\ GrantOf[s.act] \notin gone}}
      due == {r \in swept : r.state = "pending" /\ r.next <= now /\ r.expires > now /\ GrantActive(GrantOf[r.act])}
  IN
  /\ HoldsWorkerLock /\ worker.phase = "idle"
  /\ pending' = swept
  /\ activities' = [a \in Activities |-> IF a \in stale THEN NoActivity ELSE activities[a]]
  /\ grants' = [g \in Grants |-> IF g \in gone THEN "absent" ELSE grants[g]]
  /\ forgotten' = forgotten \cup {a \in stale : activities[a].state # "none"}
  \* Alerts that are due may take any part of the LIMIT.
  /\ \E batch \in SUBSET due :
       /\ \A r \in batch, s \in due \ batch : r.next <= s.next
       /\ worker' = IF batch = {} THEN worker ELSE [worker EXCEPT !.phase = "drain", !.batch = batch]
  /\ UNCHANGED <<now, memory, holder, asked, epoch, binder>>

NextRow(rest) == [phase |-> IF rest = {} THEN "idle" ELSE "drain", batch |-> rest, row |-> {}, answer |-> "none"]

\* A row of the batch is claimed if it is still pending under that update_id.
Claim(r) ==
  LET rest == worker.batch \ {r}
      rows == {s \in pending : Key(s) = Key(r) /\ s.state = "pending" /\ s.expires > now}
  IN
  /\ worker.phase = "drain"
  /\ r \in worker.batch /\ \A s \in worker.batch : r.next <= s.next
  /\ IF rows # {} /\ GrantActive(GrantOf[r.act])
     THEN /\ pending' = (pending \ rows) \cup {[s EXCEPT !.state = "sending", !.next = now + ClaimLease] : s \in rows}
          /\ worker' = [phase |-> "transport", batch |-> rest, row |-> {r}, answer |-> "none"]
     ELSE /\ worker' = NextRow(rest)
          /\ UNCHANGED pending
  /\ UNCHANGED <<now, grants, activities, memory, holder, asked, epoch, history>>

\* The HTTPS call.
Transport(r, answer) ==
  /\ worker.phase = "transport" /\ r \in worker.row
  /\ worker' = [worker EXCEPT !.phase = "answered", !.answer = answer]
  /\ UNCHANGED <<now, journal, memory, holder, asked, epoch, binder, forgotten>>

Sending(r) == {s \in pending : Key(s) = Key(r) /\ s.state = "sending"}

Rewritten(r, state, next) ==
  pending' = (pending \ Sending(r)) \cup {[s EXCEPT !.state = state, !.next = next] : s \in Sending(r)}

Retried(r) ==
  /\ \E delay \in Backoffs : Rewritten(r, "pending", now + delay)
  /\ UNCHANGED <<grants, activities, forgotten>>

Refused(r) ==
  /\ Rewritten(r, "failed", now)
  /\ UNCHANGED <<grants, activities, forgotten>>

Accepted(r) ==
  /\ pending' = (pending \ Sending(r)) \cup {[s EXCEPT !.state = "accepted"] : s \in Sending(r)}
  /\ activities' = [activities EXCEPT ![r.act].state =
       IF @ = "terminal_pending" /\ r.sig.phase \in Ends THEN "terminal_accepted" ELSE @]
  /\ UNCHANGED <<grants, forgotten>>

Record(r) ==
  /\ worker.phase = "answered" /\ r \in worker.row
  /\ \/ worker.answer = "accepted" /\ Accepted(r)
     \/ worker.answer = "retry"    /\ Retried(r)
     \/ worker.answer = "failed"   /\ Refused(r)
     \/ worker.answer = "gone"     /\ RemoveRows(GrantOf[r.act])
  /\ worker' = NextRow(worker.batch)
  /\ UNCHANGED <<now, memory, holder, asked, epoch, binder>>

-----------------------------------------------------------------------------
\* A new process: the observations start empty.
Restart ==
  /\ epoch < MaxEpoch
  /\ epoch' = epoch + 1
  /\ work' = [t \in Turns |-> NoCohort] /\ order' = <<>>
  /\ owner' = [c \in Children |-> NoTurn]
  /\ holder' = Idle /\ asked' = {} /\ worker' = NoWorker
  /\ UNCHANGED <<now, journal, history>>

\* The clock's unit is longer than the lock is held: SQLite gives up after five
\* seconds of waiting.
Tick ==
  /\ now < MaxTime /\ holder = Idle
  /\ now' = now + 1
  /\ UNCHANGED <<journal, memory, holder, asked, worker, epoch, history>>

Hook ==
  \/ \E t \in Turns : PreLlmCall(t)
  \/ \E t \in Turns, phase \in Progress : Report(t, phase)
  \/ \E t \in Turns, outcome \in Outcomes : SessionEnd(t, outcome)
  \/ \E t \in Turns, c \in Children : SubagentStart(t, c)
  \/ \E c \in Children : SubagentStop(c)

Handler ==
  \/ \E g \in Grants : Enroll(g) \/ Remove(g)
  \/ \E a \in Activities : RemoveActivity(a)
  \/ \E g \in Grants, s \in Sessions : Unsubscribe(g, s)
  \/ \E a \in Activities, t \in Turns \cup {NoTurn} : AskActivity(a, t)
  \/ \E ask \in asked : CheckActivity(ask[1], ask[2], ask[3])

Locked ==
  \/ holder.phase = "selected" /\ \E a \in DOMAIN holder.rows : PeekRow(a)
  \/ WriteUpdates
  \/ BindActivity
  \/ SelectBound

Drain ==
  \/ Sweep
  \/ \E r \in worker.batch : Claim(r)
  \/ \E r \in worker.row, answer \in Answers : Transport(r, answer)
  \/ \E r \in worker.row : Record(r)

Next == Tick \/ Hook \/ Handler \/ Locked \/ Drain \/ Restart

Spec == Init /\ [][Next]_vars

\* Time passes however often the lock is taken; the worker's thread and the
\* holder of the lock go on.
Fairness == SF_vars(Tick) /\ WF_vars(Drain) /\ WF_vars(Locked)
FairSpec == Spec /\ Fairness

-----------------------------------------------------------------------------
\* Properties.

TypeOK ==
  /\ now \in 0..MaxTime /\ epoch \in 0..MaxEpoch
  /\ grants \in [Grants -> {"absent", "active", "removed"}]
  /\ activities \in [Activities -> Row] /\ pending \subseteq Update
  /\ work \in [Turns -> Cohort \cup {NoCohort}] /\ owner \in [Children -> Turns \cup {NoTurn}]
  /\ order \in Seq(Turns) /\ Len(order) <= WorkLimit
  /\ \A m, n \in DOMAIN order : order[m] = order[n] => m = n
  /\ {order[n] : n \in DOMAIN order} = {t \in Turns : Known(t)}
  /\ holder.phase \in {"idle", "selected", "writing", "binding", "bound"}
  /\ asked \subseteq Activities \X (Turns \cup {NoTurn}) \X Nat
  /\ worker \in [phase: {"idle", "drain", "transport", "answered"}, batch: SUBSET Update,
                 row: SUBSET Update, answer: Answers \cup {"none"}]
  /\ binder \in [Activities -> 0..MaxEpoch] /\ forgotten \subseteq Activities

\* An activity that this incarnation bound keeps its cohort in memory while its
\* lease lives, whatever newer turns arrive.
BoundWorkRetained ==
  \A a \in Activities :
    activities[a].turn # NoTurn /\ activities[a].lease > now /\ binder[a] = epoch
      => Known(activities[a].turn)

\* No update of an activity that was registered once carries a later time than its
\* terminal one, although times are bumped, kept by replacements and returned.
TerminalNewest ==
  \A r, s \in pending :
    r.act = s.act /\ r.act \notin forgotten /\ r.sig.phase \in Ends => s.stamp <= r.stamp

\* The phone is told that work ended only when it had: the parent has an outcome
\* and none of its children runs.
EndIsTrue ==
  \A r \in pending' :
    r.sig.phase \in Ends /\ (\A s \in pending : Key(s) # Key(r))
      => work[r.turn].outcome # "none" /\ ActiveChildren(work[r.turn]) = {}
TerminalIsTrue == [][EndIsTrue]_vars

\* A terminal update is decided in the end: accepted, refused, expired or gone.
TerminalSettles ==
  \A a \in Activities :
    []<>(\A r \in pending : r.act = a /\ r.sig.phase \in Ends => r.state \notin Live)

=============================================================================
