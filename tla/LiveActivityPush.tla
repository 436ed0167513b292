--------------------------- MODULE LiveActivityPush ---------------------------
(***************************************************************************)
(* The Live Activities that this host pushes to APNs itself: the rows of    *)
(* live_activities and pending_live_activity_updates (store.py), the worker *)
(* of each process that updates them and sends deferred ones again          *)
(* (service.py), and the phone that registers an activity again meanwhile.  *)
(*                                                                          *)
(* One activity.  A worker holds the activity's file lock from its re-read  *)
(* of the row until the row is settled; a registration takes no lock.  Each *)
(* store call is a transaction and an action.                               *)
(***************************************************************************)
EXTENDS Integers, FiniteSets

CONSTANTS
  Workers, NoWorker,   \* one per process
  Owners,              \* the push token, sessions and profile of a registration
  Phases,              \* of _live_activity_phase
  MaxAttempts,         \* _MAX_RELAY_AUTOMATIC_ATTEMPTS
  MaxTries             \* max_attempts of one send

CONSTANTS MaxRegistrations, MaxUpdates, MaxStamp, MaxDeaths   \* bounds of the model

TerminalPhases == {"completed", "failed"}
Routine  == {"thinking", "running"}
PushAssumption ==
  /\ NoWorker \notin Workers /\ Phases \subseteq TerminalPhases \cup Routine \cup {"waiting"}
  /\ {MaxAttempts, MaxTries} \subseteq Nat \ {0}
  /\ {MaxRegistrations, MaxUpdates, MaxStamp, MaxDeaths} \subseteq Nat

VARIABLES
  activity,      \* the row: owner_generation, owner, whether ended_at is NULL, last_push_timestamp
  pending,       \* the deferred update of the activity
  lock,          \* live_activity_send_lock
  worker,        \* where a worker is: what it sends, and the rows as it read them
  updates, deaths, rids,
  finished,      \* history: registrations whose terminal update APNs took
  blamed,        \* history: registrations that a terminal update or a dead token may end
  overrun        \* history: a registration was pushed to again after its end

pushVars == <<activity, pending, lock, worker, updates, deaths, rids, finished, blamed, overrun>>

NoOwner    == "nobody"
NoPending  == [status |-> "none", attempts |-> 0, gen |-> 0, rid |-> 0]
NotPushing       == [at |-> "idle", phase |-> "none", owner |-> NoOwner, gen |-> 0, rid |-> 0, try |-> 0, last |-> ""]
Generation == 0..MaxRegistrations

PushTypeOK ==
  /\ activity \in [gen: Generation, owner: Owners \cup {NoOwner}, active: BOOLEAN, stamp: 0..MaxStamp]
  /\ pending \in [status: Phases \cup {"none"}, attempts: 0..MaxAttempts, gen: Generation, rid: Nat]
  /\ lock \in Workers \cup {NoWorker} /\ rids \in Nat
  /\ worker \in [Workers -> [at: {"idle", "found", "due", "ready", "wire", "settle"},
                             phase: Phases \cup {"none"}, owner: Owners \cup {NoOwner},
                             gen: Generation, rid: Nat, try: 0..MaxTries,
                             last: {"", "ok", "retry", "refused", "invalid"}]]
  /\ finished \subseteq Generation /\ blamed \subseteq Generation

PushInit ==
  /\ activity = [gen |-> 0, owner |-> NoOwner, active |-> FALSE, stamp |-> 0]
  /\ pending = NoPending /\ lock = NoWorker
  /\ worker = [w \in Workers |-> NotPushing]
  /\ updates = 0 /\ deaths = 0 /\ rids = 0
  /\ finished = {} /\ blamed = {} /\ overrun = FALSE

-----------------------------------------------------------------------------
\* upsert_live_activity: the activity has a new owner and nothing deferred; its last
\* timestamp stays.
Register(o) ==
  /\ activity.gen < MaxRegistrations
  /\ activity' = [activity EXCEPT !.gen = @ + 1, !.owner = o, !.active = TRUE]
  /\ pending' = NoPending
  /\ UNCHANGED <<lock, worker, updates, deaths, rids, finished, blamed, overrun>>

\* update_live_activities and _reconcile_live_activity_updates, before the lock.
Find(w, phase) ==
  /\ worker[w] = NotPushing /\ activity.active /\ updates < MaxUpdates
  /\ updates' = updates + 1
  /\ worker' = [worker EXCEPT ![w] = [NotPushing EXCEPT !.at = "found", !.phase = phase, !.owner = activity.owner]]
  /\ UNCHANGED <<activity, pending, lock, deaths, rids, finished, blamed, overrun>>

Exhausted(p) == p.attempts >= MaxAttempts
FindDue(w) ==
  /\ worker[w] = NotPushing /\ activity.active
  /\ pending # NoPending /\ ~Exhausted(pending)
  /\ worker' = [worker EXCEPT ![w] = [NotPushing EXCEPT !.at = "due"]]
  /\ UNCHANGED <<activity, pending, lock, updates, deaths, rids, finished, blamed, overrun>>

\* An update that is waiting to be sent again gives way to one that says more.
GivesWay(p, phase) ==
  \/ phase \in TerminalPhases /\ ~(Exhausted(p) \/ p.status \in TerminalPhases)
  \/ Exhausted(p) /\ p.status \in Routine /\ phase \in TerminalPhases \cup {"waiting"}
  \/ ~Exhausted(p) /\ p.status \in Routine /\ phase = "waiting"

\* The rows are read again under the lock (without the owner's generation).
Current(w) == activity.active /\ activity.owner = worker[w].owner
Ready(w, phase, p) ==
  [worker EXCEPT ![w] = [NotPushing EXCEPT !.at = "ready", !.phase = phase, !.owner = activity.owner,
                                     !.gen = activity.gen, !.rid = p.rid]]
Enter(w) ==
  /\ worker[w].at = "found" /\ lock = NoWorker
  /\ IF Current(w) /\ (pending = NoPending \/ GivesWay(pending, worker[w].phase))
       THEN /\ lock' = w /\ pending' = NoPending
            /\ worker' = Ready(w, worker[w].phase, NoPending)
       ELSE /\ worker' = [worker EXCEPT ![w] = NotPushing]
            /\ UNCHANGED <<lock, pending>>
  /\ UNCHANGED <<activity, updates, deaths, rids, finished, blamed, overrun>>
EnterDue(w) ==
  /\ worker[w].at = "due" /\ lock = NoWorker
  /\ IF activity.active /\ pending # NoPending
       THEN lock' = w /\ worker' = Ready(w, pending.status, pending)
       ELSE worker' = [worker EXCEPT ![w] = NotPushing] /\ UNCHANGED lock
  /\ UNCHANGED <<activity, pending, updates, deaths, rids, finished, blamed, overrun>>

-----------------------------------------------------------------------------
\* _send_live_activity_with_retry: a timestamp of the registration, then the push.
Mine(w) == activity.active /\ activity.gen = worker[w].gen
Attempt(w) ==
  /\ worker[w].at = "ready"
  /\ IF Mine(w)
       THEN /\ activity.stamp < MaxStamp
            /\ activity' = [activity EXCEPT !.stamp = @ + 1]
            /\ worker' = [worker EXCEPT ![w].at = "wire", ![w].try = @ + 1]
       ELSE /\ worker' = [worker EXCEPT ![w].at = "settle", ![w].last = "refused"]
            /\ UNCHANGED activity
  /\ UNCHANGED <<pending, lock, updates, deaths, rids, finished, blamed, overrun>>

\* APNs takes the push or not, and its answer arrives or not.
Answered(w, taken, says) ==
  /\ worker[w].at = "wire"
  /\ says = "ok" => taken
  /\ says \in {"refused", "invalid"} => ~taken
  /\ worker' = [worker EXCEPT ![w].last = says,
                  ![w].at = IF says = "retry" /\ worker[w].try < MaxTries THEN "ready" ELSE "settle"]
  /\ overrun' = (overrun \/ (taken /\ worker[w].gen \in finished /\ worker[w].phase \notin TerminalPhases))
  /\ finished' = IF says = "ok" /\ worker[w].phase \in TerminalPhases THEN finished \cup {worker[w].gen} ELSE finished
  /\ blamed' = IF says = "invalid" \/ (says = "ok" /\ worker[w].phase \in TerminalPhases)
                 THEN blamed \cup {worker[w].gen} ELSE blamed
  /\ UNCHANGED <<activity, pending, lock, updates, deaths, rids>>

-----------------------------------------------------------------------------
\* The row is settled under the generation and the request it was read with.
Matches(w)  == pending # NoPending /\ pending.gen = worker[w].gen
                 /\ (worker[w].rid # 0 => pending.rid = worker[w].rid)
MayEnd(w)   == activity.gen = worker[w].gen /\ (worker[w].rid # 0 => Matches(w))
Released(w) == lock' = NoWorker /\ worker' = [worker EXCEPT ![w] = NotPushing]

\* end_live_activity
EndActivity(w) ==
  /\ worker[w].at = "settle"
  /\ \/ worker[w].last = "invalid"
     \/ worker[w].last = "ok" /\ worker[w].phase \in TerminalPhases
  /\ IF MayEnd(w)
       THEN activity' = [activity EXCEPT !.active = FALSE] /\ pending' = NoPending
       ELSE UNCHANGED <<activity, pending>>
  /\ Released(w)
  /\ UNCHANGED <<updates, deaths, rids, finished, blamed, overrun>>

\* clear_pending_live_activity_update, when there was a row to clear.
ClearPending(w) ==
  /\ worker[w].at = "settle"
  /\ \/ worker[w].last = "refused"
     \/ worker[w].last = "ok" /\ worker[w].phase \notin TerminalPhases
  /\ pending' = IF worker[w].rid # 0 /\ Matches(w) THEN NoPending ELSE pending
  /\ Released(w)
  /\ UNCHANGED <<activity, updates, deaths, rids, finished, blamed, overrun>>

\* defer_live_activity_update: of an owner that has not changed, and only over a row
\* that this one may replace; the attempts of an update are counted through.
MayDefer(w) ==
  /\ Mine(w)
  /\ worker[w].rid # 0 => Matches(w)
  /\ pending # NoPending =>
       IF Exhausted(pending) \/ pending.status \in TerminalPhases
         THEN \/ pending.status \notin TerminalPhases /\ worker[w].phase \in TerminalPhases \cup {"waiting"}
              \/ pending.status = worker[w].phase /\ ~Exhausted(pending)
         ELSE ~(pending.status = "waiting" /\ worker[w].phase \in Routine)
Counted(w) ==
  IF pending = NoPending \/ (pending.status \in Routine /\ worker[w].phase \notin Routine)
    THEN 1 ELSE pending.attempts + 1
Defer(w) ==
  /\ worker[w].at = "settle" /\ worker[w].last = "retry"
  /\ IF MayDefer(w)
       THEN /\ rids' = rids + 1
            /\ pending' = [status |-> worker[w].phase, gen |-> activity.gen, rid |-> rids + 1,
                           attempts |-> IF Counted(w) > MaxAttempts THEN MaxAttempts ELSE Counted(w)]
       ELSE UNCHANGED <<pending, rids>>
  /\ Released(w)
  /\ UNCHANGED <<activity, updates, deaths, finished, blamed, overrun>>

\* The process dies: the system releases its lock.
Dies(w) ==
  /\ worker[w] # NotPushing /\ deaths < MaxDeaths
  /\ deaths' = deaths + 1
  /\ worker' = [worker EXCEPT ![w] = NotPushing]
  /\ lock' = IF lock = w THEN NoWorker ELSE lock
  /\ finished' = IF lock = w THEN finished \ {worker[w].gen} ELSE finished
  /\ UNCHANGED <<activity, pending, updates, rids, blamed, overrun>>

PushNext ==
  \/ \E o \in Owners : Register(o)
  \/ \E w \in Workers :
       \/ \E phase \in Phases : Find(w, phase)
       \/ FindDue(w) \/ Enter(w) \/ EnterDue(w) \/ Attempt(w)
       \/ \E taken \in BOOLEAN, says \in {"ok", "retry", "refused", "invalid"} : Answered(w, taken, says)
       \/ EndActivity(w) \/ ClearPending(w) \/ Defer(w) \/ Dies(w)

PushSpec == PushInit /\ [][PushNext]_pushVars

-----------------------------------------------------------------------------
\* Once APNs took the terminal update of a registration, no other update of it is
\* pushed, by any process, unless the process dies before it has ended the row.
NothingAfterTheEnd == ~overrun

\* Only its own terminal update, or its own dead token, ends a registration: the
\* answer to an older one does not (owner_generation).
EndedForItself == activity.gen > 0 /\ ~activity.active => activity.gen \in blamed

=============================================================================
