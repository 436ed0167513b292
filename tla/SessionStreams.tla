----------------------------- MODULE SessionStreams -----------------------------
(***************************************************************************)
(* Live presentation of sessions: the hub of loopdy_plugin/                 *)
(* session_stream.py, the current state that session_presentation.py keeps  *)
(* beside it, the adapter's bounded table of scopes, and the subscriptions  *)
(* that direct_server.py runs for the phones.                               *)
(*                                                                          *)
(* Publishers are any thread; a subscription's receiver lives on one event  *)
(* loop and is woken through call_soon_threadsafe.  A block under the hub's *)
(* lock, or under the adapter's presentation lock, is one step.  One        *)
(* incarnation of the gateway's presentation: after Retire nothing is       *)
(* published.                                                               *)
(***************************************************************************)
EXTENDS Integers, Sequences, FiniteSets

CONSTANTS
  Views,            \* subscriptions a phone may open, each once
  Scopes,           \* (agent, session)
  Keys,             \* identities of presentation payloads: _key
  Sizes             \* of payloads: "small", "deep" (fits its own bound, but not the
                    \* snapshot's nesting), "large" (exceeds maximum_bytes)

CONSTANTS           \* the module's limits
  MaxEvents,        \* maximum_events of a feed, maximum_bytes in small payloads
  MaxShown,         \* maximum_events of a snapshot
  MaxScopes,        \* maximum_sessions of the store and of the adapter
  MaxSubscriptions  \* of the hub

CONSTANT MaxCursor  \* bound of the model

StreamAssumption ==
  /\ Scopes # {} /\ Sizes \subseteq {"small", "deep", "large"}
  /\ MaxEvents \in Nat \ {0} /\ MaxShown \in Nat \ {0} /\ MaxScopes \in Nat \ {0}
  /\ MaxSubscriptions \in Nat \ {0} /\ MaxCursor \in Nat \ {0}

VARIABLES
  cursor,      \* the hub's _cursor
  sub,         \* per view: its SessionStreamSubscription
  shown,       \* per scope: the snapshot, oldest key first; size and coverage
  scopes,      \* the adapter's _presentation_scopes, least recently admitted first
  records,     \* per scope: their records
  evicted,     \* _presentation_evicted
  closedDown,     \* the presentation was closed
  view,        \* per view: where _run_subscription is, and what it read
  phone,       \* per view: what the phone shows, by key
  latest,      \* history: per scope and key, the last payload captured
  log, got     \* history: per view, events published for it and received

hub   == <<cursor, sub>>
store == <<shown, scopes, records, evicted, closedDown>>
streamVars == <<cursor, sub, shown, scopes, records, evicted, closedDown, view, phone, latest, log, got>>

-----------------------------------------------------------------------------
Versions == 0..MaxCursor       \* a payload is named by the cursor it got, 0 for none
Event    == [cursor: Versions, key: Keys, size: Sizes]
Nothing  == [k \in Keys |-> 0]
NoSub    == [state |-> "none", scope |-> CHOOSE s \in Scopes : TRUE, events |-> <<>>, bound |-> FALSE,
             wake |-> FALSE, set |-> FALSE, reset |-> 0]
NoView   == [at |-> "none", shown |-> Nothing]
NoShown  == [cursor |-> 0, events |-> <<>>, complete |-> TRUE]
NoRecord == [cursor |-> 0, incomplete |-> FALSE]

Subscription == [state: {"none", "open", "closed", "reset"}, scope: Scopes, events: Seq(Event),
                 bound: BOOLEAN, wake: BOOLEAN, set: BOOLEAN, reset: Versions]
Snapshot     == [cursor: Versions, events: Seq(Event), complete: BOOLEAN]

StreamsTypeOK ==
  /\ cursor \in Versions
  /\ sub \in [Views -> Subscription] /\ \A v \in Views : Len(sub[v].events) <= MaxEvents
  /\ shown \in [Scopes -> Snapshot] /\ \A s \in Scopes : Len(shown[s].events) <= MaxShown
  /\ scopes \in Seq(Scopes) /\ Len(scopes) <= MaxScopes
  /\ records \in [Scopes -> [cursor: Versions, incomplete: BOOLEAN]]
  /\ evicted \in BOOLEAN /\ closedDown \in BOOLEAN
  /\ view \in [Views -> [at: {"none", "opening", "read", "receiving", "waiting", "ended"},
                        shown: [Keys -> Versions]]]
  /\ phone \in [Views -> [Keys -> Versions]]
  /\ latest \in [Scopes -> [Keys -> Versions]]
  /\ log \in [Views -> Seq(Event)] /\ got \in [Views -> Seq(Event)]

StreamsInit ==
  /\ cursor = 0
  /\ sub = [v \in Views |-> NoSub]
  /\ shown = [s \in Scopes |-> NoShown]
  /\ scopes = <<>>
  /\ records = [s \in Scopes |-> NoRecord]
  /\ evicted = FALSE /\ closedDown = FALSE
  /\ view = [v \in Views |-> NoView]
  /\ phone = [v \in Views |-> Nothing]
  /\ latest = [s \in Scopes |-> Nothing]
  /\ log = [v \in Views |-> <<>>]
  /\ got = [v \in Views |-> <<>>]

Elements(q) == {q[i] : i \in DOMAIN q}
\* An entry of an OrderedDict goes, the others keep their order.
Dropped(q, i) == [j \in 1..(Len(q) - 1) |-> IF j < i THEN q[j] ELSE q[j + 1]]
Without(q, s) == IF s \in Elements(q) THEN Dropped(q, CHOOSE i \in DOMAIN q : q[i] = s) ELSE q
Feeds(s) == {v \in Views : sub[v].state = "open" /\ sub[v].scope = s}

-----------------------------------------------------------------------------
\* The hub.

\* _clear_notification_locked.
Cleared(u) == [u EXCEPT !.set = FALSE]

\* _schedule_wake_locked: nothing to do before the receiver's loop is known, while a
\* wake-up is scheduled, or when the notification is set.
Woken(u) == IF u.bound /\ ~u.set THEN [u EXCEPT !.wake = TRUE] ELSE u

\* _reset_locked
Reset(u, c) == Woken([u EXCEPT !.state = "reset", !.events = <<>>, !.reset = c])
\* close
Closes(u) == IF u.state = "open" THEN Woken([u EXCEPT !.state = "closed", !.events = <<>>]) ELSE u
\* publish, for one subscription: a full feed is reset, never thinned out.
Overflow(u, e) == Reset(u, e.cursor)
Fed(u, e) ==
  IF Len(u.events) >= MaxEvents THEN Overflow(u, e)
  ELSE Woken([u EXCEPT !.events = Append(@, e)])

\* reset ends every feed of a scope.
ResetAll(subs, S, c) ==
  [v \in Views |-> IF subs[v].state = "open" /\ subs[v].scope \in S THEN Reset(subs[v], c) ELSE subs[v]]

Notable(u) == u.events # <<>> \/ u.state # "open"
\* _deliver_wake, on the receiver's loop.
DeliverWake(v) ==
  /\ sub[v].wake
  /\ sub' = [sub EXCEPT ![v].wake = FALSE, ![v].set = @ \/ Notable(sub[v])]
  /\ UNCHANGED <<cursor, store, view, phone, latest, log, got>>

-----------------------------------------------------------------------------
\* Capturing a payload.

\* _admit_presentation_scope: a scope beyond the limit retires the oldest one, whose
\* feeds are reset, and from then on absence proves nothing.
Oldest   == Head(scopes)
Crowded(s) == s \notin Elements(scopes) /\ Len(scopes) >= MaxScopes
Admitted(s) == Append(Without(IF Crowded(s) THEN Tail(scopes) ELSE scopes, s), s)
RecordOf(s) == IF s \in Elements(scopes) THEN records[s]
               ELSE [cursor |-> 0, incomplete |-> evicted \/ Crowded(s)]
KeptShown(s) == IF Crowded(s) THEN [shown EXCEPT ![Oldest] = NoShown] ELSE shown
KeptSubs(s)  == IF Crowded(s) THEN ResetAll(sub, {Oldest}, cursor + 1) ELSE sub
Admissions(s) == IF Crowded(s) THEN cursor + 1 ELSE cursor

\* SessionPresentationStore.publish: the key's latest payload takes its slot; the
\* oldest slots go when the snapshot is full, which makes it incomplete.
Slots(events, e) ==
  IF \E i \in DOMAIN events : events[i].key = e.key
  THEN [i \in DOMAIN events |-> IF events[i].key = e.key THEN e ELSE events[i]]
  ELSE Append(events, e)
Emptied(events, k) ==
  IF \E i \in DOMAIN events : events[i].key = k
  THEN Dropped(events, CHOOSE i \in DOMAIN events : events[i].key = k)
  ELSE events
Installed(snap, e) ==
  LET all == Slots(snap.events, e) IN
  [cursor |-> e.cursor,
   events |-> IF Len(all) > MaxShown THEN Tail(all) ELSE all,
   complete |-> snap.complete /\ Len(all) <= MaxShown]

\* A snapshot can be shown if it is complete and its nested size fits.
Fits(snap) == \A i \in DOMAIN snap.events : snap.events[i].size # "deep"

\* _capture_session_presentation of a payload that fits: published to the feeds and
\* installed under one lock; when the result cannot be shown in full, the scope is
\* marked and its feeds are reset.
Capture(s, k, size) ==
  LET c == Admissions(s) + 1
      e == [cursor |-> c, key |-> k, size |-> size]
      subs == KeptSubs(s)
      fed == [v \in Views |-> IF v \in Feeds(s) THEN Fed(subs[v], e) ELSE subs[v]]
      snap == Installed(KeptShown(s)[s], e)
      whole == snap.complete /\ ~RecordOf(s).incomplete /\ Fits(snap)
      resets == IF whole THEN 0 ELSE IF Fits(snap) THEN 1 ELSE 2
  IN /\ ~closedDown /\ size # "large" /\ c + resets <= MaxCursor
     /\ cursor' = c + resets
     /\ sub' = IF whole THEN fed ELSE ResetAll(fed, {s}, c + 1)
     /\ shown' = [KeptShown(s) EXCEPT ![s] = snap]
     /\ scopes' = Admitted(s)
     /\ records' = [records EXCEPT ![s] = IF whole THEN RecordOf(s)
                                          ELSE [cursor |-> c + resets, incomplete |-> TRUE]]
     /\ evicted' = (evicted \/ Crowded(s))
     /\ latest' = [latest EXCEPT ![s][k] = c]
     /\ log' = [v \in Views |-> IF v \in Feeds(s) THEN Append(log[v], e) ELSE log[v]]
     /\ UNCHANGED <<closedDown, view, phone, got>>

\* A payload over the bound: its slot is emptied, the snapshot incomplete, and both
\* the store and the adapter reset the feeds.
CaptureTooLarge(s, k) ==
  LET c == Admissions(s) IN
  /\ ~closedDown /\ "large" \in Sizes /\ c + 2 <= MaxCursor
  /\ cursor' = c + 2
  /\ sub' = ResetAll(KeptSubs(s), {s}, c + 1)
  /\ shown' = [KeptShown(s) EXCEPT ![s] =
       [cursor |-> c + 1, events |-> Emptied(KeptShown(s)[s].events, k), complete |-> FALSE]]
  /\ scopes' = Admitted(s)
  /\ records' = [records EXCEPT ![s] = [cursor |-> c + 2, incomplete |-> TRUE]]
  /\ evicted' = (evicted \/ Crowded(s))
  /\ latest' = [latest EXCEPT ![s][k] = c + 1]
  /\ UNCHANGED <<closedDown, view, phone, log, got>>

\* _close_session_presentation: the scopes that are known are reset.
Retire ==
  /\ ~closedDown /\ cursor + Len(scopes) <= MaxCursor
  /\ cursor' = cursor + Len(scopes)
  /\ sub' = ResetAll(sub, Elements(scopes), cursor + Len(scopes))
  /\ shown' = [s \in Scopes |-> NoShown]
  /\ scopes' = <<>>
  /\ records' = [s \in Scopes |-> NoRecord]
  /\ evicted' = FALSE /\ closedDown' = TRUE
  /\ UNCHANGED <<view, phone, latest, log, got>>

-----------------------------------------------------------------------------
\* Subscriptions of the Direct server.

\* _open_session_snapshot subscribes before it reads the state.
Opens(v, s) ==
  /\ view[v].at = "none" /\ ~closedDown
  /\ Cardinality({w \in Views : sub[w].state = "open"}) < MaxSubscriptions
  /\ view' = [view EXCEPT ![v].at = "opening"]
  /\ sub' = [sub EXCEPT ![v] = [NoSub EXCEPT !.state = "open", !.scope = s]]
  /\ UNCHANGED <<cursor, store, phone, latest, log, got>>

\* session_presentation_snapshot, some time later: it is complete only if its scope is
\* known and unmarked, or nothing was ever evicted.
Complete(s) ==
  /\ ~closedDown /\ shown[s].complete
  /\ IF s \in Elements(scopes) THEN ~records[s].incomplete ELSE ~evicted
ShownIn(s) == [k \in Keys |->
  IF \E i \in DOMAIN shown[s].events : shown[s].events[i].key = k
  THEN (CHOOSE i \in DOMAIN shown[s].events : shown[s].events[i].key = k) ELSE 0]
ReadsState(v) ==
  LET s == sub[v].scope IN
  /\ view[v].at = "opening"
  /\ IF Complete(s) /\ sub[v].state # "closed"
     THEN /\ view' = [view EXCEPT ![v] =
               [at |-> "read",
                shown |-> [k \in Keys |-> IF ShownIn(s)[k] = 0 THEN 0
                                          ELSE shown[s].events[ShownIn(s)[k]].cursor]]]
          /\ UNCHANGED sub
     ELSE /\ view' = [view EXCEPT ![v].at = "ended"]
          /\ sub' = [sub EXCEPT ![v] = Closes(@)]
  /\ closedDown \/ Fits(shown[s])
  /\ UNCHANGED <<cursor, store, phone, latest, log, got>>

\* A state that cannot be shown at its nesting is marked and the scope's feeds reset.
ReadsUnfit(v) ==
  LET s == sub[v].scope IN
  /\ view[v].at = "opening" /\ ~closedDown /\ ~Fits(shown[s]) /\ cursor < MaxCursor
  /\ cursor' = cursor + 1
  /\ sub' = ResetAll(sub, {s}, cursor + 1)
  /\ records' = [records EXCEPT ![s] = [cursor |-> cursor + 1, incomplete |-> TRUE]]
  /\ view' = [view EXCEPT ![v].at = "ended"]
  /\ UNCHANGED <<shown, scopes, evicted, closedDown, phone, latest, log, got>>

\* The snapshot is sent; the phone shows it.
SendsSnapshot(v) ==
  /\ view[v].at = "read"
  /\ view' = [view EXCEPT ![v].at = "receiving"]
  /\ phone' = [phone EXCEPT ![v] = view[v].shown]
  /\ UNCHANGED <<hub, store, latest, log, got>>

\* receive: the terminal state, the next event, or a wait.  The phone shows an event
\* unless the snapshot was newer.
Receive(v) ==
  /\ view[v].at = "receiving"
  /\ LET u == [sub[v] EXCEPT !.bound = TRUE] IN
       IF u.state # "open"
         THEN /\ view' = [view EXCEPT ![v].at = "ended"]
              /\ sub' = [sub EXCEPT ![v] = u]
              /\ UNCHANGED <<phone, got>>
       ELSE IF u.events # <<>>
         THEN LET e == Head(u.events)
                  left == [u EXCEPT !.events = Tail(@)]
              IN /\ sub' = [sub EXCEPT ![v] = IF left.events = <<>> THEN Cleared(left) ELSE left]
                 /\ phone' = [phone EXCEPT ![v][e.key] = IF @ > e.cursor THEN @ ELSE e.cursor]
                 /\ got' = [got EXCEPT ![v] = Append(@, e)]
                 /\ UNCHANGED view
       ELSE /\ sub' = [sub EXCEPT ![v] = Cleared(u)]
            /\ view' = [view EXCEPT ![v].at = "waiting"]
            /\ UNCHANGED <<phone, got>>
  /\ UNCHANGED <<cursor, store, latest, log>>

\* The notification wakes it.
Wakes(v) ==
  /\ view[v].at = "waiting" /\ sub[v].set
  /\ view' = [view EXCEPT ![v].at = "receiving"]
  /\ UNCHANGED <<hub, store, phone, latest, log, got>>

\* Unsubscribed, replaced, its connection or its runtime closed: the feed is closed,
\* the task cancelled.
Cancels(v) ==
  /\ view[v].at \notin {"none", "ended"}
  /\ view' = [view EXCEPT ![v].at = "ended"]
  /\ sub' = [sub EXCEPT ![v] = Closes(@)]
  /\ UNCHANGED <<cursor, store, phone, latest, log, got>>

\* The runtime that owns the feeds is stopped: they close under their tasks.
StopRuntime ==
  /\ \E v \in Views : sub[v].state = "open"
  /\ sub' = [v \in Views |-> Closes(sub[v])]
  /\ UNCHANGED <<cursor, store, view, phone, latest, log, got>>

-----------------------------------------------------------------------------
Publishing == \/ \E s \in Scopes, k \in Keys, size \in Sizes : Capture(s, k, size)
              \/ \E s \in Scopes, k \in Keys : CaptureTooLarge(s, k)
              \/ Retire
Viewing(v) == \/ \E s \in Scopes : Opens(v, s)
              \/ ReadsState(v) \/ ReadsUnfit(v) \/ SendsSnapshot(v) \/ Receive(v) \/ Wakes(v) \/ Cancels(v)
              \/ DeliverWake(v)

StreamsNext == Publishing \/ StopRuntime \/ \E v \in Views : Viewing(v)

StreamsSpec == StreamsInit /\ [][StreamsNext]_streamVars

-----------------------------------------------------------------------------
\* A receiver that waits although there is something to receive, or its feed is over,
\* is about to be woken: the publisher's shortcuts (a wake-up already scheduled, a
\* notification already set) never leave it asleep.
NoLostWakeUp ==
  \A v \in Views :
    view[v].at = "waiting" /\ (sub[v].events # <<>> \/ sub[v].state # "open")
      => sub[v].wake \/ sub[v].set

\* A phone whose feed is open shows, once it has read what is buffered, the latest
\* payload of every key: whatever was captured between its subscription and its
\* snapshot, however the snapshot was bounded, and whoever was evicted.
Seen(v, k)     == IF view[v].at = "read" THEN view[v].shown[k] ELSE phone[v][k]
Buffered(v, k) == {i \in DOMAIN sub[v].events : sub[v].events[i].key = k}
WillShow(v, k, c) == Seen(v, k) >= c \/ \E i \in Buffered(v, k) : sub[v].events[i].cursor >= c
ViewsConverge ==
  \A v \in Views : sub[v].state = "open" /\ view[v].at \in {"read", "receiving", "waiting"}
    => \A k \in Keys : WillShow(v, k, latest[sub[v].scope][k])

\* A subscription is an ordered feed: see OrderedFeed.
FeedState == [v \in Views |-> IF sub[v].state \in {"closed", "reset"} THEN "ended" ELSE sub[v].state]
Feed == INSTANCE OrderedFeed WITH
  Readers <- Views, Events <- Event,
  log <- log, got <- got, state <- FeedState
ImplementsFeed == Feed!Spec
=============================================================================
