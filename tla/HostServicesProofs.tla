-------------------------- MODULE HostServicesProofs --------------------------
(***************************************************************************)
(* Proofs about services of the host.  SessionStreams, for any views,      *)
(* scopes, keys and limits: that a waiting receiver is woken, that a       *)
(* subscription is an ordered feed, and that a view converges to what the  *)
(* host captured last.  EventDelivery, for any events, devices and bounds: *)
(* that a device is alerted once, and that Hermes is answered as chosen.   *)
(* LiveActivityPush, for any workers and owners: nothing is pushed after   *)
(* the end, and only its own end ends a registration.  RoomActivity, for   *)
(* any feeds and limits: that it is an ordered feed.  And that the run of  *)
(* these components has both of its conjunctions.                          *)
(***************************************************************************)
EXTENDS MCHostServices, FiniteSetTheorems, SequenceTheorems, TLAPS

\* The adapter knows a scope once.
Once(q) == \A i, j \in DOMAIN q : q[i] = q[j] => i = j
Distinct == Once(scopes)

\* A snapshot that counts as complete holds the last payload of every key.
Faithful(s) ==
  \A k \in Keys :
    /\ \A i \in DOMAIN shown[s].events :
         shown[s].events[i].key = k => shown[s].events[i].cursor = latest[s][k]
    /\ (\A i \in DOMAIN shown[s].events : shown[s].events[i].key # k) => latest[s][k] = 0
SnapshotsOK == \A s \in Scopes : Complete(s) => Faithful(s)

\* A view whose snapshot was read shows the latest payloads once its buffer is read.
Converges(v) ==
  sub[v].state = "open" /\ view[v].at \in {"read", "receiving", "waiting"} =>
    \A k \in Keys : WillShow(v, k, latest[sub[v].scope][k])

\* A subscription lives as long as its view, and what was published for it is what its
\* reader got, followed by what is buffered.
Fresh(v) == view[v].at = "none" <=> sub[v].state = "none"
InOrder(v) ==
  /\ sub[v].state = "none" => log[v] = <<>> /\ got[v] = <<>>
  /\ sub[v].state = "open" => log[v] = got[v] \o sub[v].events

\* Only a receiver that gave its loop waits, and it does not sleep on anything.
Awake(v) ==
  view[v].at = "waiting" =>
    /\ sub[v].bound
    /\ Notable(sub[v]) => sub[v].wake \/ sub[v].set

Streams ==
  /\ StreamsTypeOK /\ Distinct /\ SnapshotsOK
  /\ \A v \in Views : Converges(v) /\ Fresh(v) /\ InOrder(v) /\ Awake(v)
-----------------------------------------------------------------------------
\* Data.

\* Limits are positive, and nothing was captured at 0.
LEMMA Limits ==
  ASSUME StreamAssumption
  PROVE  /\ MaxEvents \in Nat \ {0} /\ MaxShown \in Nat \ {0} /\ MaxScopes \in Nat \ {0}
         /\ MaxSubscriptions \in Nat \ {0} /\ MaxCursor \in Nat \ {0}
         /\ Versions = 0 .. MaxCursor /\ 0 \in Versions /\ Scopes # {}
BY DEF StreamAssumption, Versions

\* Sequences of one domain have one length.
LEMMA SameLength ==
  ASSUME NEW m \in Nat, NEW n \in Nat, 1 .. m = 1 .. n
  PROVE  m = n
<1>1. ~(m < n)
  <2> SUFFICES ASSUME m < n PROVE FALSE
    OBVIOUS
  <2>1. n \in 1 .. n /\ n \notin 1 .. m
    OBVIOUS
  <2> QED BY <2>1
<1>2. ~(n < m)
  <2> SUFFICES ASSUME n < m PROVE FALSE
    OBVIOUS
  <2>1. m \in 1 .. m /\ m \notin 1 .. n
    OBVIOUS
  <2> QED BY <2>1
<1> QED BY <1>1, <1>2

\* Taking an entry out of a sequence keeps the others.
LEMMA DroppedIs ==
  ASSUME NEW S, NEW q \in Seq(S), NEW i \in DOMAIN q
  PROVE  /\ Dropped(q, i) \in Seq(S) /\ Len(Dropped(q, i)) = Len(q) - 1
         /\ DOMAIN Dropped(q, i) = 1 .. (Len(q) - 1)
         /\ \A j \in DOMAIN Dropped(q, i) :
              Dropped(q, i)[j] = IF j < i THEN q[j] ELSE q[j + 1]
<1>1. Len(q) \in Nat /\ DOMAIN q = 1 .. Len(q) /\ Len(q) - 1 \in Nat
  OBVIOUS
<1>2. \A j \in 1 .. (Len(q) - 1) : (IF j < i THEN q[j] ELSE q[j + 1]) \in S
  BY <1>1
<1>3. Dropped(q, i) \in [1 .. (Len(q) - 1) -> S]
  BY <1>2 DEF Dropped
<1>4. Dropped(q, i) \in Seq(S)
  BY <1>1, <1>3, SeqDef
<1>5. DOMAIN Dropped(q, i) = 1 .. (Len(q) - 1)
  BY <1>3
<1>6. Len(Dropped(q, i)) = Len(q) - 1
  <2>1. Len(Dropped(q, i)) \in Nat /\ DOMAIN Dropped(q, i) = 1 .. Len(Dropped(q, i))
    BY <1>4, LenProperties
  <2> QED BY <1>1, <1>5, <2>1, SameLength
<1> QED BY <1>1, <1>4, <1>5, <1>6 DEF Dropped

\* A subscription that may sleep is woken by whoever changes what it waits for.
Awakes(u, w) ==
  /\ w.scope = u.scope /\ w.bound = u.bound /\ w.set = u.set
  /\ u.wake => w.wake
  /\ u.bound /\ ~u.set => w.wake

\* The ways a subscription changes under its publishers: it ends, or gets one event more.
Ended(u, w) ==
  /\ w \in Subscription /\ u.state = "open" /\ w.state \in {"closed", "reset"} /\ w.events = <<>>
  /\ Awakes(u, w)
Grown(u, w, e) ==
  /\ w \in Subscription /\ u.state = "open" /\ w.state = "open" /\ w.events = Append(u.events, e)
  /\ Len(w.events) <= MaxEvents /\ Awakes(u, w)

\* Waking changes nothing but the wake-up.
LEMMA WokenIs ==
  ASSUME NEW u \in Subscription
  PROVE  /\ Woken(u) \in Subscription /\ Woken(u).state = u.state /\ Woken(u).events = u.events
         /\ Awakes(u, Woken(u))
BY DEF Woken, Subscription, Awakes

\* A reset ends an open subscription and wakes its reader.
LEMMA ResetEnds ==
  ASSUME NEW u \in Subscription, u.state = "open", NEW c \in Versions
  PROVE  Ended(u, Reset(u, c))
<1> DEFINE w == [u EXCEPT !.state = "reset", !.events = <<>>, !.reset = c]
<1>0. <<>> \in Seq(Event)
  BY EmptySeq
<1>1. /\ w \in Subscription /\ w.state = "reset" /\ w.events = <<>>
      /\ w.scope = u.scope /\ w.bound = u.bound /\ w.set = u.set /\ w.wake = u.wake
  BY <1>0 DEF Subscription
<1>2. Reset(u, c) = Woken(w)
  BY DEF Reset
<1> HIDE DEF w
<1> QED BY <1>1, <1>2, WokenIs DEF Ended, Awakes

\* Closing does so too, and leaves a subscription that is over alone.
LEMMA ClosesEnds ==
  ASSUME NEW u \in Subscription
  PROVE  IF u.state = "open" THEN Ended(u, Closes(u)) ELSE Closes(u) = u
<1> DEFINE w == [u EXCEPT !.state = "closed", !.events = <<>>]
<1>0. <<>> \in Seq(Event)
  BY EmptySeq
<1>1. /\ w \in Subscription /\ w.state = "closed" /\ w.events = <<>>
      /\ w.scope = u.scope /\ w.bound = u.bound /\ w.set = u.set /\ w.wake = u.wake
  BY <1>0 DEF Subscription
<1>2. Closes(u) = IF u.state = "open" THEN Woken(w) ELSE u
  BY DEF Closes
<1> HIDE DEF w
<1> QED BY <1>1, <1>2, WokenIs DEF Ended, Awakes

\* A published event is appended, or ends the subscription whose buffer is full.
LEMMA FedIs ==
  ASSUME StreamAssumption, NEW u \in Subscription, u.state = "open", Len(u.events) <= MaxEvents, NEW e \in Event
  PROVE  Ended(u, Fed(u, e)) \/ Grown(u, Fed(u, e), e)
<1>1. CASE Len(u.events) >= MaxEvents
  <2>1. e.cursor \in Versions
    BY DEF Event
  <2> QED BY <1>1, <2>1, ResetEnds DEF Fed, Overflow
<1>2. CASE ~(Len(u.events) >= MaxEvents)
  <2> DEFINE w == [u EXCEPT !.events = Append(@, e)]
  <2>1. u.events \in Seq(Event)
    BY DEF Subscription
  <2>2. Append(u.events, e) \in Seq(Event) /\ Len(Append(u.events, e)) = Len(u.events) + 1
    BY <2>1
  <2>3. /\ w \in Subscription /\ w.state = "open" /\ w.events = Append(u.events, e)
        /\ w.scope = u.scope /\ w.bound = u.bound /\ w.set = u.set /\ w.wake = u.wake
    BY <2>2 DEF Subscription
  <2>4. Len(u.events) + 1 <= MaxEvents
    BY <1>2, <2>1, Limits
  <2>5. Fed(u, e) = Woken(w)
    BY <1>2 DEF Fed
  <2> HIDE DEF w
  <2> QED BY <2>2, <2>3, <2>4, <2>5, WokenIs DEF Grown, Awakes
<1> QED BY <1>1, <1>2

\* A reset of scopes ends their feeds, and touches no other.
LEMMA ResetAllIs ==
  ASSUME NEW subs \in [Views -> Subscription], NEW S, NEW c \in Versions
  PROVE  /\ ResetAll(subs, S, c) \in [Views -> Subscription]
         /\ \A v \in Views :
              IF subs[v].state = "open" /\ subs[v].scope \in S
              THEN Ended(subs[v], ResetAll(subs, S, c)[v])
              ELSE ResetAll(subs, S, c)[v] = subs[v]
<1>1. \A v \in Views :
        IF subs[v].state = "open" /\ subs[v].scope \in S
        THEN Ended(subs[v], ResetAll(subs, S, c)[v])
        ELSE ResetAll(subs, S, c)[v] = subs[v]
  BY ResetEnds DEF ResetAll
<1>2. \A v \in Views : ResetAll(subs, S, c)[v] \in Subscription
  BY <1>1 DEF Ended
<1> QED BY <1>1, <1>2 DEF ResetAll
-----------------------------------------------------------------------------
\* What the steps do to subscriptions.

Captured(s, k, size) == [cursor |-> Admissions(s) + 1, key |-> k, size |-> size]

\* Some subscriptions end, the others stay as they are.
Ending ==
  /\ sub' \in [Views -> Subscription]
  /\ \A v \in Views : sub'[v] = sub[v] \/ Ended(sub[v], sub'[v])
\* An event is published for the subscriptions in R; some may end.
Feeding(R, e) ==
  /\ sub' \in [Views -> Subscription]
  /\ \A v \in Views :
       \/ v \notin R /\ sub'[v] = sub[v]
       \/ v \in R /\ Grown(sub[v], sub'[v], e)
       \/ Ended(sub[v], sub'[v])

\* A scope that crowds another one out is a different one.
LEMMA OldestIs ==
  ASSUME StreamAssumption, StreamsTypeOK, NEW s \in Scopes, Crowded(s)
  PROVE  Oldest \in Scopes /\ Oldest \in Elements(scopes) /\ Oldest # s /\ scopes # <<>>
<1>1. scopes \in Seq(Scopes) /\ Len(scopes) >= 1
  BY Limits DEF Crowded, StreamsTypeOK
<1>2. 1 \in DOMAIN scopes /\ Oldest = scopes[1] /\ scopes # <<>>
  BY <1>1 DEF Oldest
<1> QED BY <1>1, <1>2 DEF Elements, Crowded

\* The cursors a capture draws.
LEMMA AdmissionsAre ==
  ASSUME StreamAssumption, StreamsTypeOK, NEW s \in Scopes
  PROVE  Admissions(s) \in Nat /\ cursor <= Admissions(s) /\ (Crowded(s) => Admissions(s) = cursor + 1)
BY Limits DEF StreamsTypeOK, Admissions

\* Admission ends the feeds of the scope it retires, at most.
LEMMA KeptSubsAre ==
  ASSUME StreamAssumption, StreamsTypeOK, NEW s \in Scopes, Admissions(s) <= MaxCursor
  PROVE  /\ KeptSubs(s) \in [Views -> Subscription]
         /\ \A v \in Views :
              \/ KeptSubs(s)[v] = sub[v]
              \/ sub[v].scope # s /\ Ended(sub[v], KeptSubs(s)[v])
<1>1. sub \in [Views -> Subscription]
  BY DEF StreamsTypeOK
<1>2. CASE Crowded(s)
  <2>1. cursor + 1 \in Versions
    BY <1>2, AdmissionsAre, Limits DEF StreamsTypeOK
  <2>2. KeptSubs(s) = ResetAll(sub, {Oldest}, cursor + 1)
    BY <1>2 DEF KeptSubs
  <2> QED BY <1>1, <1>2, <2>1, <2>2, OldestIs, ResetAllIs
<1>3. CASE ~Crowded(s)
  BY <1>1, <1>3 DEF KeptSubs
<1> QED BY <1>2, <1>3

\* An end that follows a publication or an end is one.
LEMMA EndsAfter ==
  ASSUME NEW u \in Subscription, NEW w, NEW x, NEW e,
         Ended(u, w) \/ Grown(u, w, e), Ended(w, x) \/ x = w
  PROVE  IF x = w THEN Ended(u, x) \/ Grown(u, x, e) ELSE Ended(u, x)
BY DEF Ended, Grown, Awakes

\* A captured payload is published for the feeds of its scope.
LEMMA CaptureFeeds ==
  ASSUME StreamAssumption, StreamsTypeOK, NEW s \in Scopes, NEW k \in Keys, NEW size \in Sizes, Capture(s, k, size)
  PROVE  /\ Captured(s, k, size) \in Event /\ cursor' \in Versions /\ cursor <= cursor'
         /\ Feeding(Feeds(s), Captured(s, k, size))
<1> DEFINE c == Admissions(s) + 1
           e == Captured(s, k, size)
           subs == KeptSubs(s)
           fed == [v \in Views |-> IF v \in Feeds(s) THEN Fed(subs[v], e) ELSE subs[v]]
<1>1. Admissions(s) \in Nat /\ cursor <= Admissions(s) /\ cursor \in Nat
  BY AdmissionsAre, Limits DEF StreamsTypeOK
<1>2. /\ c <= MaxCursor /\ cursor' \in {c, c + 1, c + 2} /\ cursor' <= MaxCursor
      /\ sub' = fed \/ (c + 1 <= MaxCursor /\ sub' = ResetAll(fed, {s}, c + 1))
  <2> DEFINE snap == Installed(KeptShown(s)[s], e)
             whole == snap.complete /\ ~RecordOf(s).incomplete /\ Fits(snap)
             resets == IF whole THEN 0 ELSE IF Fits(snap) THEN 1 ELSE 2
  <2>1. /\ c + resets <= MaxCursor /\ cursor' = c + resets
        /\ sub' = IF whole THEN fed ELSE ResetAll(fed, {s}, c + 1)
    BY DEF Capture, Captured
  <2> HIDE DEF snap, fed
  <2>2. c \in Nat /\ MaxCursor \in Nat
    BY <1>1, Limits
  <2>3. CASE whole
    BY <2>1, <2>2, <2>3
  <2>4. CASE ~whole
    <3>1. sub' = ResetAll(fed, {s}, c + 1)
      BY <2>1, <2>4
    <3>2. resets \in {1, 2}
      BY <2>4
    <3> QED BY <2>1, <2>2, <3>1, <3>2
  <2> QED BY <2>3, <2>4
<1>3. c \in Versions /\ cursor' \in Versions /\ cursor <= cursor'
  BY <1>1, <1>2, Limits
<1>4. e \in Event
  BY <1>3 DEF Captured, Event
<1>5. /\ subs \in [Views -> Subscription]
      /\ \A v \in Views : subs[v] = sub[v] \/ (sub[v].scope # s /\ Ended(sub[v], subs[v]))
  <2>1. Admissions(s) <= MaxCursor
    BY <1>1, <1>2, Limits
  <2> QED BY <2>1, KeptSubsAre
<1>6. ASSUME NEW v \in Views, v \in Feeds(s)
      PROVE  fed[v] \in Subscription /\ (Ended(sub[v], fed[v]) \/ Grown(sub[v], fed[v], e))
  <2>1. sub[v].state = "open" /\ sub[v].scope = s /\ sub[v] \in Subscription /\ Len(sub[v].events) <= MaxEvents
    BY <1>6 DEF Feeds, StreamsTypeOK
  <2>2. fed[v] = Fed(sub[v], e)
    BY <1>5, <1>6, <2>1
  <2>3. Ended(sub[v], Fed(sub[v], e)) \/ Grown(sub[v], Fed(sub[v], e), e)
    BY <1>4, <2>1, FedIs
  <2> QED BY <2>2, <2>3 DEF Ended, Grown
<1>7. ASSUME NEW v \in Views, v \notin Feeds(s)
      PROVE  /\ fed[v] \in Subscription /\ (fed[v] = sub[v] \/ Ended(sub[v], fed[v]))
             /\ ~(fed[v].state = "open" /\ fed[v].scope = s)
  <2>1. fed[v] = subs[v] /\ subs[v] \in Subscription
    BY <1>5, <1>7
  <2>2. subs[v] = sub[v] \/ Ended(sub[v], subs[v])
    BY <1>5
  <2> QED BY <1>7, <2>1, <2>2 DEF Feeds, Ended
<1>8. fed \in [Views -> Subscription]
  BY <1>6, <1>7
<1> HIDE DEF fed, e, subs, c
<1>9. CASE sub' = fed
  BY <1>3, <1>4, <1>6, <1>7, <1>8, <1>9 DEF Feeding, e
<1>10. CASE c + 1 <= MaxCursor /\ sub' = ResetAll(fed, {s}, c + 1)
  <2>1. c + 1 \in Versions
    BY <1>3, <1>10, Limits
  <2>2. /\ sub' \in [Views -> Subscription]
        /\ \A v \in Views :
             IF fed[v].state = "open" /\ fed[v].scope \in {s} THEN Ended(fed[v], sub'[v]) ELSE sub'[v] = fed[v]
    BY <1>8, <1>10, <2>1, ResetAllIs
  <2>3. ASSUME NEW v \in Views, v \in Feeds(s)
        PROVE  Grown(sub[v], sub'[v], e) \/ Ended(sub[v], sub'[v])
    BY <1>6, <2>2, <2>3, EndsAfter DEF StreamsTypeOK
  <2>4. ASSUME NEW v \in Views, v \notin Feeds(s)
        PROVE  sub'[v] = sub[v] \/ Ended(sub[v], sub'[v])
    BY <1>7, <2>2, <2>4
  <2> QED BY <1>3, <1>4, <2>2, <2>3, <2>4 DEF Feeding, e
<1> QED BY <1>2, <1>9, <1>10

\* A payload that is too large ends the feeds of its scope.
LEMMA TooLargeEnds ==
  ASSUME StreamAssumption, StreamsTypeOK, NEW s \in Scopes, NEW k \in Keys, CaptureTooLarge(s, k)
  PROVE  /\ Ending /\ cursor' \in Versions /\ cursor <= cursor' /\ Admissions(s) + 2 = cursor'
         /\ \A v \in Views : sub'[v].state = "open" => sub[v].scope # s
<1> DEFINE c == Admissions(s) subs == KeptSubs(s)
<1>1. c \in Nat /\ cursor <= c /\ cursor \in Nat
  BY AdmissionsAre, Limits DEF StreamsTypeOK
<1>2. c + 2 <= MaxCursor /\ cursor' = c + 2 /\ sub' = ResetAll(subs, {s}, c + 1)
  BY DEF CaptureTooLarge
<1>3. c + 1 \in Versions /\ c + 2 \in Versions /\ c <= MaxCursor
  BY <1>1, <1>2, Limits
<1>4. /\ subs \in [Views -> Subscription]
      /\ \A v \in Views : subs[v] = sub[v] \/ Ended(sub[v], subs[v])
  BY <1>3, KeptSubsAre
<1> HIDE DEF subs
<1>5. /\ sub' \in [Views -> Subscription]
      /\ \A v \in Views :
           IF subs[v].state = "open" /\ subs[v].scope \in {s} THEN Ended(subs[v], sub'[v])
           ELSE sub'[v] = subs[v]
  BY <1>2, <1>3, <1>4, ResetAllIs
<1>6. ASSUME NEW v \in Views
      PROVE  /\ sub'[v] = sub[v] \/ Ended(sub[v], sub'[v])
             /\ sub'[v].state = "open" => sub[v].scope # s
  <2>1. subs[v] = sub[v] \/ Ended(sub[v], subs[v])
    BY <1>4
  <2> QED BY <1>5, <2>1 DEF Ended, Awakes
<1>7. Ending
  BY <1>5, <1>6 DEF Ending
<1>8. cursor' \in Versions /\ cursor <= cursor' /\ Admissions(s) + 2 = cursor'
  BY <1>1, <1>2, <1>3
<1> QED BY <1>6, <1>7, <1>8

\* So do the end of the presentation, a state that cannot be shown, and the runtime's end.
LEMMA OthersEnd ==
  ASSUME StreamAssumption, StreamsTypeOK
  PROVE  /\ Retire => (Ending /\ cursor' \in Versions)
         /\ \A v \in Views : ReadsUnfit(v) => (Ending /\ cursor' \in Versions)
         /\ StopRuntime => Ending
         /\ \A v \in Views : (ReadsState(v) \/ Cancels(v)) => Ending
<1>1. sub \in [Views -> Subscription] /\ cursor \in Nat /\ Len(scopes) \in Nat
  BY Limits DEF StreamsTypeOK
<1>2. ASSUME Retire PROVE Ending /\ cursor' \in Versions
  <2>1. cursor + Len(scopes) \in Versions
    BY <1>1, <1>2, Limits DEF Retire
  <2> QED BY <1>1, <1>2, <2>1, ResetAllIs DEF Retire, Ending
<1>3. ASSUME NEW v \in Views, ReadsUnfit(v) PROVE Ending /\ cursor' \in Versions
  <2>1. cursor + 1 \in Versions
    BY <1>1, <1>3, Limits DEF ReadsUnfit
  <2> QED BY <1>1, <1>3, <2>1, ResetAllIs DEF ReadsUnfit, Ending
<1>4. ASSUME StopRuntime PROVE Ending
  <2>1. sub' = [v \in Views |-> Closes(sub[v])]
    BY <1>4 DEF StopRuntime
  <2>2. \A v \in Views : sub'[v] = sub[v] \/ Ended(sub[v], sub'[v])
    BY <1>1, <2>1, ClosesEnds
  <2>3. \A v \in Views : sub'[v] \in Subscription
    BY <1>1, <2>2 DEF Ended
  <2> QED BY <2>1, <2>2, <2>3 DEF Ending
<1>5. ASSUME NEW v \in Views, ReadsState(v) \/ Cancels(v) PROVE Ending
  <2>1. sub' = sub \/ sub' = [sub EXCEPT ![v] = Closes(sub[v])]
    BY <1>5 DEF ReadsState, Cancels
  <2>2. \A w \in Views : sub'[w] = sub[w] \/ Ended(sub[w], sub'[w])
    BY <1>1, <2>1, ClosesEnds
  <2>3. \A w \in Views : sub'[w] \in Subscription
    BY <1>1, <2>2 DEF Ended
  <2> QED BY <1>1, <2>1, <2>2, <2>3 DEF Ending
<1> QED BY <1>2, <1>3, <1>4, <1>5
-----------------------------------------------------------------------------
\* Scopes and snapshots.

\* Taking an element out of a sequence without repetitions.
LEMMA WithoutIs ==
  ASSUME NEW S, NEW q \in Seq(S), NEW x \in S, Once(q)
  PROVE  /\ Without(q, x) \in Seq(S) /\ Once(Without(q, x))
         /\ Elements(Without(q, x)) = Elements(q) \ {x}
         /\ Len(Without(q, x)) = IF x \in Elements(q) THEN Len(q) - 1 ELSE Len(q)
<1>1. CASE x \notin Elements(q)
  BY <1>1 DEF Without
<1>2. CASE x \in Elements(q)
  <2>1. PICK i \in DOMAIN q : q[i] = x /\ Without(q, x) = Dropped(q, i)
    <3>1. \E i \in DOMAIN q : q[i] = x
      BY <1>2 DEF Elements
    <3> QED BY <1>2, <3>1 DEF Without
  <2> DEFINE d == Dropped(q, i)
  <2>2. /\ d \in Seq(S) /\ Len(d) = Len(q) - 1 /\ DOMAIN d = 1 .. (Len(q) - 1)
        /\ \A j \in DOMAIN d : d[j] = IF j < i THEN q[j] ELSE q[j + 1]
    BY DroppedIs
  <2>3. Len(q) \in Nat /\ DOMAIN q = 1 .. Len(q) /\ i \in 1 .. Len(q)
    OBVIOUS
  <2> HIDE DEF d
  <2>4. Once(d)
    <3> SUFFICES ASSUME NEW j \in DOMAIN d, NEW l \in DOMAIN d, d[j] = d[l] PROVE j = l
      BY DEF Once
    <3>1. /\ j \in DOMAIN q /\ l \in DOMAIN q /\ j + 1 \in DOMAIN q /\ l + 1 \in DOMAIN q
          /\ j \in Nat /\ l \in Nat /\ i \in Nat
      BY <2>2, <2>3
    <3> DEFINE a == IF j < i THEN j ELSE j + 1
               b == IF l < i THEN l ELSE l + 1
    <3>2. a \in DOMAIN q /\ b \in DOMAIN q /\ q[a] = q[b]
      BY <2>2, <3>1
    <3>3. a = b
      BY <3>2 DEF Once
    <3> QED BY <3>1, <3>3
  <2>5. \A y : y \in Elements(d) => y \in Elements(q) /\ y # x
    <3> SUFFICES ASSUME NEW j \in DOMAIN d PROVE d[j] \in Elements(q) /\ d[j] # x
      BY DEF Elements
    <3>1. j \in DOMAIN q /\ j + 1 \in DOMAIN q /\ j \in Nat /\ i \in Nat
      BY <2>2, <2>3
    <3> DEFINE a == IF j < i THEN j ELSE j + 1
    <3>2. a \in DOMAIN q /\ d[j] = q[a] /\ a # i
      BY <2>2, <3>1
    <3> HIDE DEF a
    <3> QED BY <2>1, <3>2 DEF Once, Elements
  <2>6. \A y : y \in Elements(q) /\ y # x => y \in Elements(d)
    <3> SUFFICES ASSUME NEW j \in DOMAIN q, q[j] # x PROVE q[j] \in Elements(d)
      BY DEF Elements
    <3>1. j \in Nat /\ i \in Nat /\ j # i /\ j >= 1 /\ j <= Len(q) /\ i >= 1 /\ i <= Len(q)
      BY <2>1, <2>3
    <3>2. CASE j < i
      BY <2>2, <2>3, <3>1, <3>2 DEF Elements
    <3>3. CASE i < j
      <4>1. j - 1 \in DOMAIN d /\ d[j - 1] = q[j]
        BY <2>2, <2>3, <3>1, <3>3
      <4> QED BY <4>1 DEF Elements
    <3> QED BY <3>1, <3>2, <3>3
  <2>7. Elements(d) = Elements(q) \ {x}
    BY <2>5, <2>6
  <2> QED BY <1>2, <2>1, <2>2, <2>4, <2>7 DEF d
<1> QED BY <1>1, <1>2

\* The oldest element goes.
LEMMA TailIs ==
  ASSUME NEW S, NEW q \in Seq(S), q # <<>>, Once(q)
  PROVE  /\ Tail(q) \in Seq(S) /\ Once(Tail(q)) /\ Len(Tail(q)) = Len(q) - 1
         /\ Elements(Tail(q)) = Elements(q) \ {Head(q)} /\ Head(q) \in S
<1>1. /\ Len(q) \in Nat \ {0} /\ DOMAIN q = 1 .. Len(q) /\ Head(q) = q[1] /\ Head(q) \in S
      /\ Tail(q) \in Seq(S) /\ Len(Tail(q)) = Len(q) - 1 /\ DOMAIN Tail(q) = 1 .. (Len(q) - 1)
      /\ \A i \in 1 .. (Len(q) - 1) : Tail(q)[i] = q[i + 1]
  BY HeadTailProperties, EmptySeq, LenProperties
<1> DEFINE t == Tail(q)
<1>2. /\ DOMAIN t = 1 .. (Len(q) - 1) /\ \A i \in DOMAIN t : t[i] = q[i + 1] /\ i + 1 \in DOMAIN q /\ i \in Nat
  BY <1>1
<1> HIDE DEF t
<1>3. Once(t)
  <2> SUFFICES ASSUME NEW i \in DOMAIN t, NEW j \in DOMAIN t, t[i] = t[j] PROVE i = j
    BY DEF Once
  <2>1. i + 1 = j + 1
    BY <1>2 DEF Once
  <2> QED BY <1>2, <2>1
<1>4. \A y : y \in Elements(t) => y \in Elements(q) /\ y # q[1]
  <2> SUFFICES ASSUME NEW i \in DOMAIN t PROVE t[i] \in Elements(q) /\ t[i] # q[1]
    BY DEF Elements
  <2>1. i + 1 \in DOMAIN q /\ 1 \in DOMAIN q /\ i + 1 # 1 /\ t[i] = q[i + 1]
    BY <1>1, <1>2
  <2> QED BY <2>1 DEF Once, Elements
<1>5. \A y : y \in Elements(q) /\ y # q[1] => y \in Elements(t)
  <2> SUFFICES ASSUME NEW j \in DOMAIN q, q[j] # q[1] PROVE q[j] \in Elements(t)
    BY DEF Elements
  <2>1. j - 1 \in DOMAIN t /\ t[j - 1] = q[j]
    BY <1>1, <1>2
  <2> QED BY <2>1 DEF Elements
<1>6. Elements(t) = Elements(q) \ {Head(q)}
  BY <1>1, <1>4, <1>5
<1> QED BY <1>1, <1>3, <1>6 DEF t

\* One more element goes last.
LEMMA AppendIs ==
  ASSUME NEW S, NEW q \in Seq(S), NEW x \in S
  PROVE  /\ Append(q, x) \in Seq(S) /\ Len(Append(q, x)) = Len(q) + 1
         /\ Elements(Append(q, x)) = Elements(q) \cup {x}
         /\ Once(q) /\ x \notin Elements(q) => Once(Append(q, x))
<1> DEFINE p == Append(q, x)
<1>1. /\ Len(q) \in Nat /\ DOMAIN q = 1 .. Len(q) /\ p \in Seq(S) /\ Len(p) = Len(q) + 1
      /\ DOMAIN p = 1 .. (Len(q) + 1) /\ \A i \in 1 .. Len(q) : p[i] = q[i]
      /\ p[Len(q) + 1] = x
  BY AppendProperties, LenProperties
<1> HIDE DEF p
<1>2. \A y : y \in Elements(p) => y \in Elements(q) \cup {x}
  BY <1>1 DEF Elements
<1>3. \A y : y \in Elements(q) \cup {x} => y \in Elements(p)
  <2>1. Len(q) + 1 \in DOMAIN p /\ \A i \in DOMAIN q : i \in DOMAIN p
    BY <1>1
  <2> QED BY <1>1, <2>1 DEF Elements
<1>4. ASSUME Once(q), x \notin Elements(q) PROVE Once(p)
  <2> SUFFICES ASSUME NEW i \in DOMAIN p, NEW j \in DOMAIN p, p[i] = p[j] PROVE i = j
    BY DEF Once
  <2>1. i \in Nat /\ j \in Nat /\ (i \in DOMAIN q \/ i = Len(q) + 1) /\ (j \in DOMAIN q \/ j = Len(q) + 1)
    BY <1>1
  <2>2. \A n \in DOMAIN q : p[n] = q[n] /\ q[n] # x
    BY <1>1, <1>4 DEF Elements
  <2> QED BY <1>1, <1>4, <2>1, <2>2 DEF Once
<1> QED BY <1>1, <1>2, <1>3, <1>4 DEF p

\* An admitted scope is the newest, the table keeps its limit, and who is not crowded
\* out stays.
LEMMA AdmittedIs ==
  ASSUME StreamAssumption, StreamsTypeOK, Distinct, NEW s \in Scopes
  PROVE  /\ Admitted(s) \in Seq(Scopes) /\ Len(Admitted(s)) <= MaxScopes /\ Once(Admitted(s))
         /\ Elements(Admitted(s)) =
              (IF Crowded(s) THEN Elements(scopes) \ {Oldest} ELSE Elements(scopes)) \cup {s}
<1> DEFINE q == IF Crowded(s) THEN Tail(scopes) ELSE scopes
<1>1. /\ scopes \in Seq(Scopes) /\ Len(scopes) \in Nat /\ Len(scopes) <= MaxScopes /\ Once(scopes)
      /\ MaxScopes \in Nat \ {0}
  BY Limits DEF StreamsTypeOK, Distinct
<1>2. /\ q \in Seq(Scopes) /\ Once(q)
      /\ Elements(q) = IF Crowded(s) THEN Elements(scopes) \ {Oldest} ELSE Elements(scopes)
      /\ Len(q) <= MaxScopes /\ (s \notin Elements(q) => Len(q) < MaxScopes)
  <2>1. CASE Crowded(s)
    <3>1. scopes # <<>> /\ Oldest # s /\ s \notin Elements(scopes)
      BY <2>1, OldestIs DEF Crowded
    <3>2. /\ Tail(scopes) \in Seq(Scopes) /\ Once(Tail(scopes)) /\ Len(Tail(scopes)) = Len(scopes) - 1
          /\ Elements(Tail(scopes)) = Elements(scopes) \ {Oldest}
      BY <1>1, <3>1, TailIs DEF Oldest
    <3> QED BY <1>1, <2>1, <3>1, <3>2
  <2>2. CASE ~Crowded(s)
    BY <1>1, <2>2 DEF Crowded
  <2> QED BY <2>1, <2>2
<1>3. Admitted(s) = Append(Without(q, s), s)
  BY DEF Admitted
<1> HIDE DEF q
<1>4. /\ Without(q, s) \in Seq(Scopes) /\ Once(Without(q, s)) /\ Elements(Without(q, s)) = Elements(q) \ {s}
      /\ Len(Without(q, s)) = IF s \in Elements(q) THEN Len(q) - 1 ELSE Len(q)
  <2>1. q \in Seq(Scopes) /\ Once(q)
    BY <1>2
  <2> QED BY <2>1, WithoutIs
<1>5. /\ Admitted(s) \in Seq(Scopes) /\ Len(Admitted(s)) = Len(Without(q, s)) + 1 /\ Once(Admitted(s))
      /\ Elements(Admitted(s)) = Elements(Without(q, s)) \cup {s}
  BY <1>3, <1>4, AppendIs
<1>6. Len(q) \in Nat
  BY <1>2
<1>7. Len(Admitted(s)) <= MaxScopes
  BY <1>1, <1>2, <1>4, <1>5, <1>6
<1> QED BY <1>2, <1>4, <1>5, <1>7

\* The slot of a payload: the latest of its key is in the snapshot, other keys keep theirs.
LEMMA SlotsAre ==
  ASSUME NEW events \in Seq(Event), NEW e \in Event
  PROVE  LET all == Slots(events, e) IN
         /\ all \in Seq(Event) /\ Len(all) <= Len(events) + 1 /\ Len(all) \in Nat
         /\ \E i \in DOMAIN all : all[i] = e
         /\ \A i \in DOMAIN all : all[i].key = e.key => all[i] = e
         /\ \A i \in DOMAIN all : all[i].key # e.key => \E j \in DOMAIN events : events[j] = all[i]
         /\ \A j \in DOMAIN events : events[j].key # e.key => \E i \in DOMAIN all : all[i] = events[j]
<1> DEFINE all == Slots(events, e)
<1>0. Len(events) \in Nat /\ DOMAIN events = 1 .. Len(events)
  OBVIOUS
<1>1. CASE \E i \in DOMAIN events : events[i].key = e.key
  <2>1. all = [i \in DOMAIN events |-> IF events[i].key = e.key THEN e ELSE events[i]]
    BY <1>1 DEF Slots
  <2>2. /\ DOMAIN all = DOMAIN events
        /\ \A i \in DOMAIN events : all[i] = IF events[i].key = e.key THEN e ELSE events[i]
    BY <2>1
  <2> HIDE DEF all
  <2>3. all \in [1 .. Len(events) -> Event]
    BY <1>0, <2>1, <2>2
  <2>4. all \in Seq(Event)
    BY <1>0, <2>3, SeqDef
  <2>5. Len(all) \in Nat /\ DOMAIN all = 1 .. Len(all)
    BY <2>4, LenProperties
  <2>6. Len(all) = Len(events)
    BY <1>0, <2>2, <2>5, SameLength
  <2>7. Len(all) <= Len(events) + 1
    BY <1>0, <2>6
  <2> QED BY <1>1, <2>2, <2>4, <2>5, <2>7 DEF all
<1>2. CASE ~ \E i \in DOMAIN events : events[i].key = e.key
  <2>1. all = Append(events, e)
    BY <1>2 DEF Slots
  <2>2. /\ all \in Seq(Event) /\ Len(all) = Len(events) + 1 /\ DOMAIN all = 1 .. (Len(events) + 1)
        /\ all[Len(events) + 1] = e /\ \A i \in DOMAIN events : i \in DOMAIN all /\ all[i] = events[i]
    BY <1>0, <2>1, AppendProperties, LenProperties
  <2>3. \A i \in DOMAIN all : i \in DOMAIN events \/ i = Len(events) + 1
    BY <1>0, <2>2
  <2> HIDE DEF all
  <2>4. Len(events) + 1 \in DOMAIN all /\ Len(all) \in Nat /\ Len(all) <= Len(events) + 1
    BY <1>0, <2>2
  <2> QED BY <1>2, <2>2, <2>3, <2>4 DEF all
<1> QED BY <1>1, <1>2

\* An installed snapshot keeps its limit; if it counts as complete, nothing was dropped.
LEMMA InstalledIs ==
  ASSUME StreamAssumption, NEW snap \in Snapshot, Len(snap.events) <= MaxShown, NEW e \in Event
  PROVE  /\ Installed(snap, e) \in Snapshot /\ Len(Installed(snap, e).events) <= MaxShown
         /\ Installed(snap, e).complete =>
              snap.complete /\ Installed(snap, e).events = Slots(snap.events, e)
<1> DEFINE all == Slots(snap.events, e)
<1>1. snap.events \in Seq(Event) /\ snap.complete \in BOOLEAN /\ e.cursor \in Versions /\ MaxShown \in Nat
  BY Limits DEF Snapshot, Event
<1>2. all \in Seq(Event) /\ Len(all) <= Len(snap.events) + 1 /\ Len(all) \in Nat
  BY <1>1, SlotsAre
<1>3. /\ Installed(snap, e).cursor = e.cursor
      /\ Installed(snap, e).events = IF Len(all) > MaxShown THEN Tail(all) ELSE all
      /\ Installed(snap, e).complete = (snap.complete /\ Len(all) <= MaxShown)
      /\ Installed(snap, e) = [cursor |-> Installed(snap, e).cursor, events |-> Installed(snap, e).events,
                               complete |-> Installed(snap, e).complete]
  BY DEF Installed
<1> HIDE DEF all
<1>4. /\ Installed(snap, e).events \in Seq(Event) /\ Len(Installed(snap, e).events) <= MaxShown
      /\ Len(all) <= MaxShown => Installed(snap, e).events = all
  <2>1. CASE Len(all) > MaxShown
    <3>1. all # <<>> /\ Len(snap.events) \in Nat
      BY <1>1, <2>1, EmptySeq
    <3>2. Tail(all) \in Seq(Event) /\ Len(Tail(all)) = Len(all) - 1
      BY <1>2, <3>1, HeadTailProperties
    <3>3. Installed(snap, e).events = Tail(all)
      BY <1>3, <2>1
    <3>4. Len(all) - 1 <= MaxShown /\ ~(Len(all) <= MaxShown)
      BY <1>1, <1>2, <2>1, <3>1
    <3> QED BY <3>2, <3>3, <3>4
  <2>2. CASE ~(Len(all) > MaxShown)
    BY <1>1, <1>2, <1>3, <2>2
  <2> QED BY <2>1, <2>2
<1>5. Installed(snap, e).complete \in BOOLEAN /\ (Installed(snap, e).complete => snap.complete /\ Len(all) <= MaxShown)
  BY <1>1, <1>3
<1>6. Installed(snap, e) \in Snapshot
  BY <1>1, <1>3, <1>4, <1>5 DEF Snapshot
<1> QED BY <1>4, <1>5, <1>6 DEF all

\* Admission empties the snapshot it retires, and leaves the admitted one.
LEMMA KeptShownIs ==
  ASSUME StreamAssumption, StreamsTypeOK, NEW s \in Scopes
  PROVE  /\ KeptShown(s) \in [Scopes -> Snapshot] /\ \A t \in Scopes : Len(KeptShown(s)[t].events) <= MaxShown
         /\ KeptShown(s)[s] = shown[s]
         /\ \A t \in Scopes : KeptShown(s)[t] = shown[t] \/ (Crowded(s) /\ t = Oldest)
<1>1. NoShown \in Snapshot /\ Len(NoShown.events) <= MaxShown
  <2>1. <<>> \in Seq(Event) /\ Len(<<>>) = 0
    BY EmptySeq
  <2> QED BY <2>1, Limits DEF NoShown, Snapshot
<1>2. CASE Crowded(s)
  <2>1. Oldest \in Scopes /\ Oldest # s /\ KeptShown(s) = [shown EXCEPT ![Oldest] = NoShown]
    BY <1>2, OldestIs DEF KeptShown
  <2> QED BY <1>1, <1>2, <2>1 DEF StreamsTypeOK
<1>3. CASE ~Crowded(s)
  BY <1>3 DEF KeptShown, StreamsTypeOK
<1> QED BY <1>2, <1>3

\* Emptying the slot of a key keeps a snapshot one.
LEMMA EmptiedIs ==
  ASSUME NEW events \in Seq(Event), NEW k
  PROVE  Emptied(events, k) \in Seq(Event) /\ Len(Emptied(events, k)) <= Len(events)
<1>1. CASE \E i \in DOMAIN events : events[i].key = k
  <2>1. PICK i \in DOMAIN events : Emptied(events, k) = Dropped(events, i)
    BY <1>1 DEF Emptied
  <2>2. Dropped(events, i) \in Seq(Event) /\ Len(Dropped(events, i)) = Len(events) - 1 /\ Len(events) \in Nat
    BY DroppedIs
  <2> QED BY <2>1, <2>2
<1>2. CASE ~ \E i \in DOMAIN events : events[i].key = k
  BY <1>2 DEF Emptied
<1> QED BY <1>1, <1>2
-----------------------------------------------------------------------------
\* Types.

\* Ends and publications keep the bound of a buffer.
LEMMA BuffersKept ==
  ASSUME StreamAssumption, StreamsTypeOK, NEW R, NEW e, Ending \/ Feeding(R, e)
  PROVE  sub' \in [Views -> Subscription] /\ \A v \in Views : Len(sub'[v].events) <= MaxEvents
<1>1. sub' \in [Views -> Subscription]
  BY DEF Ending, Feeding
<1>2. ASSUME NEW v \in Views PROVE Len(sub'[v].events) <= MaxEvents
  <2>1. \/ sub'[v] = sub[v]
        \/ Grown(sub[v], sub'[v], e)
        \/ Ended(sub[v], sub'[v])
    BY DEF Ending, Feeding
  <2>2. Len(sub[v].events) <= MaxEvents
    BY DEF StreamsTypeOK
  <2>3. Len(<<>>) <= MaxEvents
    BY Limits, EmptySeq
  <2> QED BY <2>1, <2>2, <2>3 DEF Grown, Ended
<1> QED BY <1>1, <1>2

\* A subscription that is not open yet.
LEMMA NoSubIs ==
  ASSUME StreamAssumption
  PROVE  /\ NoSub \in Subscription /\ NoSub.state = "none" /\ NoSub.events = <<>>
         /\ NoSub.bound = FALSE /\ NoSub.wake = FALSE /\ NoSub.set = FALSE
<1>1. 0 \in Versions /\ (CHOOSE s \in Scopes : TRUE) \in Scopes /\ <<>> \in Seq(Event)
  BY Limits, EmptySeq
<1> QED BY <1>1 DEF NoSub, Subscription

\* At first nothing is shown and nobody reads.
LEMMA TypesBegin ==
  ASSUME StreamAssumption, StreamsInit
  PROVE  StreamsTypeOK /\ Distinct
<1>1. 0 \in Versions /\ (CHOOSE s \in Scopes : TRUE) \in Scopes
  BY Limits
<1>2. \A S : <<>> \in Seq(S) /\ Len(<<>>) = 0
  BY EmptySeq
<1>3. NoSub \in Subscription /\ Len(NoSub.events) <= MaxEvents
  BY <1>2, NoSubIs, Limits
<1>4. NoShown \in Snapshot /\ Len(NoShown.events) <= MaxShown
  BY <1>1, <1>2, Limits DEF NoShown, Snapshot
<1>5. Nothing \in [Keys -> Versions] /\ NoView.at = "none" /\ NoView.shown = Nothing
      /\ NoView = [at |-> "none", shown |-> Nothing]
  BY <1>1 DEF Nothing, NoView
<1>6. NoRecord \in [cursor: Versions, incomplete: BOOLEAN]
  BY <1>1 DEF NoRecord
<1>7. view \in [Views -> [at: {"none", "opening", "read", "receiving", "waiting", "ended"},
                          shown: [Keys -> Versions]]]
  BY <1>5 DEF StreamsInit
<1>8. scopes \in Seq(Scopes) /\ Len(scopes) <= MaxScopes /\ Once(scopes)
  BY <1>2, Limits DEF StreamsInit, Once
<1>9. sub \in [Views -> Subscription] /\ \A v \in Views : Len(sub[v].events) <= MaxEvents
  BY <1>3 DEF StreamsInit
<1>10. shown \in [Scopes -> Snapshot] /\ \A s \in Scopes : Len(shown[s].events) <= MaxShown
  BY <1>4 DEF StreamsInit
<1>11. log \in [Views -> Seq(Event)] /\ got \in [Views -> Seq(Event)]
  BY <1>2 DEF StreamsInit
<1> QED BY <1>1, <1>5, <1>6, <1>7, <1>8, <1>9, <1>10, <1>11 DEF StreamsInit, StreamsTypeOK, Distinct

\* A capture keeps the types.
LEMMA TypesCapture ==
  ASSUME StreamAssumption, StreamsTypeOK, Distinct, NEW s \in Scopes, NEW k \in Keys, NEW size \in Sizes,
         Capture(s, k, size)
  PROVE  StreamsTypeOK' /\ Distinct'
<1> DEFINE e == Captured(s, k, size)
           snap == Installed(KeptShown(s)[s], e)
<1>1. e \in Event /\ cursor' \in Versions /\ Feeding(Feeds(s), e) /\ e.cursor \in Versions
  BY CaptureFeeds DEF Event
<1>2. sub' \in [Views -> Subscription] /\ \A v \in Views : Len(sub'[v].events) <= MaxEvents
  BY <1>1, BuffersKept
<1>3. snap \in Snapshot /\ Len(snap.events) <= MaxShown
  BY <1>1, KeptShownIs, InstalledIs
<1>4. shown' = [KeptShown(s) EXCEPT ![s] = snap] /\ scopes' = Admitted(s)
  BY DEF Capture, Captured
<1> HIDE DEF snap
<1>5. shown' \in [Scopes -> Snapshot] /\ \A t \in Scopes : Len(shown'[t].events) <= MaxShown
  BY <1>3, <1>4, KeptShownIs
<1>6. scopes' \in Seq(Scopes) /\ Len(scopes') <= MaxScopes /\ Once(scopes')
  BY <1>4, AdmittedIs
<1>7. RecordOf(s) \in [cursor: Versions, incomplete: BOOLEAN]
  BY Limits DEF RecordOf, StreamsTypeOK, Crowded
<1>8. \E r \in [cursor: Versions, incomplete: BOOLEAN] : records' = [records EXCEPT ![s] = r]
  <2>1. records' = [records EXCEPT ![s] = RecordOf(s)] \/ records' = [records EXCEPT ![s] = [cursor |-> cursor', incomplete |-> TRUE]]
    BY DEF Capture
  <2>2. [cursor |-> cursor', incomplete |-> TRUE] \in [cursor: Versions, incomplete: BOOLEAN]
    BY <1>1
  <2> QED BY <1>7, <2>1, <2>2
<1>9. latest' = [latest EXCEPT ![s][k] = e.cursor] /\ evicted' \in BOOLEAN
  BY DEF Capture, Captured, StreamsTypeOK, Crowded
<1>10. log' = [v \in Views |-> IF v \in Feeds(s) THEN Append(log[v], e) ELSE log[v]]
  BY DEF Capture, Captured
<1> HIDE DEF e
<1>11. log' \in [Views -> Seq(Event)]
  BY <1>1, <1>10 DEF StreamsTypeOK
<1>12. latest' \in [Scopes -> [Keys -> Versions]]
  BY <1>1, <1>9 DEF StreamsTypeOK
<1>13. records' \in [Scopes -> [cursor: Versions, incomplete: BOOLEAN]]
  BY <1>8 DEF StreamsTypeOK
<1>14. UNCHANGED <<closedDown, view, phone, got>>
  BY DEF Capture
<1>15. view' \in [Views -> [at: {"none", "opening", "read", "receiving", "waiting", "ended"},
                           shown: [Keys -> Versions]]]
  BY <1>14 DEF StreamsTypeOK
<1> QED BY <1>1, <1>2, <1>5, <1>6, <1>9, <1>11, <1>12, <1>13, <1>14, <1>15 DEF StreamsTypeOK, Distinct

\* So does a payload that is too large.
LEMMA TypesTooLarge ==
  ASSUME StreamAssumption, StreamsTypeOK, Distinct, NEW s \in Scopes, NEW k \in Keys, CaptureTooLarge(s, k)
  PROVE  StreamsTypeOK' /\ Distinct'
<1> DEFINE c == Admissions(s)
           events == Emptied(KeptShown(s)[s].events, k)
           snap == [cursor |-> c + 1, events |-> events, complete |-> FALSE]
<1>1. Ending /\ cursor' \in Versions /\ c + 2 = cursor' /\ c \in Nat
  BY TooLargeEnds, AdmissionsAre
<1>2. sub' \in [Views -> Subscription] /\ \A v \in Views : Len(sub'[v].events) <= MaxEvents
  BY <1>1, BuffersKept
<1>3. c + 1 \in Versions /\ c + 2 \in Versions
  BY <1>1, Limits
<1>4. events \in Seq(Event) /\ Len(events) <= MaxShown
  <2>1. shown[s].events \in Seq(Event) /\ Len(shown[s].events) <= MaxShown /\ KeptShown(s)[s] = shown[s]
        /\ MaxShown \in Nat
    BY KeptShownIs, Limits DEF StreamsTypeOK, Snapshot
  <2>2. events \in Seq(Event) /\ Len(events) <= Len(shown[s].events)
    BY <2>1, EmptiedIs
  <2>3. Len(events) \in Nat /\ Len(shown[s].events) \in Nat
    BY <2>1, <2>2, LenProperties
  <2> QED BY <2>1, <2>2, <2>3
<1>5. shown' = [KeptShown(s) EXCEPT ![s] = snap] /\ scopes' = Admitted(s)
      /\ records' = [records EXCEPT ![s] = [cursor |-> c + 2, incomplete |-> TRUE]]
      /\ latest' = [latest EXCEPT ![s][k] = c + 1] /\ evicted' \in BOOLEAN
      /\ UNCHANGED <<closedDown, view, phone, log, got>>
  BY DEF CaptureTooLarge, StreamsTypeOK, Crowded
<1> HIDE DEF events
<1>6. snap \in Snapshot
  BY <1>3, <1>4 DEF Snapshot
<1>7. shown' \in [Scopes -> Snapshot] /\ \A t \in Scopes : Len(shown'[t].events) <= MaxShown
  BY <1>4, <1>5, <1>6, KeptShownIs
<1> HIDE DEF snap, c
<1>8. scopes' \in Seq(Scopes) /\ Len(scopes') <= MaxScopes /\ Once(scopes')
  BY <1>5, AdmittedIs
<1>9. records' \in [Scopes -> [cursor: Versions, incomplete: BOOLEAN]]
  BY <1>3, <1>5 DEF StreamsTypeOK
<1>10. latest' \in [Scopes -> [Keys -> Versions]]
  BY <1>3, <1>5 DEF StreamsTypeOK
<1>11. view' = view /\ log' = log /\ got' = got /\ phone' = phone /\ closedDown' = closedDown
  BY <1>5
<1> QED BY <1>1, <1>2, <1>5, <1>7, <1>8, <1>9, <1>10, <1>11 DEF StreamsTypeOK, Distinct

\* And everything else.
LEMMA TypesOthers ==
  ASSUME StreamAssumption, StreamsTypeOK, Distinct,
         \/ Retire \/ StopRuntime
         \/ \E v \in Views : Viewing(v)
         \/ UNCHANGED streamVars
  PROVE  StreamsTypeOK' /\ Distinct'
<1> DEFINE At == {"none", "opening", "read", "receiving", "waiting", "ended"}
<1>0. /\ cursor \in Versions /\ sub \in [Views -> Subscription] /\ \A v \in Views : Len(sub[v].events) <= MaxEvents
      /\ view \in [Views -> [at: At, shown: [Keys -> Versions]]] /\ phone \in [Views -> [Keys -> Versions]]
      /\ records \in [Scopes -> [cursor: Versions, incomplete: BOOLEAN]]
  BY DEF StreamsTypeOK
<1>1. CASE Retire
  <2>1. Ending /\ cursor' \in Versions
    BY <1>1, OthersEnd
  <2>2. sub' \in [Views -> Subscription] /\ \A v \in Views : Len(sub'[v].events) <= MaxEvents
    BY <2>1, BuffersKept
  <2>3. NoShown \in Snapshot /\ Len(NoShown.events) <= MaxShown /\ NoRecord \in [cursor: Versions, incomplete: BOOLEAN]
        /\ <<>> \in Seq(Scopes) /\ Len(<<>>) <= MaxScopes /\ Once(<<>>)
    BY EmptySeq, Limits DEF NoShown, NoRecord, Snapshot, Once
  <2>4. shown' = [t \in Scopes |-> NoShown] /\ scopes' = <<>> /\ records' = [t \in Scopes |-> NoRecord]
        /\ evicted' = FALSE /\ closedDown' = TRUE /\ UNCHANGED <<view, phone, latest, log, got>>
    BY <1>1 DEF Retire
  <2>5. shown' \in [Scopes -> Snapshot] /\ (\A t \in Scopes : Len(shown'[t].events) <= MaxShown)
        /\ scopes' \in Seq(Scopes) /\ Len(scopes') <= MaxScopes /\ Once(scopes')
        /\ records' \in [Scopes -> [cursor: Versions, incomplete: BOOLEAN]]
    BY <2>3, <2>4
  <2> QED BY <2>1, <2>2, <2>4, <2>5 DEF StreamsTypeOK, Distinct
<1>2. CASE StopRuntime
  <2>1. Ending
    BY <1>2, OthersEnd
  <2>2. sub' \in [Views -> Subscription] /\ \A v \in Views : Len(sub'[v].events) <= MaxEvents
    BY <2>1, BuffersKept
  <2> QED BY <1>2, <2>2 DEF StopRuntime, store, StreamsTypeOK, Distinct
<1>3. ASSUME NEW v \in Views, ReadsUnfit(v) PROVE StreamsTypeOK' /\ Distinct'
  <2>1. Ending /\ cursor' \in Versions
    BY <1>3, OthersEnd
  <2>2. sub' \in [Views -> Subscription] /\ \A w \in Views : Len(sub'[w].events) <= MaxEvents
    BY <2>1, BuffersKept
  <2>3. cursor' = cursor + 1 /\ view' = [view EXCEPT ![v].at = "ended"]
        /\ records' = [records EXCEPT ![sub[v].scope] = [cursor |-> cursor + 1, incomplete |-> TRUE]]
        /\ UNCHANGED <<shown, scopes, evicted, closedDown, phone, latest, log, got>>
    BY <1>3 DEF ReadsUnfit
  <2>4. records' \in [Scopes -> [cursor: Versions, incomplete: BOOLEAN]]
    BY <1>0, <2>1, <2>3
  <2>5. view' \in [Views -> [at: At, shown: [Keys -> Versions]]]
    BY <1>0, <2>3
  <2> QED BY <2>1, <2>2, <2>3, <2>4, <2>5 DEF StreamsTypeOK, Distinct
<1>4. ASSUME NEW v \in Views, ReadsState(v) PROVE StreamsTypeOK' /\ Distinct'
  <2>1. Ending
    BY <1>4, OthersEnd
  <2>2. sub' \in [Views -> Subscription] /\ \A w \in Views : Len(sub'[w].events) <= MaxEvents
    BY <2>1, BuffersKept
  <2> DEFINE t == sub[v].scope
             f == [k \in Keys |-> IF ShownIn(t)[k] = 0 THEN 0 ELSE shown[t].events[ShownIn(t)[k]].cursor]
  <2>3. f \in [Keys -> Versions]
    <3>1. t \in Scopes /\ shown[t].events \in Seq(Event)
      BY <1>0 DEF StreamsTypeOK, Subscription, Snapshot
    <3>2. ASSUME NEW k \in Keys PROVE ShownIn(t)[k] = 0 \/ ShownIn(t)[k] \in DOMAIN shown[t].events
      BY DEF ShownIn
    <3>3. ASSUME NEW k \in Keys, NEW i \in DOMAIN shown[t].events PROVE shown[t].events[i].cursor \in Versions
      <4>1. shown[t].events[i] \in Event
        BY <3>1
      <4> QED BY <4>1 DEF Event
    <3> QED BY <3>2, <3>3, Limits
  <2>4. view' = [view EXCEPT ![v] = [at |-> "read", shown |-> f]] \/ view' = [view EXCEPT ![v].at = "ended"]
    BY <1>4 DEF ReadsState
  <2> HIDE DEF f
  <2>5. view' \in [Views -> [at: At, shown: [Keys -> Versions]]]
    <3>1. [at |-> "read", shown |-> f] \in [at: At, shown: [Keys -> Versions]]
      BY <2>3
    <3>2. CASE view' = [view EXCEPT ![v] = [at |-> "read", shown |-> f]]
      BY <1>0, <3>1, <3>2
    <3>3. CASE view' = [view EXCEPT ![v].at = "ended"]
      BY <1>0, <3>3
    <3> QED BY <2>4, <3>2, <3>3
  <2> QED BY <1>4, <2>2, <2>5 DEF ReadsState, store, StreamsTypeOK, Distinct
<1>5. ASSUME NEW v \in Views, Cancels(v) PROVE StreamsTypeOK' /\ Distinct'
  <2>1. Ending
    BY <1>5, OthersEnd
  <2>2. sub' \in [Views -> Subscription] /\ \A w \in Views : Len(sub'[w].events) <= MaxEvents
    BY <2>1, BuffersKept
  <2>3. view' \in [Views -> [at: At, shown: [Keys -> Versions]]]
    BY <1>0, <1>5 DEF Cancels
  <2> QED BY <1>5, <2>2, <2>3 DEF Cancels, store, StreamsTypeOK, Distinct
<1>6. ASSUME NEW v \in Views, NEW s \in Scopes, Opens(v, s) PROVE StreamsTypeOK' /\ Distinct'
  <2> DEFINE u == [NoSub EXCEPT !.state = "open", !.scope = s]
  <2>1. u \in Subscription /\ Len(u.events) <= MaxEvents
    <3>1. /\ NoSub \in Subscription /\ NoSub.events = <<>> /\ NoSub.set = FALSE
          /\ NoSub.bound = FALSE /\ NoSub.wake = FALSE
      BY NoSubIs
    <3>2. Len(<<>>) = 0 /\ MaxEvents \in Nat
      BY EmptySeq, Limits
    <3>3. u \in Subscription /\ u.events = NoSub.events
      BY <3>1 DEF Subscription
    <3> HIDE DEF u
    <3> QED BY <3>1, <3>2, <3>3
  <2>2. sub' = [sub EXCEPT ![v] = u] /\ view' = [view EXCEPT ![v].at = "opening"]
    BY <1>6 DEF Opens
  <2> HIDE DEF u
  <2>3. sub' \in [Views -> Subscription] /\ \A w \in Views : Len(sub'[w].events) <= MaxEvents
    BY <1>0, <2>1, <2>2
  <2>4. view' \in [Views -> [at: At, shown: [Keys -> Versions]]]
    BY <1>0, <2>2
  <2> QED BY <1>6, <2>3, <2>4 DEF Opens, store, StreamsTypeOK, Distinct
<1>7. ASSUME NEW v \in Views, SendsSnapshot(v) PROVE StreamsTypeOK' /\ Distinct'
  <2>1. view' \in [Views -> [at: At, shown: [Keys -> Versions]]] /\ phone' \in [Views -> [Keys -> Versions]]
    BY <1>0, <1>7 DEF SendsSnapshot
  <2> QED BY <1>7, <2>1 DEF SendsSnapshot, hub, store, StreamsTypeOK, Distinct
<1>8. ASSUME NEW v \in Views, Receive(v) PROVE StreamsTypeOK' /\ Distinct'
  <2> DEFINE u == [sub[v] EXCEPT !.bound = TRUE]
             left == [u EXCEPT !.events = Tail(@)]
             e == Head(u.events)
  <2>1. u \in Subscription /\ u.events = sub[v].events /\ u.state = sub[v].state /\ Len(sub[v].events) <= MaxEvents
        /\ u.events \in Seq(Event)
    <3>1. sub[v] \in Subscription /\ Len(sub[v].events) <= MaxEvents
      BY <1>0
    <3> QED BY <3>1 DEF Subscription
  <2>2. \E w \in Subscription : Len(w.events) <= MaxEvents /\ sub' = [sub EXCEPT ![v] = w]
    <3>1. CASE u.state # "open"
      BY <1>8, <2>1, <3>1 DEF Receive
    <3>2. CASE u.state = "open" /\ u.events # <<>>
      <4>1. sub' = [sub EXCEPT ![v] = IF left.events = <<>> THEN Cleared(left) ELSE left]
        BY <1>8, <3>2 DEF Receive
      <4>2. Tail(u.events) \in Seq(Event) /\ Len(Tail(u.events)) <= MaxEvents
        <5>1. /\ Tail(u.events) \in Seq(Event) /\ Len(Tail(u.events)) = Len(u.events) - 1
              /\ Len(u.events) \in Nat /\ MaxEvents \in Nat /\ Len(u.events) <= MaxEvents
          BY <2>1, <3>2, HeadTailProperties, Limits
        <5> QED BY <5>1
      <4>3. left \in Subscription /\ left.events = Tail(u.events)
        BY <2>1, <4>2 DEF Subscription
      <4> HIDE DEF left
      <4>4. Cleared(left) \in Subscription /\ Cleared(left).events = left.events
        BY <4>3 DEF Cleared, Subscription
      <4> QED BY <4>1, <4>2, <4>3, <4>4
    <3>3. CASE u.state = "open" /\ u.events = <<>>
      <4>1. sub' = [sub EXCEPT ![v] = Cleared(u)]
        BY <1>8, <3>3 DEF Receive
      <4> HIDE DEF u
      <4>2. Cleared(u) \in Subscription /\ Cleared(u).events = u.events
        BY <2>1 DEF Cleared, Subscription
      <4> QED BY <2>1, <4>1, <4>2
    <3> QED BY <3>1, <3>2, <3>3
  <2>3. sub' \in [Views -> Subscription] /\ \A w \in Views : Len(sub'[w].events) <= MaxEvents
    BY <1>0, <2>2
  <2>4. view' = view \/ view' = [view EXCEPT ![v].at = "ended"] \/ view' = [view EXCEPT ![v].at = "waiting"]
    BY <1>8 DEF Receive
  <2>5. view' \in [Views -> [at: At, shown: [Keys -> Versions]]]
    <3>1. CASE view' = view
      BY <1>0, <3>1
    <3>2. CASE view' = [view EXCEPT ![v].at = "ended"]
      BY <1>0, <3>2
    <3>3. CASE view' = [view EXCEPT ![v].at = "waiting"]
      BY <1>0, <3>3
    <3> QED BY <2>4, <3>1, <3>2, <3>3
  <2>6. \/ phone' = phone /\ got' = got
        \/ /\ e \in Event
           /\ phone' = [phone EXCEPT ![v][e.key] = IF @ > e.cursor THEN @ ELSE e.cursor]
           /\ got' = [got EXCEPT ![v] = Append(@, e)]
    <3>1. u.events # <<>> => e \in Event
      BY <2>1, HeadTailProperties
    <3> QED BY <1>8, <3>1 DEF Receive
  <2> HIDE DEF e
  <2>7. phone' \in [Views -> [Keys -> Versions]] /\ got' \in [Views -> Seq(Event)]
    <3>1. CASE phone' = phone /\ got' = got
      BY <3>1 DEF StreamsTypeOK
    <3>2. CASE /\ e \in Event
               /\ phone' = [phone EXCEPT ![v][e.key] = IF @ > e.cursor THEN @ ELSE e.cursor]
               /\ got' = [got EXCEPT ![v] = Append(@, e)]
      <4>1. e.cursor \in Versions /\ e.key \in Keys /\ phone[v][e.key] \in Versions /\ got[v] \in Seq(Event)
        <5>1. e.cursor \in Versions /\ e.key \in Keys
          BY <3>2 DEF Event
        <5> QED BY <1>0, <5>1 DEF StreamsTypeOK
      <4>2. (IF phone[v][e.key] > e.cursor THEN phone[v][e.key] ELSE e.cursor) \in Versions /\ Append(got[v], e) \in Seq(Event)
        BY <3>2, <4>1, AppendProperties
      <4> QED BY <1>0, <3>2, <4>1, <4>2 DEF StreamsTypeOK
    <3> QED BY <2>6, <3>1, <3>2
  <2> QED BY <1>8, <2>3, <2>5, <2>7 DEF Receive, store, StreamsTypeOK, Distinct
<1>9. ASSUME NEW v \in Views, Wakes(v) PROVE StreamsTypeOK' /\ Distinct'
  <2>1. view' \in [Views -> [at: At, shown: [Keys -> Versions]]]
    BY <1>0, <1>9 DEF Wakes
  <2> QED BY <1>9, <2>1 DEF Wakes, hub, store, StreamsTypeOK, Distinct
<1>10. ASSUME NEW v \in Views, DeliverWake(v) PROVE StreamsTypeOK' /\ Distinct'
  <2> DEFINE w == [sub[v] EXCEPT !.wake = FALSE, !.set = @ \/ Notable(sub[v])]
  <2>1. w \in Subscription /\ w.events = sub[v].events
    <3>1. sub[v] \in Subscription /\ Notable(sub[v]) \in BOOLEAN
      BY <1>0 DEF Notable
    <3> QED BY <3>1 DEF Subscription
  <2>2. sub' = [sub EXCEPT ![v] = w]
    BY <1>0, <1>10 DEF DeliverWake
  <2> HIDE DEF w
  <2>3. sub' \in [Views -> Subscription] /\ \A x \in Views : Len(sub'[x].events) <= MaxEvents
    BY <1>0, <2>1, <2>2
  <2> QED BY <1>10, <2>3 DEF DeliverWake, store, StreamsTypeOK, Distinct
<1>11. CASE UNCHANGED streamVars
  BY <1>11 DEF streamVars, StreamsTypeOK, Distinct
<1> QED BY <1>1, <1>2, <1>3, <1>4, <1>5, <1>6, <1>7, <1>8, <1>9, <1>10, <1>11 DEF Viewing

\* Every step keeps the types.
LEMMA TypesKept ==
  ASSUME StreamAssumption, StreamsTypeOK, Distinct, [StreamsNext]_streamVars
  PROVE  StreamsTypeOK' /\ Distinct'
BY TypesCapture, TypesTooLarge, TypesOthers DEF StreamsNext, Publishing
-----------------------------------------------------------------------------
\* What holds of a view, whatever publishes, ends or reads.

View(v) == Converges(v) /\ Fresh(v) /\ InOrder(v) /\ Awake(v)

\* A step that ends some subscriptions, and perhaps some views, and captures nothing for
\* those that stay open.
LEMMA EndingKeepsViews ==
  ASSUME StreamsTypeOK, StreamsTypeOK', \A v \in Views : View(v),
         Ending, log' = log, got' = got, phone' = phone,
         \A v \in Views : view'[v] = view[v] \/ (view[v].at # "none" /\ view'[v].at = "ended"),
         \A v \in Views : sub'[v].state = "open" => latest'[sub[v].scope] = latest[sub[v].scope]
  PROVE  \A v \in Views : View(v)'
<1> SUFFICES ASSUME NEW v \in Views PROVE View(v)'
  OBVIOUS
<1>0. View(v)
  OBVIOUS
<1>1. view'[v] = view[v] \/ (view[v].at # "none" /\ view'[v].at = "ended")
  OBVIOUS
<1>2. CASE sub'[v] = sub[v]
  <2>1. Fresh(v)'
    BY <1>0, <1>1, <1>2 DEF View, Fresh
  <2>2. InOrder(v)'
    BY <1>0, <1>2 DEF View, InOrder
  <2>3. Awake(v)'
    BY <1>0, <1>1, <1>2 DEF View, Awake, Notable
  <2>5. Converges(v)'
    <3>1. CASE sub'[v].state = "open" /\ view'[v] = view[v]
      <4>1. latest'[sub'[v].scope] = latest[sub[v].scope]
        BY <1>2, <3>1
      <4> QED BY <1>0, <1>2, <3>1, <4>1 DEF View, Converges, Buffered, WillShow, Seen
    <3>2. CASE ~(sub'[v].state = "open" /\ view'[v] = view[v])
      BY <1>1, <3>2 DEF Converges
    <3> QED BY <3>1, <3>2
  <2> QED BY <2>1, <2>2, <2>3, <2>5 DEF View
<1>3. CASE Ended(sub[v], sub'[v])
  <2>1. Fresh(v)'
    BY <1>0, <1>1, <1>3 DEF View, Fresh, Ended
  <2>2. InOrder(v)'
    BY <1>3 DEF InOrder, Ended
  <2>3. Awake(v)'
    BY <1>0, <1>1, <1>3, StreamsTypeOK DEF View, Awake, Notable, Ended, Awakes, StreamsTypeOK, Subscription
  <2>4. Converges(v)'
    BY <1>3 DEF Converges, Ended
  <2> QED BY <2>1, <2>2, <2>3, <2>4 DEF View
<1> QED BY <1>2, <1>3 DEF Ending

\* What is appended to the end of two sequences is appended to the second.
LEMMA AppendConcat ==
  \A p, q \in Seq(Event), x \in Event : Append(p \o q, x) = p \o Append(q, x)
<1> SUFFICES ASSUME NEW p \in Seq(Event), NEW q \in Seq(Event), NEW x \in Event
             PROVE  Append(p \o q, x) = p \o Append(q, x)
  OBVIOUS
<1>1. p \o q \in Seq(Event) /\ <<x>> \in Seq(Event)
  BY ConcatProperties
<1>2. Append(p \o q, x) = (p \o q) \o <<x>> /\ Append(q, x) = q \o <<x>>
  BY <1>1, AppendIsConcat
<1>3. (p \o q) \o <<x>> = p \o (q \o <<x>>)
  BY <1>1, ConcatAssociative
<1> QED BY <1>2, <1>3

\* A captured payload.
LEMMA CaptureKeepsViews ==
  ASSUME StreamAssumption, StreamsTypeOK, StreamsTypeOK', \A v \in Views : View(v),
         NEW s \in Scopes, NEW k \in Keys, NEW size \in Sizes, Capture(s, k, size)
  PROVE  \A v \in Views : View(v)'
<1> DEFINE e == Captured(s, k, size)
<1>1. e \in Event /\ Feeding(Feeds(s), e)
  BY CaptureFeeds
<1>2. /\ log' = [v \in Views |-> IF v \in Feeds(s) THEN Append(log[v], e) ELSE log[v]]
      /\ latest' = [latest EXCEPT ![s][k] = e.cursor]
      /\ view' = view /\ phone' = phone /\ got' = got
  BY DEF Capture, Captured
<1>3. e.key = k
  BY DEF Captured
<1> HIDE DEF e
<1>4. /\ latest'[s] \in [Keys -> Versions] /\ latest'[s][k] = e.cursor
      /\ \A q \in Keys : q # k => latest'[s][q] = latest[s][q]
      /\ \A t \in Scopes : t # s => latest'[t] = latest[t]
  BY <1>2 DEF StreamsTypeOK
<1> SUFFICES ASSUME NEW v \in Views PROVE View(v)'
  OBVIOUS
<1>0. View(v) /\ sub[v] \in Subscription /\ sub[v].scope \in Scopes
  BY DEF StreamsTypeOK, Subscription
<1>5. CASE v \notin Feeds(s) /\ sub'[v] = sub[v]
  <2>1. log'[v] = log[v]
    BY <1>2, <1>5
  <2>2. (Fresh(v) /\ InOrder(v) /\ Awake(v))'
    BY <1>0, <1>2, <1>5, <2>1 DEF View, Fresh, InOrder, Awake, Notable
  <2>3. sub[v].state = "open" => latest'[sub[v].scope] = latest[sub[v].scope]
    BY <1>0, <1>4, <1>5 DEF Feeds
  <2>4. Converges(v)'
    BY <1>0, <1>2, <1>5, <2>3 DEF View, Converges, Buffered, WillShow, Seen
  <2> QED BY <2>2, <2>4 DEF View
<1>6. CASE Ended(sub[v], sub'[v])
  <2>1. Fresh(v)' /\ InOrder(v)' /\ Converges(v)'
    BY <1>0, <1>2, <1>6 DEF View, Fresh, InOrder, Converges, Ended
  <2>2. Awake(v)'
    BY <1>0, <1>2, <1>6 DEF View, Awake, Notable, Ended, Awakes, Subscription
  <2> QED BY <2>1, <2>2 DEF View
<1>7. CASE v \in Feeds(s) /\ Grown(sub[v], sub'[v], e)
  <2>1. /\ sub[v].state = "open" /\ sub'[v].state = "open" /\ sub[v].scope = s /\ sub'[v].scope = s
        /\ sub'[v].events = Append(sub[v].events, e) /\ log'[v] = Append(log[v], e)
        /\ sub[v].events \in Seq(Event) /\ got[v] \in Seq(Event) /\ got'[v] = got[v]
    BY <1>0, <1>2, <1>7 DEF Feeds, Grown, Awakes, Subscription, StreamsTypeOK
  <2>2. Fresh(v)'
    BY <1>0, <1>2, <2>1 DEF View, Fresh
  <2>3. InOrder(v)'
    <3>1. log[v] = got[v] \o sub[v].events
      BY <1>0, <2>1 DEF View, InOrder
    <3>2. Append(got[v] \o sub[v].events, e) = got[v] \o Append(sub[v].events, e)
      <4>1. got[v] \in Seq(Event) /\ sub[v].events \in Seq(Event) /\ e \in Event
        BY <1>1, <2>1
      <4> DEFINE p == got[v] q == sub[v].events
      <4>2. p \in Seq(Event) /\ q \in Seq(Event)
        BY <4>1
      <4> HIDE DEF p, q
      <4>3. Append(p \o q, e) = p \o Append(q, e)
        BY <4>1, <4>2, AppendConcat, Zenon
      <4> QED BY <4>3 DEF p, q
    <3> QED BY <2>1, <3>1, <3>2 DEF InOrder
  <2>4. Awake(v)'
    BY <1>0, <1>2, <1>7 DEF View, Awake, Notable, Grown, Awakes, Subscription
  <2> DEFINE n == Len(sub[v].events) + 1
  <2>5. /\ n \in DOMAIN sub'[v].events /\ sub'[v].events[n] = e
        /\ \A i \in DOMAIN sub[v].events : i \in DOMAIN sub'[v].events /\ sub'[v].events[i] = sub[v].events[i]
        /\ \A i \in DOMAIN sub'[v].events : i \in DOMAIN sub[v].events \/ i = n
    BY <1>1, <2>1
  <2> HIDE DEF n
  <2>6. n \in Buffered(v, k)' /\ e.cursor >= latest'[s][k]
    BY <1>1, <1>3, <1>4, <2>5, Limits DEF Buffered, Event
  <2>7. \A q \in Keys : q # k => (Buffered(v, q)' = Buffered(v, q) /\ latest'[s][q] = latest[s][q])
    BY <1>3, <1>4, <2>5 DEF Buffered
  <2>9. Converges(v)'
    <3> SUFFICES ASSUME view[v].at \in {"read", "receiving", "waiting"}, NEW q \in Keys
                 PROVE  WillShow(v, q, latest[s][q])'
      BY <1>2, <2>1 DEF Converges
    <3>1. CASE q = k
      BY <2>5, <2>6, <3>1 DEF WillShow
    <3>2. CASE q # k
      <4>1. WillShow(v, q, latest[s][q])
        BY <1>0, <2>1 DEF View, Converges
      <4>2. Seen(v, q)' = Seen(v, q)
        BY <1>2 DEF Seen
      <4>3. \A i \in Buffered(v, q) : sub'[v].events[i] = sub[v].events[i]
        BY <2>5 DEF Buffered
      <4> QED BY <2>7, <3>2, <4>1, <4>2, <4>3 DEF WillShow
    <3> QED BY <3>1, <3>2
  <2> QED BY <2>2, <2>3, <2>4, <2>9 DEF View
<1> QED BY <1>1, <1>5, <1>6, <1>7 DEF Feeding

\* A view that a step leaves alone.
LEMMA OtherViewKept ==
  ASSUME NEW v \in Views, View(v), sub'[v] = sub[v], view'[v] = view[v], phone'[v] = phone[v],
         log'[v] = log[v], got'[v] = got[v], latest' = latest
  PROVE  View(v)'
<1>1. \A k \in Keys : Seen(v, k)' = Seen(v, k) /\ Buffered(v, k)' = Buffered(v, k)
  BY DEF Seen, Buffered
<1>2. Converges(v)'
  BY <1>1 DEF View, Converges, WillShow
<1>3. Fresh(v)' /\ InOrder(v)'
  BY DEF View, Fresh, InOrder
<1>4. Awake(v)'
  BY DEF View, Awake, Notable
<1> QED BY <1>2, <1>3, <1>4 DEF View

\* The snapshot that a view reads shows the last payload of every key.
LEMMA ReadsStateKeepsViews ==
  ASSUME StreamAssumption, StreamsTypeOK, StreamsTypeOK', SnapshotsOK, \A v \in Views : View(v),
         NEW v \in Views, ReadsState(v)
  PROVE  \A w \in Views : View(w)'
<1> DEFINE s == sub[v].scope
           f == [k \in Keys |-> IF ShownIn(s)[k] = 0 THEN 0 ELSE shown[s].events[ShownIn(s)[k]].cursor]
<1>0. /\ View(v) /\ s \in Scopes /\ latest[s] \in [Keys -> Versions] /\ shown[s].events \in Seq(Event)
      /\ view[v].at = "opening" /\ view \in [Views -> [at: {"none", "opening", "read", "receiving", "waiting", "ended"},
                        shown: [Keys -> Versions]]]
  BY DEF StreamsTypeOK, Subscription, Snapshot, ReadsState
<1>1. phone' = phone /\ log' = log /\ got' = got /\ latest' = latest
  BY DEF ReadsState
<1>2. CASE Complete(s) /\ sub[v].state # "closed"
  <2>1. sub' = sub /\ view' = [view EXCEPT ![v] = [at |-> "read", shown |-> f]]
    BY <1>2 DEF ReadsState
  <2>2. ASSUME NEW k \in Keys PROVE f[k] = latest[s][k]
    <3>1. /\ \A i \in DOMAIN shown[s].events :
               shown[s].events[i].key = k => shown[s].events[i].cursor = latest[s][k]
          /\ (\A i \in DOMAIN shown[s].events : shown[s].events[i].key # k) => latest[s][k] = 0
      BY <1>0, <1>2 DEF SnapshotsOK, Faithful
    <3>2. CASE \E i \in DOMAIN shown[s].events : shown[s].events[i].key = k
      <4>1. ShownIn(s)[k] \in DOMAIN shown[s].events /\ shown[s].events[ShownIn(s)[k]].key = k
        BY <3>2 DEF ShownIn
      <4>2. ShownIn(s)[k] # 0
        BY <1>0, <4>1
      <4> QED BY <3>1, <4>1, <4>2
    <3>3. CASE ~(\E i \in DOMAIN shown[s].events : shown[s].events[i].key = k)
      BY <3>1, <3>3 DEF ShownIn
    <3> QED BY <3>2, <3>3
  <2> HIDE DEF f
  <2>3. view'[v].at = "read" /\ view'[v].shown = f
    BY <1>0, <2>1
  <2>4. Converges(v)'
    <3>1. \A k \in Keys : f[k] >= latest[s][k]
      BY <1>0, <2>2, Limits
    <3> QED BY <1>1, <2>1, <2>3, <3>1 DEF Converges, WillShow, Seen
  <2>5. (Fresh(v) /\ InOrder(v) /\ Awake(v))'
    BY <1>0, <1>1, <2>1, <2>3 DEF View, Fresh, InOrder, Awake
  <2>6. ASSUME NEW w \in Views, w # v PROVE View(w)'
    BY <1>1, <2>1, <2>6, OtherViewKept
  <2> QED BY <2>4, <2>5, <2>6 DEF View
<1>3. CASE ~(Complete(s) /\ sub[v].state # "closed")
  <2>1. Ending
    BY OthersEnd
  <2>2. view' = [view EXCEPT ![v].at = "ended"]
    BY <1>3 DEF ReadsState
  <2>3. \A w \in Views : view'[w] = view[w] \/ (view[w].at # "none" /\ view'[w].at = "ended")
    BY <1>0, <2>2
  <2> QED BY <1>1, <2>1, <2>3, EndingKeepsViews
<1> QED BY <1>2, <1>3

\* A new subscription has got nothing and buffers nothing.
LEMMA OpensKeepsViews ==
  ASSUME StreamAssumption, StreamsTypeOK, StreamsTypeOK', \A v \in Views : View(v),
         NEW v \in Views, NEW s \in Scopes, Opens(v, s)
  PROVE  \A w \in Views : View(w)'
<1> DEFINE u == [NoSub EXCEPT !.state = "open", !.scope = s]
<1>0. View(v) /\ view[v].at = "none" /\ log[v] = <<>> /\ got[v] = <<>>
  BY DEF Opens, View, Fresh, InOrder
<1>1. sub' = [sub EXCEPT ![v] = u] /\ view' = [view EXCEPT ![v].at = "opening"]
      /\ phone' = phone /\ log' = log /\ got' = got /\ latest' = latest
  BY DEF Opens
<1>2. u.state = "open" /\ u.events = <<>>
  BY NoSubIs DEF NoSub
<1> HIDE DEF u
<1>3. sub'[v] = u /\ view'[v].at = "opening"
  BY <1>1 DEF StreamsTypeOK
<1>4. <<>> \o <<>> = <<>>
  BY EmptySeq, ConcatEmptySeq
<1>5. View(v)'
  BY <1>0, <1>1, <1>2, <1>3, <1>4 DEF View, Converges, Fresh, InOrder, Awake
<1>6. ASSUME NEW w \in Views, w # v PROVE View(w)'
  BY <1>1, <1>6, OtherViewKept DEF StreamsTypeOK
<1> QED BY <1>5, <1>6

\* The phone shows the snapshot; a notification wakes the receiver; the wake-up arrives.
LEMMA WakingKeepsViews ==
  ASSUME StreamAssumption, StreamsTypeOK, StreamsTypeOK', \A v \in Views : View(v),
         NEW v \in Views, SendsSnapshot(v) \/ Wakes(v) \/ DeliverWake(v)
  PROVE  \A w \in Views : View(w)'
<1>0. /\ View(v) /\ sub[v] \in Subscription /\ view[v].at \in {"none", "opening", "read", "receiving", "waiting", "ended"}
      /\ sub \in [Views -> Subscription] /\ phone \in [Views -> [Keys -> Versions]]
      /\ view \in [Views -> [at: {"none", "opening", "read", "receiving", "waiting", "ended"}, shown: [Keys -> Versions]]]
  BY DEF StreamsTypeOK
<1>1. ASSUME NEW w \in Views, w # v PROVE View(w)'
  BY <1>0, <1>1, OtherViewKept DEF SendsSnapshot, Wakes, DeliverWake, hub
<1>2. CASE SendsSnapshot(v)
  <2>1. /\ view[v].at = "read" /\ view'[v].at = "receiving" /\ phone'[v] = view[v].shown
        /\ sub' = sub /\ latest' = latest /\ log' = log /\ got' = got
    BY <1>0, <1>2 DEF SendsSnapshot, hub
  <2>2. Converges(v)'
    BY <1>0, <2>1 DEF View, Converges, WillShow, Seen, Buffered
  <2>3. (Fresh(v) /\ InOrder(v) /\ Awake(v))'
    BY <1>0, <2>1 DEF View, Fresh, InOrder, Awake
  <2> QED BY <1>1, <2>2, <2>3 DEF View
<1>3. CASE Wakes(v)
  <2>1. /\ view[v].at = "waiting" /\ view'[v].at = "receiving" /\ phone' = phone
        /\ sub' = sub /\ latest' = latest /\ log' = log /\ got' = got
    BY <1>0, <1>3 DEF Wakes, hub
  <2>2. Converges(v)'
    BY <1>0, <2>1 DEF View, Converges, WillShow, Seen, Buffered
  <2>3. (Fresh(v) /\ InOrder(v) /\ Awake(v))'
    BY <1>0, <2>1 DEF View, Fresh, InOrder, Awake
  <2> QED BY <1>1, <2>2, <2>3 DEF View
<1>4. CASE DeliverWake(v)
  <2> DEFINE x == [sub[v] EXCEPT !.wake = FALSE, !.set = @ \/ Notable(sub[v])]
  <2>1. /\ view' = view /\ phone' = phone /\ latest' = latest /\ log' = log /\ got' = got
        /\ sub' = [sub EXCEPT ![v] = x]
    BY <1>0, <1>4 DEF DeliverWake
  <2>2. /\ x.events = sub[v].events /\ x.state = sub[v].state /\ x.scope = sub[v].scope
        /\ x.bound = sub[v].bound /\ (Notable(sub[v]) => x.set)
    BY <1>0 DEF Subscription
  <2> HIDE DEF x
  <2>3. sub'[v] = x
    BY <1>0, <2>1
  <2>4. Converges(v)'
    BY <1>0, <2>1, <2>2, <2>3 DEF View, Converges, WillShow, Seen, Buffered
  <2>5. (Fresh(v) /\ InOrder(v) /\ Awake(v))'
    BY <1>0, <2>1, <2>2, <2>3 DEF View, Fresh, InOrder, Awake, Notable
  <2> QED BY <1>1, <2>4, <2>5 DEF View
<1> QED BY <1>2, <1>3, <1>4

\* The first of a sequence's elements moves to the end of the one before it.
LEMMA HeadMoves ==
  \A p, q \in Seq(Event) : q # <<>> => p \o q = Append(p, Head(q)) \o Tail(q)
<1> SUFFICES ASSUME NEW p \in Seq(Event), NEW q \in Seq(Event), q # <<>>
             PROVE  p \o q = Append(p, Head(q)) \o Tail(q)
  OBVIOUS
<1>1. Head(q) \in Event /\ Tail(q) \in Seq(Event)
  BY HeadTailProperties
<1> DEFINE h == Head(q) r == Tail(q)
<1>2. h \in Event /\ r \in Seq(Event) /\ <<h>> \in Seq(Event)
  BY <1>1
<1>3. q = <<h>> \o r
  <2>1. /\ <<h>> \o r \in Seq(Event) /\ Len(<<h>> \o r) = 1 + Len(r)
        /\ \A i \in 1 .. 1 + Len(r) : (<<h>> \o r)[i] = IF i <= 1 THEN <<h>>[i] ELSE r[i - 1]
    BY <1>2, ConcatProperties
  <2>2. Len(r) = Len(q) - 1 /\ \A i \in 1 .. Len(r) : r[i] = q[i + 1]
    BY HeadTailProperties
  <2>3. h = q[1] /\ Len(q) \in Nat
    OBVIOUS
  <2> HIDE DEF h, r
  <2>4. \A i \in 1 .. Len(q) : q[i] = (<<h>> \o r)[i]
    BY <2>1, <2>2, <2>3
  <2> DEFINE c == <<h>> \o r
  <2>5. c \in Seq(Event) /\ Len(c) = Len(q) /\ \A i \in 1 .. Len(q) : q[i] = c[i]
    BY <2>1, <2>2, <2>3, <2>4
  <2> HIDE DEF c
  <2>6. q = c
    BY <2>5, SeqEqual
  <2> QED BY <2>6 DEF c
<1> HIDE DEF h, r
<1>4. (p \o <<h>>) \o r = p \o (<<h>> \o r)
  BY <1>2, ConcatAssociative
<1>5. Append(p, h) = p \o <<h>>
  BY <1>2, AppendIsConcat
<1>6. p \o q = Append(p, h) \o r
  BY <1>3, <1>4, <1>5
<1> QED BY <1>6 DEF h, r

\* Receiving an event, the end, or nothing yet.
LEMMA ReceiveKeepsViews ==
  ASSUME StreamAssumption, StreamsTypeOK, StreamsTypeOK', \A v \in Views : View(v),
         NEW v \in Views, Receive(v)
  PROVE  \A w \in Views : View(w)'
<1> DEFINE u == [sub[v] EXCEPT !.bound = TRUE]
           e == Head(u.events)
           left == [u EXCEPT !.events = Tail(@)]
<1>0. /\ View(v) /\ view[v].at = "receiving" /\ sub[v] \in Subscription /\ sub[v].events \in Seq(Event)
      /\ sub \in [Views -> Subscription] /\ phone \in [Views -> [Keys -> Versions]] /\ got \in [Views -> Seq(Event)]
      /\ view \in [Views -> [at: {"none", "opening", "read", "receiving", "waiting", "ended"}, shown: [Keys -> Versions]]]
      /\ log' = log /\ latest' = latest
  BY DEF StreamsTypeOK, Receive, Subscription
<1>1. /\ u \in Subscription /\ u.events = sub[v].events /\ u.state = sub[v].state /\ u.scope = sub[v].scope
      /\ u.bound = TRUE
  BY <1>0 DEF Subscription
<1>2. \/ /\ u.state # "open" /\ view' = [view EXCEPT ![v].at = "ended"] /\ sub' = [sub EXCEPT ![v] = u]
         /\ phone' = phone /\ got' = got
      \/ /\ u.state = "open" /\ u.events # <<>> /\ view' = view
         /\ sub' = [sub EXCEPT ![v] = IF left.events = <<>> THEN Cleared(left) ELSE left]
         /\ phone' = [phone EXCEPT ![v][e.key] = IF @ > e.cursor THEN @ ELSE e.cursor]
         /\ got' = [got EXCEPT ![v] = Append(@, e)]
      \/ /\ u.state = "open" /\ u.events = <<>> /\ sub' = [sub EXCEPT ![v] = Cleared(u)]
         /\ view' = [view EXCEPT ![v].at = "waiting"]
         /\ phone' = phone /\ got' = got
  BY DEF Receive
<1> HIDE DEF u, e, left
<1>3. ASSUME NEW w \in Views, w # v PROVE View(w)'
  <2>1. sub'[w] = sub[w] /\ view'[w] = view[w] /\ phone'[w] = phone[w] /\ got'[w] = got[w]
    BY <1>0, <1>2, <1>3
  <2> QED BY <1>0, <2>1, OtherViewKept
<1>4. CASE /\ u.state # "open" /\ view' = [view EXCEPT ![v].at = "ended"] /\ sub' = [sub EXCEPT ![v] = u]
           /\ phone' = phone /\ got' = got
  <2>1. sub'[v] = u /\ view'[v].at = "ended"
    BY <1>0, <1>4
  <2>2. View(v)'
    BY <1>0, <1>1, <1>4, <2>1 DEF View, Converges, Fresh, InOrder, Awake
  <2> QED BY <1>3, <2>2
<1>5. CASE /\ u.state = "open" /\ u.events = <<>> /\ sub' = [sub EXCEPT ![v] = Cleared(u)]
           /\ view' = [view EXCEPT ![v].at = "waiting"] /\ phone' = phone /\ got' = got
  <2>1. sub'[v] = Cleared(u) /\ view'[v].at = "waiting"
    BY <1>0, <1>5
  <2>2. /\ Cleared(u).events = u.events /\ Cleared(u).state = u.state /\ Cleared(u).scope = u.scope
        /\ Cleared(u).bound = TRUE
    BY <1>1 DEF Cleared, Subscription
  <2>3. Converges(v)'
    BY <1>0, <1>1, <1>5, <2>1, <2>2 DEF View, Converges, WillShow, Seen, Buffered
  <2>4. (Fresh(v) /\ InOrder(v) /\ Awake(v))'
    BY <1>0, <1>1, <1>5, <2>1, <2>2 DEF View, Fresh, InOrder, Awake, Notable
  <2> QED BY <1>3, <2>3, <2>4 DEF View
<1>6. CASE /\ u.state = "open" /\ u.events # <<>> /\ view' = view
           /\ sub' = [sub EXCEPT ![v] = IF left.events = <<>> THEN Cleared(left) ELSE left]
           /\ phone' = [phone EXCEPT ![v][e.key] = IF @ > e.cursor THEN @ ELSE e.cursor]
           /\ got' = [got EXCEPT ![v] = Append(@, e)]
  <2> DEFINE q == sub[v].events s == sub[v].scope
  <2>1. /\ q \in Seq(Event) /\ q # <<>> /\ e = Head(q) /\ e \in Event /\ Tail(q) \in Seq(Event)
        /\ s \in Scopes
    BY <1>0, <1>1, <1>6, HeadTailProperties DEF e, Subscription
  <2>2. /\ left \in Subscription /\ left.events = Tail(q) /\ left.state = "open" /\ left.scope = s
    BY <1>1, <1>6, <2>1 DEF left, Subscription
  <2>3. /\ Cleared(left).events = left.events /\ Cleared(left).state = left.state
        /\ Cleared(left).scope = left.scope
    BY <2>2 DEF Cleared, Subscription
  <2>4. sub'[v].events = Tail(q) /\ sub'[v].state = "open" /\ sub'[v].scope = s /\ view'[v] = view[v]
    BY <1>0, <1>6, <2>2, <2>3
  <2>5. e.key \in Keys /\ e.cursor \in Versions
    BY <2>1 DEF Event
  <2>6. /\ phone[v] \in [Keys -> Versions] /\ phone'[v][e.key] >= e.cursor
        /\ \A k \in Keys : phone'[v][k] >= phone[v][k]
    <3>1. phone'[v] = [phone[v] EXCEPT ![e.key] = IF @ > e.cursor THEN @ ELSE e.cursor]
      BY <1>0, <1>6
    <3>2. phone[v] \in [Keys -> Versions] /\ \A k \in Keys : phone[v][k] \in Nat
      BY <1>0, Limits
    <3> QED BY <2>5, <3>1, <3>2, Limits
  <2>7. got'[v] = Append(got[v], e)
    BY <1>0, <1>6
  <2>8. InOrder(v)'
    <3>1. log[v] = got[v] \o q /\ got[v] \in Seq(Event)
      BY <1>0, <1>1, <1>6 DEF View, InOrder
    <3> HIDE DEF q
    <3>2. got[v] \o q = Append(got[v], Head(q)) \o Tail(q)
      BY <2>1, <3>1, HeadMoves, Zenon
    <3> QED BY <1>0, <2>1, <2>4, <2>7, <3>1, <3>2 DEF InOrder
  <2>9. Converges(v)'
    <3> SUFFICES ASSUME NEW k \in Keys PROVE WillShow(v, k, latest[s][k])'
      BY <1>0, <2>4 DEF Converges
    <3>1. WillShow(v, k, latest[s][k]) /\ Seen(v, k) = phone[v][k] /\ Seen(v, k)' = phone'[v][k]
      BY <1>0, <1>1, <1>6, <2>4 DEF View, Converges, Seen
    <3>2. latest[s][k] \in Nat /\ phone[v][k] \in Nat /\ phone'[v][k] \in Nat /\ e.cursor \in Nat
      <4>1. latest \in [Scopes -> [Keys -> Versions]] /\ phone' \in [Views -> [Keys -> Versions]]
        BY DEF StreamsTypeOK
      <4>2. \A n \in Versions : n \in Nat
        BY Limits
      <4> HIDE DEF s, q
      <4> QED BY <1>0, <2>1, <2>5, <4>1, <4>2
    <3>3. CASE phone[v][k] >= latest[s][k]
      <4>1. phone'[v][k] >= latest[s][k]
        BY <2>6, <3>2, <3>3
      <4> QED BY <1>0, <2>4, <3>1, <4>1 DEF WillShow
    <3>4. CASE \E i \in Buffered(v, k) : q[i].cursor >= latest[s][k]
      <4>1. PICK i \in DOMAIN q : q[i].key = k /\ q[i].cursor >= latest[s][k]
        BY <3>4 DEF Buffered
      <4>2. CASE i = 1
        <5>1. q[i] = e
          BY <2>1, <4>2
        <5>2. phone'[v][k] >= latest[s][k]
          BY <2>6, <3>2, <4>1, <5>1
        <5> QED BY <1>0, <2>4, <3>1, <5>2 DEF WillShow
      <4>3. CASE i # 1
        <5>1. i - 1 \in DOMAIN Tail(q) /\ Tail(q)[i - 1] = q[i]
          BY <2>1, <4>1, <4>3, HeadTailProperties
        <5> QED BY <1>0, <2>4, <4>1, <5>1 DEF WillShow, Buffered
      <4> QED BY <4>2, <4>3
    <3> QED BY <3>1, <3>3, <3>4 DEF WillShow
  <2>10. (Fresh(v) /\ Awake(v))'
    BY <1>0, <1>1, <1>6, <2>4 DEF View, Fresh, Awake
  <2> QED BY <1>3, <2>8, <2>9, <2>10 DEF View
<1> QED BY <1>2, <1>4, <1>5, <1>6
-----------------------------------------------------------------------------
\* What a complete snapshot shows.

\* A capture of one scope leaves the completeness and the content of every other scope
\* as they were, unless the other was evicted: then it does not count as complete.
LEMMA OtherScopes ==
  ASSUME StreamAssumption, StreamsTypeOK, Distinct, SnapshotsOK, NEW s \in Scopes, NEW snap, NEW record, NEW payloads,
         shown' = [KeptShown(s) EXCEPT ![s] = snap], scopes' = Admitted(s),
         records' = [records EXCEPT ![s] = record], evicted' = (evicted \/ Crowded(s)),
         latest' = [latest EXCEPT ![s] = payloads], closedDown' = closedDown
  PROVE  \A t \in Scopes : t # s /\ Complete(t)' => Faithful(t)'
<1> SUFFICES ASSUME NEW t \in Scopes, t # s, Complete(t)' PROVE Faithful(t)'
  OBVIOUS
<1>1. records'[t] = records[t] /\ latest'[t] = latest[t] /\ shown'[t] = KeptShown(s)[t]
  BY KeptShownIs DEF StreamsTypeOK
<1>2. t \in Elements(scopes') <=> (t \in Elements(scopes) /\ ~(Crowded(s) /\ t = Oldest))
  BY AdmittedIs
<1>3. shown'[t] = shown[t] \/ (Crowded(s) /\ t = Oldest)
  BY <1>1, KeptShownIs
<1>4. t \in Elements(scopes') => ~records'[t].incomplete
  BY DEF Complete
<1>5. t \notin Elements(scopes') => ~evicted'
  BY DEF Complete
<1>6. ~closedDown' /\ shown'[t].complete
  BY DEF Complete
<1>7. ~(Crowded(s) /\ t = Oldest)
  BY <1>2, <1>5
<1>8. Complete(t)
  BY <1>1, <1>2, <1>3, <1>4, <1>5, <1>6, <1>7 DEF Complete
<1>9. Faithful(t)
  BY <1>8 DEF SnapshotsOK
<1> QED BY <1>1, <1>3, <1>7, <1>9 DEF Faithful

\* A captured payload takes its place in a snapshot that was complete before.
LEMMA CaptureKeepsSnapshots ==
  ASSUME StreamAssumption, StreamsTypeOK, Distinct, SnapshotsOK,
         NEW s \in Scopes, NEW k \in Keys, NEW size \in Sizes, Capture(s, k, size)
  PROVE  SnapshotsOK'
<1> DEFINE e == Captured(s, k, size)
           snap == Installed(KeptShown(s)[s], e)
           whole == snap.complete /\ ~RecordOf(s).incomplete /\ Fits(snap)
           marked == [cursor |-> cursor', incomplete |-> TRUE]
           record == IF whole THEN RecordOf(s) ELSE marked
           payloads == [latest[s] EXCEPT ![k] = e.cursor]
<1>1. e \in Event /\ e.key = k /\ e.cursor \in Versions
  BY CaptureFeeds DEF Captured, Event
<1>2. /\ shown' = [KeptShown(s) EXCEPT ![s] = snap] /\ scopes' = Admitted(s)
      /\ evicted' = (evicted \/ Crowded(s)) /\ closedDown' = closedDown
      /\ latest' = [latest EXCEPT ![s] = payloads]
  BY DEF Capture, Captured, StreamsTypeOK
<1>3. records' = [records EXCEPT ![s] = record]
  BY DEF Capture, Captured
<1>4. /\ snap \in Snapshot /\ (snap.complete => shown[s].complete /\ snap.events = Slots(shown[s].events, e))
      /\ shown[s].events \in Seq(Event)
  BY <1>1, KeptShownIs, InstalledIs DEF StreamsTypeOK, Snapshot
<1>5. s \in Elements(scopes')
  BY <1>2, AdmittedIs
<1>6. shown'[s] = snap /\ records'[s] = record /\ latest'[s] = payloads
  BY <1>2, <1>3, KeptShownIs DEF StreamsTypeOK
<1>7. payloads[k] = e.cursor /\ \A q \in Keys : q # k => payloads[q] = latest[s][q]
  BY DEF StreamsTypeOK
<1>8. record.incomplete <=> (~whole \/ RecordOf(s).incomplete)
  OBVIOUS
<1>9. whole => snap.complete /\ ~RecordOf(s).incomplete
  OBVIOUS
<1> HIDE DEF snap, whole, record, payloads, e
<1>10. \A t \in Scopes : t # s /\ Complete(t)' => Faithful(t)'
  BY <1>2, <1>3, OtherScopes
<1>11. ASSUME Complete(s)' PROVE Faithful(s)'
  <2>1. ~closedDown' /\ snap.complete /\ ~record.incomplete
    BY <1>5, <1>6, <1>11 DEF Complete
  <2>2. Complete(s)
    <3>1. ~closedDown /\ shown[s].complete /\ ~RecordOf(s).incomplete
      BY <1>2, <1>4, <1>8, <2>1
    <3> QED BY <3>1 DEF Complete, RecordOf
  <2>3. Faithful(s)
    BY <2>2 DEF SnapshotsOK
  <2> DEFINE all == Slots(shown[s].events, e)
  <2>4. /\ \E i \in DOMAIN all : all[i] = e
        /\ \A i \in DOMAIN all : all[i].key = e.key => all[i] = e
        /\ \A i \in DOMAIN all : all[i].key # e.key => \E j \in DOMAIN shown[s].events : shown[s].events[j] = all[i]
        /\ \A j \in DOMAIN shown[s].events : shown[s].events[j].key # e.key => \E i \in DOMAIN all : all[i] = shown[s].events[j]
    <3> DEFINE old == shown[s].events
    <3>1. old \in Seq(Event) /\ e \in Event
      BY <1>1, <1>4
    <3> HIDE DEF old
    <3> QED BY <3>1, SlotsAre DEF old
  <2> HIDE DEF all
  <2>5. shown'[s].events = all
    BY <1>4, <1>6, <2>1 DEF all
  <2>6. ASSUME NEW q \in Keys
        PROVE  /\ \A i \in DOMAIN all : all[i].key = q => all[i].cursor = payloads[q]
               /\ (\A i \in DOMAIN all : all[i].key # q) => payloads[q] = 0
    <3>1. CASE q = k
      BY <1>1, <1>7, <2>4, <3>1
    <3>2. CASE q # k
      BY <1>1, <1>7, <2>3, <2>4, <3>2 DEF Faithful
    <3> QED BY <3>1, <3>2
  <2> QED BY <1>6, <2>5, <2>6 DEF Faithful
<1> QED BY <1>10, <1>11 DEF SnapshotsOK

\* One that is too large makes its snapshot incomplete.
LEMMA TooLargeKeepsSnapshots ==
  ASSUME StreamAssumption, StreamsTypeOK, Distinct, SnapshotsOK,
         NEW s \in Scopes, NEW k \in Keys, CaptureTooLarge(s, k)
  PROVE  SnapshotsOK'
<1> DEFINE c == Admissions(s)
           events == Emptied(KeptShown(s)[s].events, k)
           snap == [cursor |-> c + 1, events |-> events, complete |-> FALSE]
           record == [cursor |-> c + 2, incomplete |-> TRUE]
           payloads == [latest[s] EXCEPT ![k] = c + 1]
<1>1. /\ shown' = [KeptShown(s) EXCEPT ![s] = snap] /\ scopes' = Admitted(s)
      /\ evicted' = (evicted \/ Crowded(s)) /\ closedDown' = closedDown
      /\ latest' = [latest EXCEPT ![s] = payloads] /\ records' = [records EXCEPT ![s] = record]
  BY DEF CaptureTooLarge, StreamsTypeOK
<1>2. snap.complete = FALSE
  OBVIOUS
<1> HIDE DEF snap, record, payloads
<1>3. ~Complete(s)'
  <2>1. shown'[s] = snap
    BY <1>1, KeptShownIs
  <2> QED BY <1>2, <2>1 DEF Complete
<1>4. \A t \in Scopes : t # s /\ Complete(t)' => Faithful(t)'
  BY <1>1, OtherScopes
<1> QED BY <1>3, <1>4 DEF SnapshotsOK

\* Every other step leaves the snapshots alone, marks one, or retires them all.
LEMMA SnapshotsKept ==
  ASSUME StreamAssumption, StreamsTypeOK, Distinct, SnapshotsOK, [StreamsNext]_streamVars
  PROVE  SnapshotsOK'
<1>1. CASE UNCHANGED <<shown, scopes, records, evicted, closedDown, latest>>
  BY <1>1 DEF SnapshotsOK, Complete, Faithful
<1>2. ASSUME Retire PROVE SnapshotsOK'
  BY <1>2 DEF Retire, SnapshotsOK, Complete
<1>3. ASSUME NEW v \in Views, ReadsUnfit(v) PROVE SnapshotsOK'
  <2> DEFINE s == sub[v].scope
  <2>1. /\ UNCHANGED <<shown, scopes, evicted, closedDown, latest>>
        /\ records' = [records EXCEPT ![s] = [cursor |-> cursor + 1, incomplete |-> TRUE]]
        /\ s \in Scopes
    BY <1>3 DEF ReadsUnfit, StreamsTypeOK, Subscription
  <2>2. \A t \in Scopes : IF t = s THEN records'[t].incomplete ELSE records'[t] = records[t]
    BY <2>1 DEF StreamsTypeOK
  <2> HIDE DEF s
  <2>3. ASSUME NEW t \in Scopes, Complete(t)' PROVE Faithful(t)'
    <3>1. Complete(t)
      BY <2>1, <2>2, <2>3 DEF Complete
    <3>2. Faithful(t)
      BY <3>1 DEF SnapshotsOK
    <3> QED BY <2>1, <3>2 DEF Faithful
  <2> QED BY <2>3 DEF SnapshotsOK
<1>4. ASSUME NEW v \in Views, Viewing(v), ~ReadsUnfit(v)
      PROVE  UNCHANGED <<shown, scopes, records, evicted, closedDown, latest>>
  BY <1>4 DEF Viewing, Opens, ReadsState, SendsSnapshot, Receive, Wakes, Cancels, DeliverWake, store
<1>5. StopRuntime \/ UNCHANGED streamVars => UNCHANGED <<shown, scopes, records, evicted, closedDown, latest>>
  BY DEF StopRuntime, store, streamVars
<1> QED BY <1>1, <1>2, <1>3, <1>4, <1>5, CaptureKeepsSnapshots, TooLargeKeepsSnapshots DEF StreamsNext, Publishing
-----------------------------------------------------------------------------
\* The inductive invariant.

\* No step disturbs what holds of a view.
LEMMA ViewsKept ==
  ASSUME StreamAssumption, Streams, StreamsTypeOK', [StreamsNext]_streamVars
  PROVE  \A v \in Views : View(v)'
<1>0. StreamsTypeOK /\ SnapshotsOK /\ \A v \in Views : View(v)
  BY DEF Streams, View
<1>1. ASSUME NEW s \in Scopes, NEW k \in Keys, CaptureTooLarge(s, k) PROVE \A v \in Views : View(v)'
  <2>1. Ending /\ \A v \in Views : sub'[v].state = "open" => sub[v].scope # s
    BY <1>0, <1>1, TooLargeEnds
  <2>2. UNCHANGED <<view, phone, log, got>> /\ \A t \in Scopes : t # s => latest'[t] = latest[t]
    BY <1>0, <1>1 DEF CaptureTooLarge, StreamsTypeOK
  <2>3. \A v \in Views : sub[v].scope \in Scopes
    BY <1>0 DEF StreamsTypeOK, Subscription
  <2> QED BY <1>0, <2>1, <2>2, <2>3, EndingKeepsViews
<1>2. ASSUME Retire \/ StopRuntime PROVE \A v \in Views : View(v)'
  <2>1. Ending
    BY <1>0, <1>2, OthersEnd
  <2>2. UNCHANGED <<view, phone, latest, log, got>>
    BY <1>2 DEF Retire, StopRuntime
  <2> QED BY <1>0, <2>1, <2>2, EndingKeepsViews
<1>3. ASSUME NEW v \in Views, ReadsUnfit(v) \/ Cancels(v) PROVE \A w \in Views : View(w)'
  <2>1. Ending
    BY <1>0, <1>3, OthersEnd
  <2>2. /\ UNCHANGED <<phone, latest, log, got>> /\ view' = [view EXCEPT ![v].at = "ended"]
        /\ view[v].at # "none"
    BY <1>3 DEF ReadsUnfit, Cancels
  <2>3. \A w \in Views : view'[w] = view[w] \/ (view[w].at # "none" /\ view'[w].at = "ended")
    BY <1>0, <2>2 DEF StreamsTypeOK
  <2> QED BY <1>0, <2>1, <2>2, <2>3, EndingKeepsViews
<1>4. ASSUME UNCHANGED streamVars PROVE \A v \in Views : View(v)'
  BY <1>0, <1>4, OtherViewKept DEF streamVars
<1>5. ASSUME NEW v \in Views, Viewing(v) PROVE \A w \in Views : View(w)'
  BY <1>0, <1>3, <1>5, OpensKeepsViews, ReadsStateKeepsViews, WakingKeepsViews, ReceiveKeepsViews DEF Viewing
<1> QED BY <1>0, <1>1, <1>2, <1>4, <1>5, CaptureKeepsViews DEF StreamsNext, Publishing

\* At first nobody views and nothing was captured.
LEMMA StreamsBegin ==
  ASSUME StreamAssumption, StreamsInit
  PROVE  Streams
<1>1. StreamsTypeOK /\ Distinct
  BY TypesBegin
<1>2. SnapshotsOK
  <2>1. DOMAIN <<>> = {}
    BY EmptySeq
  <2> QED BY <2>1 DEF StreamsInit, SnapshotsOK, Faithful, NoShown, Nothing
<1>3. ASSUME NEW v \in Views PROVE Converges(v) /\ Fresh(v) /\ InOrder(v) /\ Awake(v)
  <2>1. /\ sub[v].state = "none" /\ view[v].at = "none" /\ log[v] = <<>> /\ got[v] = <<>>
    BY NoSubIs DEF StreamsInit, NoView
  <2> QED BY <2>1 DEF Converges, Fresh, InOrder, Awake
<1> QED BY <1>1, <1>2, <1>3 DEF Streams

LEMMA StreamsGoOn == ASSUME StreamAssumption, Streams, [StreamsNext]_streamVars PROVE Streams'
<1>1. StreamsTypeOK /\ Distinct /\ SnapshotsOK
  BY DEF Streams
<1>2. StreamsTypeOK' /\ Distinct'
  BY <1>1, TypesKept
<1>3. SnapshotsOK'
  BY <1>1, SnapshotsKept
<1>4. \A v \in Views : View(v)'
  BY <1>2, ViewsKept
<1> QED BY <1>2, <1>3, <1>4 DEF Streams, View

\* The invariant of the session streams.
THEOREM StreamInvariant ==
  ASSUME StreamAssumption
  PROVE  StreamsSpec => []Streams
BY StreamsBegin, StreamsGoOn, PTL DEF StreamsSpec
-----------------------------------------------------------------------------
\* What it says of the phones.

\* The state of the hub, the store, the adapter and the views has its types: no feed
\* buffers, no snapshot shows and no table knows more than its limit.
THEOREM StreamTyping ==
  ASSUME StreamAssumption
  PROVE  StreamsSpec => []StreamsTypeOK
<1>1. Streams => StreamsTypeOK
  BY DEF Streams
<1> QED BY <1>1, StreamInvariant, PTL

\* A receiver that waits although there is something to receive, or its feed is over, is
\* about to be woken, whatever wake-ups publishers save.
THEOREM NobodySleeps ==
  ASSUME StreamAssumption
  PROVE  StreamsSpec => []NoLostWakeUp
<1>1. Streams => NoLostWakeUp
  BY DEF Streams, NoLostWakeUp, Awake, Notable
<1> QED BY <1>1, StreamInvariant, PTL

\* A phone whose feed is open shows the latest payload of every key once it has read
\* what is buffered, also when its snapshot was bounded or its scope evicted.
THEOREM ViewsCatchUp ==
  ASSUME StreamAssumption
  PROVE  StreamsSpec => []ViewsConverge
<1>1. Streams => ViewsConverge
  BY DEF Streams, ViewsConverge, Converges
<1> QED BY <1>1, StreamInvariant, PTL
-----------------------------------------------------------------------------
\* A subscription is an ordered feed.

\* The event read next continues what was read.
LEMMA NextOf ==
  \A p, q \in Seq(Event) : q # <<>> =>
    /\ Len(p) + 1 \in Len(p) .. Len(p \o q)
    /\ SubSeq(p \o q, 1, Len(p) + 1) = Append(p, Head(q))
<1> SUFFICES ASSUME NEW p \in Seq(Event), NEW q \in Seq(Event), q # <<>>
             PROVE  /\ Len(p) + 1 \in Len(p) .. Len(p \o q)
                    /\ SubSeq(p \o q, 1, Len(p) + 1) = Append(p, Head(q))
  OBVIOUS
<1> DEFINE all == p \o q
           h == Head(q)
           n == Len(p) + 1
           a == SubSeq(all, 1, n)
           b == Append(p, h)
<1>1. /\ all \in Seq(Event) /\ Len(all) = Len(p) + Len(q)
      /\ \A i \in 1 .. Len(p) + Len(q) : all[i] = IF i <= Len(p) THEN p[i] ELSE q[i - Len(p)]
  BY ConcatProperties
<1>2. Len(p) \in Nat /\ Len(q) \in Nat \ {0} /\ h = q[1] /\ h \in Event
  BY HeadTailProperties, EmptySeq
<1> HIDE DEF all, h
<1>3. n \in Len(p) .. Len(all) /\ 1 \in 1 .. Len(all) /\ n \in 1 .. Len(all) /\ n \in Nat
  BY <1>1, <1>2
<1>4. a \in Seq(Event) /\ Len(a) = n /\ \A i \in 1 .. n : a[i] = all[i]
  BY <1>1, <1>3
<1>5. /\ b \in Seq(Event) /\ Len(b) = n /\ \A i \in 1 .. Len(p) : b[i] = p[i]
      /\ b[n] = h
  BY <1>2, AppendProperties
<1>6. \A i \in 1 .. n : a[i] = b[i]
  BY <1>1, <1>2, <1>3, <1>4, <1>5
<1> HIDE DEF a, b, n
<1>7. a = b
  BY <1>4, <1>5, <1>6, SeqEqual
<1> QED BY <1>3, <1>7 DEF all, h, n, a, b

\* The feeds that are over.
Over(subs) == {v \in Views : subs[v].state \in {"closed", "reset"}}

\* A step that ends subscriptions ends their feeds; one that publishes, publishes for
\* the feeds of its scope.
LEMMA FeedsEnd ==
  ASSUME Streams, StreamsTypeOK'
  PROVE  /\ Ending /\ log' = log /\ got' = got => Feed!End(Over(sub)')
         /\ \A s \in Scopes, e \in Event :
              /\ Feeding(Feeds(s), e) /\ got' = got
              /\ log' = [v \in Views |-> IF v \in Feeds(s) THEN Append(log[v], e) ELSE log[v]]
              => Feed!Publish(e, Feeds(s), Over(sub)')
<1>1. ASSUME Ending PROVE FeedState' = [v \in Views |-> IF v \in Over(sub)' /\ FeedState[v] = "open" THEN "ended" ELSE FeedState[v]]
  <2>1. \A v \in Views : sub'[v] = sub[v] \/ (sub[v].state = "open" /\ sub'[v].state \in {"closed", "reset"})
    BY <1>1 DEF Ending, Ended
  <2> QED BY <2>1 DEF FeedState, Over
<1>2. ASSUME NEW s \in Scopes, NEW e \in Event, Feeding(Feeds(s), e)
      PROVE  FeedState' = [v \in Views |-> IF v \in Over(sub)' /\ FeedState[v] = "open" THEN "ended" ELSE FeedState[v]]
  <2>1. \A v \in Views : \/ sub'[v] = sub[v]
                         \/ sub[v].state = "open" /\ sub'[v].state = "open"
                         \/ sub[v].state = "open" /\ sub'[v].state \in {"closed", "reset"}
    BY <1>2 DEF Feeding, Ended, Grown
  <2> QED BY <2>1 DEF FeedState, Over
<1>3. \A s \in Scopes : \A v \in Feeds(s) : FeedState[v] = "open"
  BY DEF Feeds, FeedState
<1> QED BY <1>1, <1>2, <1>3 DEF Feed!End, Feed!Publish

\* Every step of the streams is a step of the feeds, or none.
LEMMA FeedStep ==
  ASSUME StreamAssumption, Streams, StreamsTypeOK', [StreamsNext]_streamVars
  PROVE  [Feed!Next]_(Feed!vars)
<1>0. StreamsTypeOK /\ \A v \in Views : View(v)
  BY DEF Streams, View
<1> SUFFICES ASSUME Feed!vars' # Feed!vars PROVE Feed!Next
  OBVIOUS
<1>1. ASSUME NEW R \in SUBSET Views, Feed!End(R) PROVE Feed!Next
  BY <1>1 DEF Feed!Next
<1>2. Over(sub)' \in SUBSET Views
  BY DEF Over
<1>3. ASSUME NEW s \in Scopes, NEW k \in Keys, NEW size \in Sizes, Capture(s, k, size) PROVE Feed!Next
  <2> DEFINE e == Captured(s, k, size)
  <2>1. e \in Event /\ Feeding(Feeds(s), e)
    BY <1>0, <1>3, CaptureFeeds
  <2>2. got' = got /\ log' = [v \in Views |-> IF v \in Feeds(s) THEN Append(log[v], e) ELSE log[v]]
    BY <1>3 DEF Capture, Captured
  <2> HIDE DEF e
  <2>3. Feed!Publish(e, Feeds(s), Over(sub)')
    BY <2>1, <2>2, FeedsEnd
  <2>4. Feeds(s) \in SUBSET Views
    BY DEF Feeds
  <2> QED BY <1>2, <2>1, <2>3, <2>4 DEF Feed!Next
<1>4. ASSUME NEW s \in Scopes, NEW k \in Keys, CaptureTooLarge(s, k) PROVE Feed!Next
  <2>1. Ending /\ log' = log /\ got' = got
    BY <1>0, <1>4, TooLargeEnds DEF CaptureTooLarge
  <2> QED BY <1>1, <1>2, <2>1, FeedsEnd
<1>5. ASSUME Retire \/ StopRuntime \/ \E v \in Views : ReadsState(v) \/ ReadsUnfit(v) \/ Cancels(v)
      PROVE  Feed!Next
  <2>1. Ending
    BY <1>0, <1>5, OthersEnd
  <2>2. log' = log /\ got' = got
    BY <1>5 DEF Retire, StopRuntime, ReadsState, ReadsUnfit, Cancels
  <2> QED BY <1>1, <1>2, <2>1, <2>2, FeedsEnd
<1>6. ASSUME NEW v \in Views, NEW s \in Scopes, Opens(v, s) PROVE Feed!Next
  <2> DEFINE u == [NoSub EXCEPT !.state = "open", !.scope = s]
  <2>1. sub' = [sub EXCEPT ![v] = u] /\ log' = log /\ got' = got
    BY <1>6 DEF Opens
  <2>2. u.state = "open"
    BY NoSubIs DEF NoSub
  <2>3. sub[v].state = "none"
    BY <1>0, <1>6 DEF Opens, View, Fresh
  <2> HIDE DEF u
  <2>4. \A w \in Views : sub'[w] = IF w = v THEN u ELSE sub[w]
    BY <1>0, <2>1 DEF StreamsTypeOK
  <2>5. FeedState[v] = "none" /\ FeedState' = [FeedState EXCEPT ![v] = "open"]
    BY <2>2, <2>3, <2>4 DEF FeedState
  <2>6. Feed!Open(v)
    BY <2>1, <2>5 DEF Feed!Open
  <2> QED BY <2>6 DEF Feed!Next
<1>7. ASSUME NEW v \in Views, SendsSnapshot(v) \/ Wakes(v) \/ DeliverWake(v) PROVE FALSE
  <2>1. log' = log /\ got' = got
    BY <1>7 DEF SendsSnapshot, Wakes, DeliverWake
  <2>2. \A w \in Views : sub'[w].state = sub[w].state
    <3>1. CASE SendsSnapshot(v) \/ Wakes(v)
      BY <3>1 DEF SendsSnapshot, Wakes, hub
    <3>2. CASE DeliverWake(v)
      <4>1. sub \in [Views -> Subscription] /\ sub[v] \in Subscription
        BY <1>0 DEF StreamsTypeOK
      <4> DEFINE x == [sub[v] EXCEPT !.wake = FALSE, !.set = @ \/ Notable(sub[v])]
      <4>2. x.state = sub[v].state
        BY <4>1 DEF Subscription
      <4>3. sub' = [sub EXCEPT ![v] = x]
        BY <3>2, <4>1 DEF DeliverWake
      <4> HIDE DEF x
      <4> QED BY <4>1, <4>2, <4>3
    <3> QED BY <1>7, <3>1, <3>2
  <2>3. FeedState' = FeedState
    BY <2>2 DEF FeedState
  <2> QED BY <2>1, <2>3 DEF Feed!vars
<1>8. ASSUME NEW v \in Views, Receive(v) PROVE Feed!Next
  <2> DEFINE u == [sub[v] EXCEPT !.bound = TRUE]
             left == [u EXCEPT !.events = Tail(@)]
             q == sub[v].events
             p == got[v]
  <2>1. sub[v] \in Subscription /\ sub \in [Views -> Subscription] /\ q \in Seq(Event) /\ p \in Seq(Event)
    BY <1>0 DEF StreamsTypeOK, Subscription
  <2>2. u \in Subscription /\ u.state = sub[v].state /\ u.events = q
    BY <2>1 DEF Subscription
  <2>3. \E x : sub' = [sub EXCEPT ![v] = x] /\ x.state = sub[v].state
    <3>1. Cleared(u).state = u.state
      BY <2>2 DEF Cleared, Subscription
    <3>2. left.state = u.state /\ Cleared(left).state = u.state
      BY <2>2 DEF Cleared, Subscription
    <3>3. \/ sub' = [sub EXCEPT ![v] = u] \/ sub' = [sub EXCEPT ![v] = Cleared(u)]
          \/ sub' = [sub EXCEPT ![v] = Cleared(left)] \/ sub' = [sub EXCEPT ![v] = left]
      BY <1>8 DEF Receive
    <3> HIDE DEF u, left
    <3> QED BY <2>2, <3>1, <3>2, <3>3
  <2>4. FeedState' = FeedState
    <3>1. \A w \in Views : sub'[w].state = sub[w].state
      BY <2>1, <2>3
    <3> QED BY <3>1 DEF FeedState
  <2>5. log' = log
    BY <1>8 DEF Receive
  <2>6. got' # got
    BY <2>4, <2>5 DEF Feed!vars
  <2>7. u.state = "open" /\ u.events # <<>> /\ got' = [got EXCEPT ![v] = Append(@, Head(u.events))]
    BY <1>8, <2>6 DEF Receive
  <2> HIDE DEF u, left
  <2>8. sub[v].state = "open" /\ q # <<>> /\ got' = [got EXCEPT ![v] = Append(p, Head(q))]
    BY <2>2, <2>7
  <2>9. log[v] = p \o q /\ FeedState[v] = "open"
    BY <1>0, <2>8 DEF View, InOrder, FeedState
  <2> HIDE DEF q
  <2>10. Len(p) + 1 \in Len(p) .. Len(p \o q) /\ SubSeq(p \o q, 1, Len(p) + 1) = Append(p, Head(q))
    BY <2>1, <2>8, NextOf, Zenon
  <2>11. Feed!Read(v)
    BY <2>4, <2>5, <2>8, <2>9, <2>10 DEF Feed!Read
  <2> QED BY <2>11 DEF Feed!Next
<1>9. Feed!vars' = Feed!vars \/ ~(UNCHANGED streamVars)
  BY DEF streamVars, Feed!vars, FeedState
<1> QED BY <1>3, <1>4, <1>5, <1>6, <1>7, <1>8, <1>9 DEF StreamsNext, Publishing, Viewing

LEMMA FeedsBegin == ASSUME StreamAssumption, StreamsInit PROVE Feed!Init
<1>1. \A v \in Views : sub[v].state = "none"
  BY NoSubIs DEF StreamsInit
<1> QED BY <1>1 DEF StreamsInit, Feed!Init, FeedState

\* A subscription gives its reader what was published for it since it opened, in that
\* order and without a gap, until it ends; and it ends rather than lose an event: the
\* hub's bounded buffers, resets and wake-ups implement OrderedFeed.
THEOREM StreamsAreFeeds ==
  ASSUME StreamAssumption
  PROVE  StreamsSpec => ImplementsFeed
<1>1. StreamsInit => Feed!Init
  BY FeedsBegin
<1>2. Streams /\ Streams' /\ [StreamsNext]_streamVars => [Feed!Next]_(Feed!vars)
  <2>1. Streams' => StreamsTypeOK'
    BY DEF Streams
  <2> QED BY <2>1, FeedStep
<1> QED BY <1>1, <1>2, StreamInvariant, PTL DEF StreamsSpec, ImplementsFeed, Feed!Spec
-----------------------------------------------------------------------------
(* EventDelivery.                                                            *)

Preferences == [provider: {"direct", "managed"}, on: BOOLEAN, revoked: BOOLEAN]
Delivery == [at: {"idle", "next", "sending", "polling"}, event: Events \cup {NoEvent},
             known: SUBSET Devices, seen: [Devices -> Preferences], todo: SUBSET Devices,
             good: Nat, bad: Nat, quiet: Nat]
EventRow == [status: {"none", "queued", "sent", "failed"}, dismissed: BOOLEAN]
RowState == {"none", "queued", "sent", "failed", "suppressed"}
ApprovalRow == [status: {"none", "pending", "responded", "expired"},
                choice: Choices \cup {""}, answer: Choices \cup {""},
                expires: 0..(MaxTime + Timeout + 1), deadline: 0..(MaxTime + Timeout)]

DeliveryTypes ==
  /\ device \in [Devices -> Preferences] /\ event \in [Events -> EventRow]
  /\ row \in [Events -> [Devices -> RowState]]
  /\ queue \in Seq(Events) /\ Len(queue) <= QueueSize
  /\ thread \in [Threads -> Delivery] /\ approval \in [Approvals -> ApprovalRow]
  /\ now \in 0..MaxTime
  /\ rounds \in [Events -> [Devices -> Nat]]
  /\ accepted \in [Approvals -> Choices \cup {""}]

\* The queue holds no approvals; those are delivered by their own threads.
NoApprovalQueued == \A i \in DOMAIN queue : queue[i] \notin Approvals

\* A thread delivers an event that no other thread delivers; the devices it has yet to come
\* to have no row, but for the one it is sending to.
Untouched(t) == thread[t].todo \ thread[t].known
Delivers(t) ==
  /\ thread[t].at # "idle" =>
       IF t = Worker THEN thread[t].event \in Events \ Approvals ELSE thread[t].event = t
  /\ thread[t].at = "next" => \A d \in Untouched(t) : row[thread[t].event][d] = "none"
  /\ thread[t].at = "sending" => \E d \in Untouched(t) :
       /\ row[thread[t].event][d] = "queued"
       /\ \A c \in Untouched(t) \ {d} : row[thread[t].event][c] = "none"

\* A send was begun at most once, and none without a row.
SentOnce(e, d) == rounds[e][d] <= (IF row[e][d] = "none" THEN 0 ELSE 1)

\* An approval is answered once, when its thread is done; the answer is the accepted choice,
\* or a denial that no choice in time could have prevented.
Chosen(a) ==
  /\ thread[a].at # "idle" => approval[a].status # "none" /\ approval[a].answer = ""
  /\ approval[a].status = "none" => approval[a].answer = ""
  /\ accepted[a] = IF approval[a].status = "responded" THEN approval[a].choice ELSE ""
  /\ approval[a].answer # "" =>
       \/ approval[a].answer = accepted[a]
       \/ /\ approval[a].answer = "deny"
          /\ \/ approval[a].status = "expired" \/ now >= approval[a].deadline
             \/ event[a].status # "sent"

DeliveryInv ==
  /\ DeliveryTypes /\ NoApprovalQueued
  /\ \A t \in Threads : Delivers(t)
  /\ \A e \in Events, d \in Devices : SentOnce(e, d)
  /\ \A a \in Approvals : Chosen(a)

LEMMA DeliveryFacts ==
  ASSUME DeliveryAssumption
  PROVE  /\ Approvals \subseteq Events /\ Approvals \subseteq Threads /\ Worker \in Threads
         /\ Worker \notin Approvals /\ NoEvent \notin Events /\ "deny" \in Choices
         /\ MaxTime \in Nat /\ Timeout \in Nat \ {0} /\ QueueSize \in Nat \ {0}
BY DEF DeliveryAssumption, Threads

LEMMA IdleThread ==
  ASSUME DeliveryAssumption
  PROVE  Idle \in Delivery /\ Idle.at = "idle"
<1>1. NoDevices \in [Devices -> Preferences]
  BY DEF NoDevices, Preferences
<1> HIDE DEF NoDevices
<1> QED BY <1>1 DEF Idle, Delivery

\* What a step leaves of an approval and of a thread it does not take.
LEMMA ChosenKept ==
  ASSUME DeliveryAssumption, DeliveryInv, NEW a \in Approvals, approval'[a] = approval[a],
         accepted'[a] = accepted[a], event'[a].status = event[a].status,
         thread'[a].at # "idle" => thread[a].at # "idle", now' \in Nat, now' >= now
  PROVE  Chosen(a)'
<1>1. Chosen(a) /\ now \in 0..MaxTime /\ approval[a] \in ApprovalRow
  BY DEF DeliveryInv, DeliveryTypes
<1>2. approval[a].deadline \in Nat /\ now \in Nat
  <2>1. approval[a].deadline \in 0 .. (MaxTime + Timeout)
    BY <1>1 DEF ApprovalRow
  <2> QED BY <2>1, <1>1, DeliveryFacts
<1>3. now >= approval[a].deadline => now' >= approval[a].deadline
  BY <1>2
<1> QED BY <1>1, <1>3 DEF Chosen

LEMMA DeliversKept ==
  ASSUME NEW t \in Threads, Delivers(t), thread'[t] = thread[t],
         thread[t].at # "idle" => row'[thread[t].event] = row[thread[t].event]
  PROVE  Delivers(t)'
BY DEF Delivers, Untouched

\* Two threads deliver two events.
LEMMA Apart ==
  ASSUME DeliveryAssumption, DeliveryInv, NEW t \in Threads, NEW u \in Threads, t # u,
         thread[t].at # "idle", thread[u].at # "idle"
  PROVE  thread[t].event # thread[u].event /\ thread[t].event \in Events
BY DeliveryFacts DEF DeliveryInv, Delivers, Threads

\* What does not deliver: enqueue, dismissals, preferences and time.
LEMMA AsideKeeps ==
  ASSUME DeliveryAssumption, DeliveryInv,
         \/ \E e \in Events : Enqueue(e) \/ Dismiss(e)
         \/ \E d \in Devices : ChangeDevice(d)
         \/ Tick
  PROVE  DeliveryInv'
<1>t. DeliveryTypes /\ NoApprovalQueued
  BY DEF DeliveryInv
<1>0. UNCHANGED <<row, thread, approval, rounds, accepted>>
  BY DEF Enqueue, Dismiss, ChangeDevice, Tick
<1>1. /\ queue' \in Seq(Events) /\ Len(queue') <= QueueSize /\ NoApprovalQueued'
      /\ event' \in [Events -> EventRow]
      /\ \A a \in Approvals : event'[a].status = event[a].status
  <2>1. ASSUME NEW e \in Events, Enqueue(e)
        PROVE  /\ queue' \in Seq(Events) /\ Len(queue') <= QueueSize /\ NoApprovalQueued'
               /\ event' \in [Events -> EventRow]
               /\ \A a \in Approvals : event'[a].status = event[a].status
    <3>1. e \notin Approvals
      BY <2>1 DEF Enqueue
    <3>2. Recorded(e) \in [Events -> EventRow] /\ \A a \in Approvals : Recorded(e)[a] = event[a]
      BY <3>1, <1>t, DeliveryFacts DEF Recorded, DeliveryTypes, EventRow
    <3>3. Marked(Recorded(e), e, "failed") \in [Events -> EventRow]
          /\ \A a \in Approvals : Marked(Recorded(e), e, "failed")[a] = event[a]
      BY <3>1, <3>2, DeliveryFacts DEF Marked, EventRow
    <3>4. event' \in {Recorded(e), Marked(Recorded(e), e, "failed")}
      BY <2>1 DEF Enqueue
    <3>5. queue' = queue \/ (queue' = Append(queue, e) /\ Len(queue) < QueueSize)
      BY <2>1 DEF Enqueue
    <3>6. queue' \in Seq(Events) /\ Len(queue') <= QueueSize /\ NoApprovalQueued'
      <4>0. queue \in Seq(Events) /\ Len(queue) \in Nat /\ Len(queue) <= QueueSize /\ QueueSize \in Nat
        <5>1. queue \in Seq(Events) /\ Len(queue) <= QueueSize
          BY <1>t DEF DeliveryTypes
        <5> QED BY <5>1, DeliveryFacts
      <4>1. CASE queue' = queue
        BY <4>0, <4>1, <1>t DEF NoApprovalQueued
      <4>2. CASE queue' = Append(queue, e) /\ Len(queue) < QueueSize
        <5>1. queue' \in Seq(Events) /\ Len(queue') = Len(queue) + 1
          BY <4>0, <4>2
        <5>2. ASSUME NEW i \in DOMAIN queue' PROVE queue'[i] \notin Approvals
          <6>1. queue'[i] = IF i <= Len(queue) THEN queue[i] ELSE e
            BY <4>0, <4>2, <5>1
          <6>2. i <= Len(queue) => i \in DOMAIN queue
            BY <4>0, <5>1
          <6> QED BY <6>1, <6>2, <3>1, <1>t DEF NoApprovalQueued
        <5> QED BY <4>0, <4>2, <5>1, <5>2 DEF NoApprovalQueued
      <4> QED BY <3>5, <4>1, <4>2
    <3> QED BY <3>2, <3>3, <3>4, <3>6
  <2>2. ASSUME NEW e \in Events, Dismiss(e)
        PROVE  /\ queue' = queue /\ event' \in [Events -> EventRow]
               /\ \A a \in Approvals : event'[a].status = event[a].status
    <3>1. queue' = queue /\ event' = [event EXCEPT ![e].dismissed = TRUE]
      BY <2>2 DEF Dismiss
    <3>2. event \in [Events -> EventRow]
      BY <1>t DEF DeliveryTypes
    <3>3. \A f \in Events : event'[f].status = event[f].status
      BY <3>1, <3>2 DEF EventRow
    <3>4. event' \in [Events -> EventRow]
      BY <3>1, <3>2 DEF EventRow
    <3> QED BY <3>1, <3>3, <3>4, DeliveryFacts
  <2>3. (\E d \in Devices : ChangeDevice(d)) \/ Tick => queue' = queue /\ event' = event
    BY DEF ChangeDevice, Tick
  <2> QED BY <2>1, <2>2, <2>3, <1>t DEF DeliveryTypes, NoApprovalQueued
<1>2. device' \in [Devices -> Preferences] /\ now' \in 0..MaxTime /\ now' >= now /\ now' \in Nat
  <2>1. now \in 0..MaxTime /\ device \in [Devices -> Preferences] /\ MaxTime \in Nat
    BY <1>t, DeliveryFacts DEF DeliveryTypes
  <2>2. ASSUME NEW d \in Devices, ChangeDevice(d) PROVE device' \in [Devices -> Preferences] /\ now' = now
    BY <2>1, <2>2 DEF ChangeDevice, Preferences
  <2>3. ASSUME NEW e \in Events, Enqueue(e) \/ Dismiss(e) PROVE device' = device /\ now' = now
    BY <2>3 DEF Enqueue, Dismiss
  <2>4. Tick => device' = device /\ now' = now + 1 /\ now < MaxTime
    BY DEF Tick
  <2> QED BY <2>1, <2>2, <2>3, <2>4
<1>3. DeliveryTypes'
  BY <1>0, <1>1, <1>2, <1>t DEF DeliveryTypes
<1>4. \A t \in Threads : Delivers(t)'
  BY <1>0, DeliversKept DEF DeliveryInv
<1>5. \A e \in Events, d \in Devices : SentOnce(e, d)'
  BY <1>0 DEF DeliveryInv, SentOnce
<1>6. \A a \in Approvals : Chosen(a)'
  BY <1>0, <1>1, <1>2, ChosenKept
<1> QED BY <1>1, <1>3, <1>4, <1>5, <1>6 DEF DeliveryInv

\* A thread begins a delivery: the devices without a row are those it may send to.
LEMMA Begins ==
  ASSUME DeliveryAssumption, DeliveryInv, NEW e \in Events
  PROVE  /\ Begun(e) \in Delivery /\ Begun(e).at = "next" /\ Begun(e).event = e
         /\ \A d \in Begun(e).todo \ Begun(e).known : row[e][d] = "none"
<1>1. device \in [Devices -> Preferences] /\ row \in [Events -> [Devices -> RowState]]
  BY DEF DeliveryInv, DeliveryTypes
<1>2. /\ Begun(e) = [Idle EXCEPT !.at = "next", !.event = e, !.todo = Targets, !.seen = device,
                                 !.known = {d \in Devices : row[e][d] # "none"}]
      /\ Targets \subseteq Devices
  BY DEF Begun, Targets
<1>3. Begun(e) \in Delivery
  BY <1>1, <1>2, IdleThread DEF Delivery
<1>4. /\ Begun(e).at = "next" /\ Begun(e).event = e /\ Begun(e).todo = Targets
      /\ Begun(e).known = {d \in Devices : row[e][d] # "none"}
  BY <1>2, IdleThread DEF Delivery
<1> QED BY <1>2, <1>3, <1>4

LEMMA WorkKeeps ==
  ASSUME DeliveryAssumption, DeliveryInv, Work
  PROVE  DeliveryInv'
<1> DEFINE e == Head(queue)
<1>t. DeliveryTypes /\ NoApprovalQueued
  BY DEF DeliveryInv
<1>q. queue \in Seq(Events) /\ queue # <<>> /\ thread[Worker] = Idle
      /\ queue' = Tail(queue) /\ UNCHANGED <<device, row, approval, now, rounds, accepted>>
  BY <1>t DEF Work, DeliveryTypes
<1>e. e \in Events /\ e \notin Approvals
  <2>1. 1 \in DOMAIN queue /\ e = queue[1]
    BY <1>q
  <2> QED BY <2>1, <1>q, <1>t DEF NoApprovalQueued
<1>1. queue' \in Seq(Events) /\ Len(queue') <= QueueSize /\ NoApprovalQueued'
  <2>1. Len(queue) \in Nat /\ Len(queue') = Len(queue) - 1 /\ queue' \in Seq(Events)
    BY <1>q
  <2>2. Len(queue) <= QueueSize /\ QueueSize \in Nat
    BY <1>t, DeliveryFacts DEF DeliveryTypes
  <2>3. ASSUME NEW i \in DOMAIN queue' PROVE queue'[i] \notin Approvals
    <3>1. i + 1 \in DOMAIN queue /\ queue'[i] = queue[i + 1]
      BY <1>q
    <3> QED BY <3>1, <1>t DEF NoApprovalQueued
  <2> QED BY <2>1, <2>2, <2>3 DEF NoApprovalQueued
<1>2. /\ event' \in [Events -> EventRow]
      /\ \A a \in Approvals : event'[a] = event[a]
  <2>1. event \in [Events -> EventRow]
    BY <1>t DEF DeliveryTypes
  <2>2. Recorded(e) \in [Events -> EventRow] /\ \A a \in Approvals : Recorded(e)[a] = event[a]
    BY <2>1, <1>e, DeliveryFacts DEF Recorded, EventRow
  <2>3. Marked(Recorded(e), e, "failed") \in [Events -> EventRow]
        /\ \A a \in Approvals : Marked(Recorded(e), e, "failed")[a] = event[a]
    BY <2>2, <1>e, DeliveryFacts DEF Marked, EventRow
  <2>4. event' \in {Recorded(e), Marked(Recorded(e), e, "failed")}
    BY DEF Work
  <2> QED BY <2>2, <2>3, <2>4
<1>3. thread' \in {thread, [thread EXCEPT ![Worker] = Begun(e)]}
  BY DEF Work
<1>4. thread' \in [Threads -> Delivery] /\ \A t \in Threads \ {Worker} : thread'[t] = thread[t]
  <2>1. thread \in [Threads -> Delivery] /\ Begun(e) \in Delivery /\ Worker \in Threads
    <3>1. thread \in [Threads -> Delivery]
      BY <1>t DEF DeliveryTypes
    <3> QED BY <3>1, <1>e, Begins, DeliveryFacts
  <2> QED BY <1>3, <2>1
<1>5. DeliveryTypes'
  BY <1>q, <1>1, <1>2, <1>4, <1>t DEF DeliveryTypes
<1>6. ASSUME NEW t \in Threads PROVE Delivers(t)'
  <2>1. CASE thread'[t] = thread[t]
    BY <2>1, <1>q, DeliversKept DEF DeliveryInv
  <2>2. CASE thread'[t] # thread[t]
    <3>1. t = Worker /\ thread'[t] = Begun(e)
      BY <2>2, <1>3, <1>4, <1>t DEF DeliveryTypes
    <3> QED BY <3>1, <1>e, <1>q, Begins DEF Delivers, Untouched
  <2> QED BY <2>1, <2>2
<1>7. \A f \in Events, d \in Devices : SentOnce(f, d)'
  BY <1>q DEF DeliveryInv, SentOnce
<1>8. ASSUME NEW a \in Approvals PROVE Chosen(a)'
  <2>1. thread'[a] = thread[a]
    BY <1>4, DeliveryFacts
  <2>2. now \in Nat
    <3>1. now \in 0..MaxTime
      BY <1>t DEF DeliveryTypes
    <3> QED BY <3>1, DeliveryFacts
  <2> QED BY <2>1, <2>2, <1>q, <1>2, ChosenKept
<1> QED BY <1>1, <1>5, <1>6, <1>7, <1>8 DEF DeliveryInv

\* A step of a thread that delivers, told by the record and the row it leaves.
LEMMA DeliversTypes ==
  ASSUME DeliveryAssumption, DeliveryInv, NEW t \in Threads, NEW r \in Delivery,
         thread' = [thread EXCEPT ![t] = r]
  PROVE  /\ thread' \in [Threads -> Delivery] /\ thread'[t] = r
         /\ \A u \in Threads \ {t} : thread'[u] = thread[u]
BY DEF DeliveryInv, DeliveryTypes

LEMMA DeliveryStep ==
  ASSUME DeliveryAssumption, DeliveryInv, NEW t \in Threads, thread[t].at \in {"next", "sending"},
         NEW d \in Devices, NEW x \in RowState, NEW r \in Delivery,
         row' = [row EXCEPT ![thread[t].event][d] = x],
         row[thread[t].event][d] # "none" => x # "none",
         thread' = [thread EXCEPT ![t] = r], r.event = thread[t].event, r.at # "idle",
         Delivers(t)',
         rounds' \in [Events -> [Devices -> Nat]], SentOnce(thread[t].event, d)',
         \A e \in Events, c \in Devices :
           <<e, c>> # <<thread[t].event, d>> => rounds'[e][c] = rounds[e][c],
         device' \in [Devices -> Preferences],
         UNCHANGED <<event, queue, approval, now, accepted>>
  PROVE  DeliveryInv'
<1>t. DeliveryTypes /\ NoApprovalQueued /\ thread[t].event \in Events
  <2>1. Delivers(t) /\ DeliveryTypes /\ NoApprovalQueued
    BY DEF DeliveryInv
  <2> QED BY <2>1, DeliveryFacts DEF Delivers, Threads
<1>1. /\ thread' \in [Threads -> Delivery] /\ thread'[t] = r
      /\ \A u \in Threads \ {t} : thread'[u] = thread[u]
  BY DeliversTypes
<1>2. /\ row' \in [Events -> [Devices -> RowState]]
      /\ \A e \in Events \ {thread[t].event} : row'[e] = row[e]
      /\ \A c \in Devices \ {d} : row'[thread[t].event][c] = row[thread[t].event][c]
  BY <1>t DEF DeliveryTypes
<1>3. DeliveryTypes' /\ NoApprovalQueued'
  BY <1>t, <1>1, <1>2 DEF DeliveryTypes, NoApprovalQueued
<1>4. ASSUME NEW u \in Threads PROVE Delivers(u)'
  <2>1. CASE u = t
    BY <2>1
  <2>2. CASE u # t
    <3>1. thread[u].at # "idle" => thread[u].event \in Events \ {thread[t].event}
      BY <2>2, Apart
    <3> QED BY <2>2, <3>1, <1>1, <1>2, DeliversKept DEF DeliveryInv
  <2> QED BY <2>1, <2>2
<1>5. ASSUME NEW e \in Events, NEW c \in Devices PROVE SentOnce(e, c)'
  <2>1. CASE <<e, c>> = <<thread[t].event, d>>
    BY <2>1
  <2>2. CASE <<e, c>> # <<thread[t].event, d>>
    <3>1. row'[e][c] = row[e][c] /\ rounds'[e][c] = rounds[e][c]
      BY <2>2, <1>2, <1>t
    <3> QED BY <3>1 DEF DeliveryInv, SentOnce
  <2> QED BY <2>1, <2>2
<1>6. ASSUME NEW a \in Approvals PROVE Chosen(a)'
  <2>1. thread'[a].at # "idle" => thread[a].at # "idle"
    BY <1>1, DeliveryFacts
  <2>2. now \in Nat
    <3>1. now \in 0..MaxTime
      BY <1>t DEF DeliveryTypes
    <3> QED BY <3>1, DeliveryFacts
  <2> QED BY <2>1, <2>2, ChosenKept
<1> QED BY <1>3, <1>4, <1>5, <1>6 DEF DeliveryInv

\* Delivering to the next device.
LEMMA Next1Keeps ==
  ASSUME DeliveryAssumption, DeliveryInv, NEW t \in Threads, Next1(t)
  PROVE  DeliveryInv'
<1> DEFINE e == thread[t].event
<1>t. DeliveryTypes /\ Delivers(t) /\ thread[t] \in Delivery
  <2>1. DeliveryTypes /\ Delivers(t)
    BY DEF DeliveryInv
  <2> QED BY <2>1 DEF DeliveryTypes
<1>0. /\ thread[t].at = "next" /\ e \in Events
      /\ row \in [Events -> [Devices -> RowState]] /\ rounds \in [Events -> [Devices -> Nat]]
      /\ UNCHANGED <<device, event, queue, approval, now, accepted>>
  <2>1. thread[t].at = "next" /\ UNCHANGED <<device, event, queue, approval, now, accepted>>
    BY DEF Next1
  <2>2. e \in Events
    BY <2>1, <1>t, DeliveryFacts DEF Delivers, Threads
  <2> QED BY <2>1, <2>2, <1>t DEF DeliveryTypes
<1>1. PICK d \in thread[t].todo : Known(t, d) \/ Suppressed(t, d) \/ Unprovided(t, d) \/ Sends(t, d)
  BY DEF Next1
<1>2. /\ d \in Devices /\ device' \in [Devices -> Preferences]
      /\ thread[t].good \in Nat /\ thread[t].bad \in Nat /\ thread[t].quiet \in Nat
      /\ thread[t].todo \in SUBSET Devices /\ SentOnce(e, d)
  <2>1. d \in Devices
    BY <1>t, <1>1 DEF Delivery
  <2>2. device' \in [Devices -> Preferences]
    BY <1>0, <1>t DEF DeliveryTypes
  <2>3. SentOnce(e, d)
    BY <2>1, <1>0 DEF DeliveryInv
  <2> QED BY <2>1, <2>2, <2>3, <1>t DEF Delivery
<1>3. ASSUME Known(t, d) PROVE DeliveryInv'
  <2> DEFINE g == thread[t].good + (IF row[e][d] = "sent" THEN 1 ELSE 0)
             q == thread[t].quiet + (IF row[e][d] = "suppressed" THEN 1 ELSE 0)
             b == thread[t].bad + (IF row[e][d] \in {"queued", "failed"} THEN 1 ELSE 0)
             r == [thread[t] EXCEPT !.todo = @ \ {d}, !.good = g, !.quiet = q, !.bad = b]
  <2>1. g \in Nat /\ q \in Nat /\ b \in Nat
    BY <1>2
  <2>2. thread' = [thread EXCEPT ![t] = r] /\ row' = row /\ rounds' = rounds /\ d \in thread[t].known
    BY <1>3 DEF Known
  <2> HIDE DEF g, q, b
  <2>3. /\ r \in Delivery /\ r.event = e /\ r.at = "next"
        /\ r.todo = thread[t].todo \ {d} /\ r.known = thread[t].known
    BY <2>1, <1>t, <1>2, <1>0 DEF Delivery
  <2> HIDE DEF r
  <2>4. row' = [row EXCEPT ![e][d] = row[e][d]] /\ row[e][d] \in RowState
    BY <2>2, <1>0, <1>2
  <2>5. thread'[t] = r
    BY <2>2, <2>3, DeliversTypes
  <2>6. Delivers(t)'
    BY <2>2, <2>3, <2>5, <1>t, <1>0 DEF Delivers, Untouched
  <2>7. SentOnce(e, d)'
    BY <2>2, <2>3, <2>5, <1>2 DEF SentOnce
  <2> QED BY <2>2, <2>3, <2>4, <2>6, <2>7, <1>0, <1>2, DeliveryStep
<1>4. ASSUME NEW x \in RowState \ {"none", "queued"}, NEW r \in Delivery,
             r.event = e, r.at = "next", r.todo = thread[t].todo \ {d}, r.known = thread[t].known,
             thread' = [thread EXCEPT ![t] = r], row' = [row EXCEPT ![e][d] = x], rounds' = rounds
      PROVE  DeliveryInv'
  <2>1. thread'[t] = r
    BY <1>4, DeliversTypes
  <2>2. row'[e][d] = x /\ \A c \in Devices \ {d} : row'[e][c] = row[e][c]
    BY <1>4, <1>0, <1>2
  <2>3. Delivers(t)'
    BY <2>1, <2>2, <1>4, <1>t, <1>0, <1>2 DEF Delivers, Untouched
  <2>4. SentOnce(e, d)'
    <3>1. rounds[e][d] \in Nat /\ rounds[e][d] <= 1 /\ rounds'[e][d] = rounds[e][d]
      BY <1>0, <1>2, <1>4 DEF SentOnce
    <3>2. SentOnce(e, d)' <=> rounds'[e'][d] <= (IF row'[e'][d] = "none" THEN 0 ELSE 1)
      BY DEF SentOnce
    <3> QED BY <3>1, <2>2, <1>4, <2>1 DEF SentOnce
  <2> QED BY <2>3, <2>4, <1>4, <1>0, <1>2, DeliveryStep
<1>5. ASSUME Suppressed(t, d) PROVE DeliveryInv'
  <2> DEFINE n == thread[t].quiet + 1
             r == [thread[t] EXCEPT !.todo = @ \ {d}, !.quiet = n]
  <2>0. n \in Nat
    BY <1>2
  <2>2. thread' = [thread EXCEPT ![t] = r] /\ row' = [row EXCEPT ![e][d] = "suppressed"] /\ rounds' = rounds
    BY <1>5 DEF Suppressed
  <2> HIDE DEF n
  <2>1. /\ r \in Delivery /\ r.event = e /\ r.at = "next"
        /\ r.todo = thread[t].todo \ {d} /\ r.known = thread[t].known
    BY <2>0, <1>t, <1>2, <1>0 DEF Delivery
  <2> HIDE DEF r
  <2> QED BY <2>1, <2>2, <1>4 DEF RowState
<1>6. ASSUME Unprovided(t, d) PROVE DeliveryInv'
  <2> DEFINE n == thread[t].bad + 1
             r == [thread[t] EXCEPT !.todo = @ \ {d}, !.bad = n]
  <2>0. n \in Nat
    BY <1>2
  <2>2. thread' = [thread EXCEPT ![t] = r] /\ row' = [row EXCEPT ![e][d] = "failed"] /\ rounds' = rounds
    BY <1>6 DEF Unprovided
  <2> HIDE DEF n
  <2>1. /\ r \in Delivery /\ r.event = e /\ r.at = "next"
        /\ r.todo = thread[t].todo \ {d} /\ r.known = thread[t].known
    BY <2>0, <1>t, <1>2, <1>0 DEF Delivery
  <2> HIDE DEF r
  <2> QED BY <2>1, <2>2, <1>4 DEF RowState
<1>7. ASSUME Sends(t, d) PROVE DeliveryInv'
  <2> DEFINE r == [thread[t] EXCEPT !.at = "sending", !.todo = {d} \cup @]
  <2>1. /\ r \in Delivery /\ r.event = e /\ r.at = "sending"
        /\ r.todo = thread[t].todo /\ r.known = thread[t].known
    BY <1>t, <1>1, <1>2, <1>0 DEF Delivery
  <2>2. /\ thread' = [thread EXCEPT ![t] = r] /\ row' = [row EXCEPT ![e][d] = "queued"]
        /\ rounds' = [rounds EXCEPT ![e][d] = @ + 1] /\ d \notin thread[t].known
    BY <1>7 DEF Sends
  <2> HIDE DEF r
  <2>3. thread'[t] = r
    BY <2>1, <2>2, DeliversTypes
  <2>4. row'[e][d] = "queued" /\ \A c \in Devices \ {d} : row'[e][c] = row[e][c]
    BY <2>2, <1>0, <1>2
  <2>5. row[e][d] = "none" /\ \A c \in Untouched(t) : row[e][c] = "none" /\ c \in Devices
    BY <2>2, <1>1, <1>0, <1>t, <1>2 DEF Delivers, Untouched
  <2>6. Delivers(t)'
    <3>1. Untouched(t)' = Untouched(t) /\ d \in Untouched(t)
      BY <2>1, <2>2, <2>3, <1>1 DEF Untouched
    <3>2. IF t = Worker THEN e \in Events \ Approvals ELSE e = t
      BY <1>t, <1>0 DEF Delivers
    <3> QED BY <3>1, <3>2, <2>1, <2>3, <2>4, <2>5 DEF Delivers
  <2>7. /\ rounds' \in [Events -> [Devices -> Nat]] /\ rounds'[e][d] = rounds[e][d] + 1
        /\ \A f \in Events, c \in Devices : <<f, c>> # <<e, d>> => rounds'[f][c] = rounds[f][c]
    BY <2>2, <1>0, <1>2
  <2>8. SentOnce(e, d)'
    <3>1. rounds[e][d] \in Nat /\ rounds[e][d] <= 0
      BY <1>0, <1>2, <2>5 DEF SentOnce
    <3>2. rounds'[e][d] = 1
      BY <3>1, <2>7
    <3> QED BY <3>2, <2>4, <2>1, <2>3 DEF SentOnce
  <2>9. "queued" \in RowState
    BY DEF RowState
  <2>10. thread' = [thread EXCEPT ![t] = r] /\ row' = [row EXCEPT ![e][d] = "queued"]
    BY <2>2
  <2>11. thread[t].at \in {"next", "sending"} /\ r.at # "idle" /\ "queued" # "none"
    BY <1>0, <2>1
  <2> QED BY <2>1, <2>6, <2>7, <2>8, <2>9, <2>10, <2>11, <1>0, <1>2, DeliveryStep
<1> QED BY <1>1, <1>3, <1>5, <1>6, <1>7

\* An alert was taken or refused.
LEMMA SentKeeps ==
  ASSUME DeliveryAssumption, DeliveryInv, NEW t \in Threads,
         NEW how \in {"sent", "refused", "dead"}, Sent(t, how)
  PROVE  DeliveryInv'
<1> DEFINE e == thread[t].event
           x == IF how = "sent" THEN "sent" ELSE "failed"
           g == thread[t].good + (IF how = "sent" THEN 1 ELSE 0)
           b == thread[t].bad + (IF how = "sent" THEN 0 ELSE 1)
<1>t. DeliveryTypes /\ Delivers(t) /\ thread[t] \in Delivery
  <2>1. DeliveryTypes /\ Delivers(t)
    BY DEF DeliveryInv
  <2> QED BY <2>1 DEF DeliveryTypes
<1>0. /\ thread[t].at = "sending" /\ e \in Events
      /\ row \in [Events -> [Devices -> RowState]] /\ rounds \in [Events -> [Devices -> Nat]]
      /\ UNCHANGED <<event, queue, approval, now, rounds, accepted>>
  <2>1. thread[t].at = "sending" /\ UNCHANGED <<event, queue, approval, now, rounds, accepted>>
    BY DEF Sent
  <2>2. e \in Events
    BY <2>1, <1>t, DeliveryFacts DEF Delivers, Threads
  <2> QED BY <2>1, <2>2, <1>t DEF DeliveryTypes
<1>1. PICK d \in Devices :
      /\ d = Under(t) /\ d \in Untouched(t) /\ row[e][d] = "queued"
      /\ \A c \in Untouched(t) \ {d} : row[e][c] = "none" /\ c \in Devices
  <2>1. PICK c \in Untouched(t) : /\ row[e][c] = "queued"
                                  /\ \A k \in Untouched(t) \ {c} : row[e][k] = "none"
    BY <1>t, <1>0 DEF Delivers
  <2>2. Under(t) \in thread[t].todo /\ Under(t) \notin thread[t].known /\ row[e][Under(t)] = "queued"
    BY <2>1 DEF Under, Untouched
  <2>3. Under(t) = c
    BY <2>1, <2>2 DEF Untouched
  <2>4. Untouched(t) \subseteq Devices
    BY <1>t DEF Untouched, Delivery
  <2> QED BY <2>1, <2>3, <2>4
<1> DEFINE r == [thread[t] EXCEPT !.at = "next", !.todo = @ \ {d}, !.good = g, !.bad = b]
<1>2. /\ row' = [row EXCEPT ![e][d] = x] /\ thread' = [thread EXCEPT ![t] = r]
      /\ device' = IF how = "dead" THEN [device EXCEPT ![d].revoked = TRUE] ELSE device
  BY <1>1 DEF Sent
<1>3. x \in RowState \ {"none", "queued"} /\ g \in Nat /\ b \in Nat
  <2>1. thread[t].good \in Nat /\ thread[t].bad \in Nat
    BY <1>t DEF Delivery
  <2> QED BY <2>1 DEF RowState
<1> HIDE DEF x, g, b
<1>4. /\ r \in Delivery /\ r.event = e /\ r.at = "next"
      /\ r.todo = thread[t].todo \ {d} /\ r.known = thread[t].known
  BY <1>t, <1>3, <1>0 DEF Delivery
<1> HIDE DEF r
<1>5. thread'[t] = r
  BY <1>2, <1>4, DeliversTypes
<1>6. row'[e][d] = x /\ \A c \in Devices \ {d} : row'[e][c] = row[e][c]
  BY <1>0, <1>1, <1>2
<1>7. Delivers(t)'
  <2>1. Untouched(t)' = Untouched(t) \ {d}
    BY <1>4, <1>5 DEF Untouched
  <2>2. IF t = Worker THEN e \in Events \ Approvals ELSE e = t
    BY <1>t, <1>0 DEF Delivers
  <2> QED BY <2>1, <2>2, <1>1, <1>4, <1>5, <1>6 DEF Delivers
<1>8. SentOnce(e, d)'
  <2>1. rounds[e][d] \in Nat /\ rounds[e][d] <= 1
    <3>1. SentOnce(e, d)
      BY <1>0, <1>1 DEF DeliveryInv
    <3> QED BY <3>1, <1>0, <1>1 DEF SentOnce
  <2>2. rounds'[e][d] <= 1 /\ row'[e][d] # "none"
    BY <2>1, <1>0, <1>3, <1>6
  <2>3. thread'[t].event = e
    BY <1>4, <1>5
  <2> QED BY <2>2, <2>3 DEF SentOnce
<1>9. device' \in [Devices -> Preferences]
  <2>1. device \in [Devices -> Preferences]
    BY <1>t DEF DeliveryTypes
  <2> QED BY <2>1, <1>1, <1>2 DEF Preferences
<1> QED BY <1>0, <1>1, <1>2, <1>3, <1>4, <1>7, <1>8, <1>9, DeliveryStep

\* deliver ends: the event is marked, and a thread of an approval waits or denies.
LEMMA DeliveredKeeps ==
  ASSUME DeliveryAssumption, DeliveryInv, NEW t \in Threads, Delivered(t)
  PROVE  DeliveryInv'
<1> DEFINE e == thread[t].event
           st == IF Succeeded(t) THEN "sent" ELSE "failed"
           r == IF t # Worker /\ Succeeded(t) THEN [Idle EXCEPT !.at = "polling", !.event = t] ELSE Idle
<1>t. DeliveryTypes /\ Delivers(t) /\ NoApprovalQueued /\ thread[t].at = "next"
  BY DEF DeliveryInv, Delivered
<1>0. /\ UNCHANGED <<device, row, queue, now, rounds, accepted>>
      /\ event' = [event EXCEPT ![e].status = st] /\ thread' = [thread EXCEPT ![t] = r]
      /\ approval' = IF t # Worker /\ ~Succeeded(t) THEN [approval EXCEPT ![t].answer = "deny"] ELSE approval
  BY DEF Delivered, Marked
<1>1. /\ e \in Events /\ st \in {"sent", "failed"}
      /\ IF t = Worker THEN e \in Events \ Approvals ELSE e = t /\ t \in Approvals
  BY <1>t, DeliveryFacts DEF Delivers, Threads
<1>2. r \in Delivery /\ r.at \in {"idle", "polling"} /\ (t = Worker => r.at = "idle") /\ (r.at = "polling" => r.event = t)
  BY <1>1, IdleThread DEF Delivery
<1>3. /\ thread' \in [Threads -> Delivery] /\ thread'[t] = r
      /\ \A u \in Threads \ {t} : thread'[u] = thread[u]
  BY <1>0, <1>2, DeliversTypes
<1>4. event' \in [Events -> EventRow] /\ \A f \in Events \ {e} : event'[f] = event[f]
  <2>1. event \in [Events -> EventRow]
    BY <1>t DEF DeliveryTypes
  <2> HIDE DEF st
  <2> QED BY <2>1, <1>0, <1>1 DEF EventRow
<1>5. /\ approval' \in [Approvals -> ApprovalRow]
      /\ \A a \in Approvals \ {t} : approval'[a] = approval[a]
      /\ t \in Approvals => /\ approval'[t].status = approval[t].status
                            /\ approval'[t].choice = approval[t].choice
                            /\ approval'[t].answer = IF Succeeded(t) THEN approval[t].answer ELSE "deny"
  <2>1. approval \in [Approvals -> ApprovalRow] /\ "deny" \in Choices
    BY <1>t, DeliveryFacts DEF DeliveryTypes
  <2>2. approval' \in {approval, [approval EXCEPT ![t].answer = "deny"]}
    BY <1>0
  <2>3. t \in Approvals => /\ [approval EXCEPT ![t].answer = "deny"] \in [Approvals -> ApprovalRow]
                           /\ [approval EXCEPT ![t].answer = "deny"][t] = [approval[t] EXCEPT !.answer = "deny"]
    BY <2>1 DEF ApprovalRow
  <2>4. t \in Approvals => [approval[t] EXCEPT !.answer = "deny"] \in ApprovalRow
    BY <2>1 DEF ApprovalRow
  <2>5. t \in Approvals => /\ [approval[t] EXCEPT !.answer = "deny"].status = approval[t].status
                           /\ [approval[t] EXCEPT !.answer = "deny"].choice = approval[t].choice
                           /\ [approval[t] EXCEPT !.answer = "deny"].answer = "deny"
    BY <2>1 DEF ApprovalRow
  <2>6. approval' \in [Approvals -> ApprovalRow] /\ \A a \in Approvals \ {t} : approval'[a] = approval[a]
    <3>1. t \notin Approvals => t = Worker
      BY <1>1
    <3> QED BY <2>1, <2>3, <3>1, <1>0
  <2>7. t \in Approvals => t # Worker
    BY DeliveryFacts
  <2> QED BY <2>3, <2>5, <2>6, <2>7, <1>0
<1> HIDE DEF r
<1>6. DeliveryTypes' /\ NoApprovalQueued'
  BY <1>0, <1>3, <1>4, <1>5, <1>t DEF DeliveryTypes, NoApprovalQueued
<1>7. ASSUME NEW u \in Threads PROVE Delivers(u)'
  <2>1. CASE u = t
    BY <2>1, <1>2, <1>3 DEF Delivers
  <2>2. CASE u # t
    BY <2>2, <1>0, <1>3, DeliversKept DEF DeliveryInv
  <2> QED BY <2>1, <2>2
<1>8. \A f \in Events, d \in Devices : SentOnce(f, d)'
  BY <1>0 DEF DeliveryInv, SentOnce
<1>9. ASSUME NEW a \in Approvals PROVE Chosen(a)'
  <2>1. CASE a # t
    <3>1. thread'[a] = thread[a] /\ approval'[a] = approval[a] /\ accepted'[a] = accepted[a]
      BY <2>1, <1>0, <1>3, <1>5, DeliveryFacts
    <3>2. event'[a] = event[a]
      BY <2>1, <1>1, <1>4, DeliveryFacts
    <3>3. now \in Nat
      <4>1. now \in 0..MaxTime
        BY <1>t DEF DeliveryTypes
      <4> QED BY <4>1, DeliveryFacts
    <3>4. now' \in Nat /\ now' >= now
      BY <3>3, <1>0
    <3> QED BY <3>1, <3>2, <3>4, ChosenKept
  <2>2. CASE a = t
    <3>1. /\ Chosen(a) /\ approval[a].status # "none" /\ approval[a].answer = "" /\ e = a /\ t # Worker
      BY <2>2, <1>1, <1>t, DeliveryFacts DEF DeliveryInv, Chosen
    <3>2. CASE Succeeded(t)
      <4>1. approval'[a].answer = "" /\ approval'[a].status = approval[a].status
            /\ approval'[a].choice = approval[a].choice /\ accepted' = accepted
        BY <2>2, <3>1, <3>2, <1>0, <1>5
      <4> QED BY <3>1, <4>1 DEF Chosen
    <3>3. CASE ~Succeeded(t)
      <4>1. /\ approval'[a].answer = "deny" /\ approval'[a].status = approval[a].status
            /\ approval'[a].choice = approval[a].choice /\ accepted' = accepted
        BY <2>2, <3>3, <1>0, <1>5
      <4>2. thread'[a].at = "idle"
        BY <2>2, <3>1, <3>3, <1>3, IdleThread DEF r
      <4>3. event'[a].status = "failed"
        <5>1. event \in [Events -> EventRow]
          BY <1>t DEF DeliveryTypes
        <5> QED BY <5>1, <3>1, <3>3, <1>0, <1>1 DEF EventRow
      <4> QED BY <3>1, <4>1, <4>2, <4>3 DEF Chosen
    <3> QED BY <3>2, <3>3
  <2> QED BY <2>1, <2>2
<1> QED BY <1>6, <1>7, <1>8, <1>9 DEF DeliveryInv

\* Presenting an approval: with no device to ask it is denied at once.
LEMMA PresentKeeps ==
  ASSUME DeliveryAssumption, DeliveryInv, NEW a \in Approvals, Present(a)
  PROVE  DeliveryInv'
<1>t. DeliveryTypes /\ NoApprovalQueued /\ Chosen(a)
  BY DEF DeliveryInv
<1>0. /\ approval[a].status = "none" /\ thread[a] = Idle /\ a \in Events /\ a \in Threads /\ a # Worker
      /\ UNCHANGED <<device, row, queue, now, rounds, accepted>>
  BY DeliveryFacts DEF Present
<1>n. now \in Nat /\ Timeout \in Nat /\ MaxTime \in Nat /\ now <= MaxTime
  <2>1. now \in 0..MaxTime
    BY <1>t DEF DeliveryTypes
  <2> QED BY <2>1, DeliveryFacts
<1>1. PICK up \in {0, 1} :
        LET made == [NoApproval EXCEPT !.status = "pending", !.deadline = now + Timeout,
                                       !.expires = now + Timeout + up]
        IN IF Targets = {}
             THEN /\ approval' = [approval EXCEPT ![a] = [made EXCEPT !.answer = "deny"]]
                  /\ event' = Marked(Recorded(a), a, "failed") /\ UNCHANGED thread
             ELSE /\ approval' = [approval EXCEPT ![a] = made]
                  /\ event' = Recorded(a) /\ thread' = [thread EXCEPT ![a] = Begun(a)]
  BY DEF Present
<1> DEFINE due == now + Timeout
           over == now + Timeout + up
           made == [NoApproval EXCEPT !.status = "pending", !.deadline = due, !.expires = over]
           refusal == [made EXCEPT !.answer = "deny"]
<1>2. due \in 0..(MaxTime + Timeout) /\ over \in 0..(MaxTime + Timeout + 1)
  BY <1>n
<1>3. IF Targets = {}
        THEN /\ approval' = [approval EXCEPT ![a] = refusal]
             /\ event' = Marked(Recorded(a), a, "failed") /\ UNCHANGED thread
        ELSE /\ approval' = [approval EXCEPT ![a] = made]
             /\ event' = Recorded(a) /\ thread' = [thread EXCEPT ![a] = Begun(a)]
  BY <1>1
<1> HIDE DEF due, over
<1>4. /\ made \in ApprovalRow /\ made.status = "pending" /\ made.answer = "" /\ made.choice = ""
      /\ refusal \in ApprovalRow /\ refusal.status = "pending" /\ refusal.answer = "deny" /\ refusal.choice = ""
  BY <1>2, DeliveryFacts DEF NoApproval, ApprovalRow
<1> HIDE DEF made, refusal
<1>5. /\ approval' \in [Approvals -> ApprovalRow]
      /\ \A b \in Approvals \ {a} : approval'[b] = approval[b]
      /\ approval'[a] = IF Targets = {} THEN refusal ELSE made
  <2>1. approval \in [Approvals -> ApprovalRow]
    BY <1>t DEF DeliveryTypes
  <2> QED BY <2>1, <1>3, <1>4
<1>6. /\ event' \in [Events -> EventRow] /\ \A f \in Events \ {a} : event'[f] = event[f]
      /\ Targets = {} => event'[a].status = "failed"
  <2>1. event \in [Events -> EventRow]
    BY <1>t DEF DeliveryTypes
  <2>2. Recorded(a) \in [Events -> EventRow] /\ \A f \in Events \ {a} : Recorded(a)[f] = event[f]
    BY <2>1, <1>0 DEF Recorded, EventRow
  <2>3. /\ Marked(Recorded(a), a, "failed") \in [Events -> EventRow]
        /\ \A f \in Events \ {a} : Marked(Recorded(a), a, "failed")[f] = event[f]
        /\ Marked(Recorded(a), a, "failed")[a].status = "failed"
    BY <2>2, <1>0 DEF Marked, EventRow
  <2> QED BY <2>2, <2>3, <1>3
<1>7. /\ thread' \in [Threads -> Delivery] /\ \A u \in Threads \ {a} : thread'[u] = thread[u]
      /\ thread'[a] = IF Targets = {} THEN Idle ELSE Begun(a)
  <2>1. thread \in [Threads -> Delivery]
    BY <1>t DEF DeliveryTypes
  <2>2. Begun(a) \in Delivery
    BY <1>0, Begins
  <2> QED BY <2>1, <2>2, <1>0, <1>3
<1>8. DeliveryTypes' /\ NoApprovalQueued'
  BY <1>0, <1>5, <1>6, <1>7, <1>t DEF DeliveryTypes, NoApprovalQueued
<1>9. ASSUME NEW u \in Threads PROVE Delivers(u)'
  <2>1. CASE u # a
    BY <2>1, <1>0, <1>7, DeliversKept DEF DeliveryInv
  <2>2. CASE u = a /\ Targets = {}
    BY <2>2, <1>0, <1>7, IdleThread DEF Delivers
  <2>3. CASE u = a /\ Targets # {}
    <3>1. thread'[a] = Begun(a) /\ Begun(a).at = "next" /\ Begun(a).event = a
          /\ \A d \in Begun(a).todo \ Begun(a).known : row[a][d] = "none"
      BY <2>3, <1>0, <1>7, Begins
    <3> QED BY <2>3, <3>1, <1>0 DEF Delivers, Untouched
  <2> QED BY <2>1, <2>2, <2>3
<1>10. \A f \in Events, d \in Devices : SentOnce(f, d)'
  BY <1>0 DEF DeliveryInv, SentOnce
<1>11. ASSUME NEW b \in Approvals PROVE Chosen(b)'
  <2>1. CASE b # a
    BY <2>1, <1>0, <1>n, <1>5, <1>6, <1>7, ChosenKept, DeliveryFacts
  <2>2. CASE b = a
    <3>1. accepted'[a] = ""
      BY <1>t, <1>0 DEF Chosen
    <3>2. CASE Targets = {}
      <4>0. approval'[b] = refusal
        BY <2>2, <3>2, <1>5
      <4>1. approval'[b].status = "pending" /\ approval'[b].answer = "deny" /\ accepted'[b] = ""
        BY <2>2, <3>1, <4>0, <1>4
      <4>2. thread'[b].at = "idle" /\ event'[b].status # "sent"
        BY <2>2, <3>2, <1>6, <1>7, IdleThread
      <4> QED BY <4>1, <4>2 DEF Chosen
    <3>3. CASE Targets # {}
      <4>0. approval'[b] = made
        BY <2>2, <3>3, <1>5
      <4>1. approval'[b].status = "pending" /\ approval'[b].answer = "" /\ accepted'[b] = ""
        BY <2>2, <3>1, <4>0, <1>4
      <4> QED BY <4>1 DEF Chosen
    <3> QED BY <3>2, <3>3
  <2> QED BY <2>1, <2>2
<1> QED BY <1>8, <1>9, <1>10, <1>11 DEF DeliveryInv

\* Hermes is answered: by the choice that was accepted, or by a denial once nothing can come.
LEMMA AnswerKeeps ==
  ASSUME DeliveryAssumption, DeliveryInv, NEW a \in Approvals,
         Poll(a) \/ Deadline(a) \/ \E choice \in Choices : Respond(a, choice)
  PROVE  DeliveryInv'
<1>t. DeliveryTypes /\ NoApprovalQueued /\ Chosen(a) /\ a \in Threads
  BY DeliveryFacts DEF DeliveryInv
<1>r. approval \in [Approvals -> ApprovalRow] /\ thread \in [Threads -> Delivery]
      /\ accepted \in [Approvals -> Choices \cup {""}] /\ "deny" \in Choices
  BY <1>t, DeliveryFacts DEF DeliveryTypes
<1>0. UNCHANGED <<device, event, row, queue, now, rounds>>
  BY DEF Poll, Deadline, Respond
<1>n. now' \in Nat /\ now' >= now
  <2>1. now \in 0..MaxTime
    BY <1>t DEF DeliveryTypes
  <2> QED BY <2>1, <1>0, DeliveryFacts
<1>1. /\ thread' \in [Threads -> Delivery] /\ \A u \in Threads \ {a} : thread'[u] = thread[u]
      /\ thread'[a] \in {thread[a], Idle}
  <2>1. thread' \in {thread, [thread EXCEPT ![a] = Idle]}
    BY DEF Poll, Deadline, Respond
  <2> QED BY <2>1, <1>r, <1>t, IdleThread
<1>2. ASSUME approval' \in [Approvals -> ApprovalRow], accepted' \in [Approvals -> Choices \cup {""}],
             \A b \in Approvals \ {a} : approval'[b] = approval[b] /\ accepted'[b] = accepted[b],
             Chosen(a)'
      PROVE  DeliveryInv'
  <2>1. DeliveryTypes' /\ NoApprovalQueued'
    BY <1>0, <1>1, <1>2, <1>t DEF DeliveryTypes, NoApprovalQueued
  <2>2. ASSUME NEW u \in Threads PROVE Delivers(u)'
    <3>1. CASE thread'[u] = thread[u]
      BY <3>1, <1>0, DeliversKept DEF DeliveryInv
    <3>2. CASE thread'[u] # thread[u]
      BY <3>2, <1>1, IdleThread DEF Delivers
    <3> QED BY <3>1, <3>2
  <2>3. \A f \in Events, d \in Devices : SentOnce(f, d)'
    BY <1>0 DEF DeliveryInv, SentOnce
  <2>4. ASSUME NEW b \in Approvals PROVE Chosen(b)'
    <3>1. CASE b = a
      BY <3>1, <1>2
    <3>2. CASE b # a
      BY <3>2, <1>0, <1>n, <1>1, <1>2, ChosenKept, DeliveryFacts
    <3> QED BY <3>1, <3>2
  <2> QED BY <2>1, <2>2, <2>3, <2>4 DEF DeliveryInv
<1>3. CASE Poll(a)
  <2> DEFINE st == Aged(a)
             ans == IF st = "responded" THEN approval[a].choice ELSE IF st = "expired" THEN "deny" ELSE ""
             r == [approval[a] EXCEPT !.status = st, !.answer = ans]
  <2>1. /\ approval' = [approval EXCEPT ![a] = r] /\ accepted' = accepted
        /\ thread[a].at = "polling" /\ thread' = IF st \in {"responded", "expired"} THEN [thread EXCEPT ![a] = Idle] ELSE thread
    BY <1>3 DEF Poll
  <2>2. /\ st \in {"none", "pending", "responded", "expired"} /\ ans \in Choices \cup {""}
        /\ st = approval[a].status \/ (approval[a].status = "pending" /\ st = "expired")
        /\ approval[a] \in ApprovalRow
    <3>1. approval[a] \in ApprovalRow
      BY <1>r
    <3> QED BY <3>1, <1>r DEF Aged, ApprovalRow
  <2>3. ans = IF st = "responded" THEN approval[a].choice ELSE IF st = "expired" THEN "deny" ELSE ""
    OBVIOUS
  <2> HIDE DEF st, ans
  <2>4. r \in ApprovalRow /\ r.status = st /\ r.answer = ans /\ r.choice = approval[a].choice
    BY <2>2 DEF ApprovalRow
  <2> HIDE DEF r
  <2>5. approval' \in [Approvals -> ApprovalRow] /\ approval'[a] = r
        /\ \A b \in Approvals \ {a} : approval'[b] = approval[b]
    BY <2>1, <2>4, <1>r
  <2>6. approval[a].status # "none" /\ approval[a].answer = ""
        /\ accepted[a] = IF approval[a].status = "responded" THEN approval[a].choice ELSE ""
    BY <2>1, <1>t DEF Chosen
  <2>7. st \in {"responded", "expired"} => thread'[a].at = "idle"
    BY <2>1, <1>r, <1>t, IdleThread
  <2>8. Chosen(a)'
    <3>1. /\ approval'[a].status = st /\ approval'[a].answer = ans
          /\ approval'[a].choice = approval[a].choice /\ accepted'[a] = accepted[a]
      BY <2>1, <2>4, <2>5
    <3>2. CASE st = "responded"
      BY <3>1, <3>2, <2>2, <2>3, <2>6, <2>7 DEF Chosen
    <3>3. CASE st = "expired"
      BY <3>1, <3>3, <2>2, <2>3, <2>6, <2>7 DEF Chosen
    <3>4. CASE st \notin {"responded", "expired"}
      BY <3>1, <3>4, <2>2, <2>3, <2>6 DEF Chosen
    <3> QED BY <3>2, <3>3, <3>4
  <2> QED BY <2>1, <2>5, <2>8, <1>2, <1>r
<1>4. CASE Deadline(a)
  <2> DEFINE r == [approval[a] EXCEPT !.answer = "deny"]
  <2>1. /\ approval' = [approval EXCEPT ![a] = r] /\ accepted' = accepted
        /\ thread[a].at = "polling" /\ now >= approval[a].deadline /\ thread' = [thread EXCEPT ![a] = Idle]
    BY <1>4 DEF Deadline
  <2>2. r \in ApprovalRow /\ r.status = approval[a].status /\ r.answer = "deny"
        /\ r.choice = approval[a].choice /\ r.deadline = approval[a].deadline
    <3>1. approval[a] \in ApprovalRow
      BY <1>r
    <3> QED BY <3>1, <1>r DEF ApprovalRow
  <2> HIDE DEF r
  <2>3. approval' \in [Approvals -> ApprovalRow] /\ approval'[a] = r
        /\ \A b \in Approvals \ {a} : approval'[b] = approval[b]
    BY <2>1, <2>2, <1>r
  <2>4. thread'[a].at = "idle"
    BY <2>1, <1>r, <1>t, IdleThread
  <2>5. approval[a].status # "none" /\ accepted[a] = IF approval[a].status = "responded" THEN approval[a].choice ELSE ""
    BY <2>1, <1>t DEF Chosen
  <2>6. Chosen(a)'
    <3>1. /\ approval'[a].status = approval[a].status /\ approval'[a].answer = "deny"
          /\ approval'[a].choice = approval[a].choice /\ accepted'[a] = accepted[a]
          /\ now' >= approval'[a].deadline
      BY <2>1, <2>2, <2>3, <1>0
    <3> QED BY <3>1, <2>4, <2>5 DEF Chosen
  <2> QED BY <2>1, <2>3, <2>6, <1>2, <1>r
<1>5. ASSUME NEW choice \in Choices, Respond(a, choice) PROVE DeliveryInv'
  <2> DEFINE r == [approval[a] EXCEPT !.status = "responded", !.choice = choice]
  <2>1. /\ approval' = [approval EXCEPT ![a] = r] /\ approval[a].status = "pending" /\ thread' = thread
        /\ accepted' = [accepted EXCEPT ![a] = IF @ = "" THEN choice ELSE @]
    <3>1. approval[a].status = "pending" /\ thread' = thread
      BY <1>5 DEF Respond, Answerable
    <3>2. accepted' = [accepted EXCEPT ![a] = IF @ = "" THEN choice ELSE @]
      BY <1>5 DEF Respond
    <3>3. approval' = [approval EXCEPT ![a].status = "responded", ![a].choice = choice]
      BY <1>5 DEF Respond
    <3>4. approval' = [approval EXCEPT ![a] = r]
      BY <3>3, <1>r
    <3> QED BY <3>1, <3>2, <3>4
  <2>2. /\ r \in ApprovalRow /\ r.status = "responded" /\ r.answer = approval[a].answer
        /\ r.choice = choice /\ r.deadline = approval[a].deadline
    <3>1. approval[a] \in ApprovalRow
      BY <1>r
    <3> QED BY <3>1 DEF ApprovalRow
  <2> HIDE DEF r
  <2>3. approval' \in [Approvals -> ApprovalRow] /\ approval'[a] = r
        /\ \A b \in Approvals \ {a} : approval'[b] = approval[b]
    BY <2>1, <2>2, <1>r
  <2>4. accepted[a] = ""
    BY <2>1, <1>t DEF Chosen
  <2>5. accepted' \in [Approvals -> Choices \cup {""}] /\ accepted'[a] = choice
        /\ \A b \in Approvals \ {a} : accepted'[b] = accepted[b]
    BY <2>1, <2>4, <1>r
  <2>6. Chosen(a)'
    <3>1. /\ approval'[a].status = "responded" /\ approval'[a].answer = approval[a].answer
          /\ approval'[a].choice = choice /\ accepted'[a] = choice
          /\ approval'[a].deadline = approval[a].deadline
          /\ thread' = thread /\ now' = now /\ event' = event
      BY <2>1, <2>2, <2>3, <2>5, <1>0
    <3>2. /\ thread[a].at # "idle" => approval[a].answer = ""
          /\ approval[a].answer # "" => /\ approval[a].answer = "deny"
                                        /\ now >= approval[a].deadline \/ event[a].status # "sent"
      BY <2>1, <2>4, <1>t DEF Chosen
    <3> QED BY <3>1, <3>2 DEF Chosen
  <2> QED BY <2>3, <2>5, <2>6, <1>2
<1> QED BY <1>3, <1>4, <1>5

\* The process dies: nobody waits for an answer.
LEMMA CrashKeeps ==
  ASSUME DeliveryAssumption, DeliveryInv, Crash
  PROVE  DeliveryInv'
<1>0. /\ queue' = <<>> /\ thread' = [t \in Threads |-> Idle]
      /\ UNCHANGED <<device, event, row, approval, now, rounds, accepted>>
  BY DEF Crash
<1>t. DeliveryTypes
  BY DEF DeliveryInv
<1>1. thread' \in [Threads -> Delivery] /\ \A t \in Threads : thread'[t].at = "idle"
  BY <1>0, IdleThread
<1>2. queue' \in Seq(Events) /\ Len(queue') <= QueueSize /\ NoApprovalQueued'
  BY <1>0, DeliveryFacts DEF NoApprovalQueued
<1>3. DeliveryTypes'
  BY <1>0, <1>1, <1>2, <1>t DEF DeliveryTypes
<1>4. \A t \in Threads : Delivers(t)'
  BY <1>1 DEF Delivers
<1>5. \A f \in Events, d \in Devices : SentOnce(f, d)'
  BY <1>0 DEF DeliveryInv, SentOnce
<1>6. ASSUME NEW a \in Approvals PROVE Chosen(a)'
  <2>1. Chosen(a) /\ thread'[a].at = "idle"
    BY <1>1, DeliveryFacts DEF DeliveryInv
  <2> QED BY <2>1, <1>0 DEF Chosen
<1> QED BY <1>2, <1>3, <1>4, <1>5, <1>6 DEF DeliveryInv

LEMMA DeliveryBegins == ASSUME DeliveryAssumption, DeliveryInit PROVE DeliveryInv
<1>1. /\ queue \in Seq(Events) /\ Len(queue) <= QueueSize /\ NoApprovalQueued
      /\ now \in 0..MaxTime
  <2>1. queue = <<>> /\ now = 0
    BY DEF DeliveryInit
  <2> QED BY <2>1, DeliveryFacts DEF NoApprovalQueued
<1>2. thread \in [Threads -> Delivery] /\ \A t \in Threads : thread[t].at = "idle"
  BY IdleThread DEF DeliveryInit
<1>3. NoApproval \in ApprovalRow /\ NoApproval.status = "none" /\ NoApproval.answer = ""
  <2>1. 0 \in 0..(MaxTime + Timeout + 1) /\ 0 \in 0..(MaxTime + Timeout)
    BY DeliveryFacts
  <2> QED BY <2>1 DEF NoApproval, ApprovalRow
<1>4. /\ device \in [Devices -> Preferences] /\ event \in [Events -> EventRow]
      /\ row \in [Events -> [Devices -> RowState]] /\ rounds \in [Events -> [Devices -> Nat]]
      /\ accepted \in [Approvals -> Choices \cup {""}]
  BY DEF DeliveryInit, Preferences, EventRow, RowState
<1>5. approval \in [Approvals -> ApprovalRow] /\ \A a \in Approvals : approval[a] = NoApproval /\ accepted[a] = ""
  BY <1>3 DEF DeliveryInit
<1>6. \A e \in Events, d \in Devices : SentOnce(e, d)
  <2> SUFFICES ASSUME NEW e \in Events, NEW d \in Devices PROVE SentOnce(e, d)
    OBVIOUS
  <2>1. row[e][d] = "none" /\ rounds[e][d] = 0
    BY DEF DeliveryInit
  <2> QED BY <2>1 DEF SentOnce
<1>7. \A a \in Approvals : Chosen(a)
  BY <1>2, <1>3, <1>5, DeliveryFacts DEF Chosen
<1>8. \A t \in Threads : Delivers(t)
  BY <1>2 DEF Delivers
<1> QED BY <1>1, <1>2, <1>4, <1>5, <1>6, <1>7, <1>8 DEF DeliveryInv, DeliveryTypes

\* The counters that bound the model are not part of it.
LEMMA DeliveryStands ==
  ASSUME DeliveryAssumption, DeliveryInv,
         UNCHANGED <<device, event, row, queue, thread, approval, now, rounds, accepted>>
  PROVE  DeliveryInv'
<1>1. DeliveryTypes' /\ NoApprovalQueued'
  BY DEF DeliveryInv, DeliveryTypes, NoApprovalQueued
<1>2. \A t \in Threads : Delivers(t)'
  BY DeliversKept DEF DeliveryInv
<1>3. \A e \in Events, d \in Devices : SentOnce(e, d)'
  BY DEF DeliveryInv, SentOnce
<1>4. \A a \in Approvals : Chosen(a)'
  BY DEF DeliveryInv, Chosen
<1> QED BY <1>1, <1>2, <1>3, <1>4 DEF DeliveryInv

LEMMA DeliveryGoesOn == ASSUME DeliveryAssumption, DeliveryInv, [DeliveryNext]_deliveryVars PROVE DeliveryInv'
<1>1. CASE UNCHANGED deliveryVars
  BY <1>1, DeliveryStands DEF deliveryVars
<1>2. CASE \/ \E e \in Events : Enqueue(e) \/ Dismiss(e)
           \/ \E d \in Devices : ChangeDevice(d)
           \/ Tick
  BY <1>2, AsideKeeps
<1>3. CASE Work
  BY <1>3, WorkKeeps
<1>4. CASE Crash
  BY <1>4, CrashKeeps
<1>5. ASSUME NEW t \in Threads, Next1(t) PROVE DeliveryInv'
  BY <1>5, Next1Keeps
<1>6. ASSUME NEW t \in Threads, Delivered(t) PROVE DeliveryInv'
  BY <1>6, DeliveredKeeps
<1>7. ASSUME NEW t \in Threads, NEW how \in {"sent", "refused", "dead"}, Sent(t, how) PROVE DeliveryInv'
  BY <1>7, SentKeeps
<1>8. ASSUME NEW a \in Approvals, Present(a) PROVE DeliveryInv'
  BY <1>8, PresentKeeps
<1>9. ASSUME NEW a \in Approvals, Poll(a) \/ Deadline(a) \/ \E choice \in Choices : Respond(a, choice)
      PROVE DeliveryInv'
  BY <1>9, AnswerKeeps
<1> QED BY <1>1, <1>2, <1>3, <1>4, <1>5, <1>6, <1>7, <1>8, <1>9 DEF DeliveryNext

LEMMA DeliverySafety == ASSUME DeliveryAssumption PROVE DeliverySpec => []DeliveryInv
BY DeliveryBegins, DeliveryGoesOn, PTL DEF DeliverySpec

LEMMA DeliveryShows == ASSUME DeliveryAssumption, DeliveryInv PROVE DeliveryTypeOK /\ AlertedOnce /\ AnsweredAsChosen
<1>1. DeliveryTypeOK
  BY DEF DeliveryInv, DeliveryTypes, DeliveryTypeOK, Delivery, Preferences, EventRow, RowState, ApprovalRow
<1>2. ASSUME NEW e \in Events, NEW d \in Devices PROVE rounds[e][d] <= 1
  <2>1. SentOnce(e, d) /\ rounds[e][d] \in Nat
    BY DEF DeliveryInv, DeliveryTypes
  <2> QED BY <2>1 DEF SentOnce
<1>3. ASSUME NEW a \in Approvals
      PROVE  /\ approval[a].answer \notin {"", "deny"} => approval[a].answer = accepted[a]
             /\ accepted[a] # "" /\ approval[a].answer # "" /\ approval[a].answer # accepted[a]
                  => now >= approval[a].deadline \/ event[a].status # "sent"
  <2>1. Chosen(a)
    BY DEF DeliveryInv
  <2> QED BY <2>1 DEF Chosen
<1> QED BY <1>1, <1>2, <1>3 DEF AlertedOnce, AnsweredAsChosen

\* The tables of events, rows and approvals keep their types, the queue its bound, and
\* an approval's clock stays within its deadline and its expiry (service.py, store.py).
THEOREM DeliveryTyping ==
  ASSUME DeliveryAssumption
  PROVE  DeliverySpec => []DeliveryTypeOK
BY DeliveryShows, DeliverySafety, PTL

\* A device is sent the alert of an event in one round at most, however often the event is
\* enqueued and whatever the process that began it died of: deliver writes the row before
\* it sends, and a device with a row is not sent to again.
THEOREM AlertedAtMostOnce ==
  ASSUME DeliveryAssumption
  PROVE  DeliverySpec => []AlertedOnce
BY DeliveryShows, DeliverySafety, PTL

\* Hermes is told the choice the dashboard accepted and no other; an accepted choice is
\* overruled only past the deadline or when the alert reached no device, so that no
\* thread waits for it (LoopdyApprovalTransport.present, respond_approval).
THEOREM HermesToldAsChosen ==
  ASSUME DeliveryAssumption
  PROVE  DeliverySpec => []AnsweredAsChosen
BY DeliveryShows, DeliverySafety, PTL
-----------------------------------------------------------------------------
(* LiveActivityPush.                                                        *)

Holding == {"ready", "wire", "settle"}
EndsIt(w) == \/ worker[w].last = "invalid"
             \/ worker[w].last = "ok" /\ worker[w].phase \in TerminalPhases

\* A deferred update is one of the registration there is.
Deferred == pending # NoPending => pending.gen = activity.gen /\ pending.status \in Phases

\* The worker with the lock pushes to a registration that is not newer than the row and, if
\* it is that of the row, that row's deferred update has not moved; what it pushes to has
\* not ended, but for what it is about to settle, which has a reason to end.
Pushes(w) ==
  /\ lock = w <=> worker[w].at \in Holding
  /\ lock = w =>
       /\ worker[w].gen <= activity.gen
       /\ worker[w].at = "ready" => worker[w].try < MaxTries
       /\ worker[w].gen = activity.gen /\ worker[w].rid # 0 => Matches(w)
       /\ worker[w].at = "settle" /\ EndsIt(w) => worker[w].gen \in blamed
       /\ worker[w].gen \in finished =>
            worker[w].at = "settle" /\ worker[w].last = "ok" /\ worker[w].phase \in TerminalPhases
  /\ worker[w].at \in {"found"} \cup Holding => worker[w].phase \in Phases

\* A registration whose terminal update was taken is over, or its row is about to end.
Finished(g) ==
  /\ g <= activity.gen
  /\ g = activity.gen /\ activity.active => lock \in Workers /\ worker[lock].gen = g

PushInv ==
  /\ PushTypeOK /\ Deferred
  /\ \A w \in Workers : Pushes(w)
  /\ \A g \in finished : Finished(g)
  /\ EndedForItself /\ NothingAfterTheEnd

Worked == [at: {"idle", "found", "due", "ready", "wire", "settle"},
           phase: Phases \cup {"none"}, owner: Owners \cup {NoOwner},
           gen: Generation, rid: Nat, try: 0..MaxTries,
           last: {"", "ok", "retry", "refused", "invalid"}]

LEMMA PushTypes ==
  ASSUME PushAssumption, PushInv
  PROVE  /\ activity \in [gen: Generation, owner: Owners \cup {NoOwner}, active: BOOLEAN, stamp: 0..MaxStamp]
         /\ activity.gen \in Nat /\ MaxTries \in Nat \ {0} /\ MaxAttempts \in Nat \ {0}
         /\ pending \in [status: Phases \cup {"none"}, attempts: 0..MaxAttempts, gen: Generation, rid: Nat]
         /\ lock \in Workers \cup {NoWorker} /\ worker \in [Workers -> Worked] /\ rids \in Nat
         /\ \A w \in Workers : worker[w] \in Worked /\ worker[w].gen \in Nat /\ worker[w].try \in Nat
         /\ finished \subseteq Generation /\ blamed \subseteq Generation
         /\ NoWorker \notin Workers /\ NotPushing \in Worked
<1>1. Generation \subseteq Nat /\ 0 \in Generation /\ MaxTries \in Nat \ {0} /\ MaxAttempts \in Nat \ {0}
  BY DEF PushAssumption, Generation
<1>2. NotPushing \in Worked
  BY <1>1 DEF NotPushing, Worked
<1>3. worker \in [Workers -> Worked]
  BY DEF PushInv, PushTypeOK, Worked
<1>4. \A w \in Workers : worker[w] \in Worked
  BY <1>3
<1>5. ASSUME NEW w \in Workers PROVE worker[w].gen \in Nat /\ worker[w].try \in Nat
  <2>1. worker[w].gen \in Generation
    BY <1>4 DEF Worked
  <2>2. worker[w].try \in 0 .. MaxTries
    BY <1>4 DEF Worked
  <2>3. worker[w].gen \in Nat
    BY <2>1, <1>1
  <2>4. worker[w].try \in Nat
    BY <2>2, <1>1
  <2> QED BY <2>3, <2>4
<1>6. activity.gen \in Nat
  BY <1>1 DEF PushInv, PushTypeOK
<1> QED BY <1>1, <1>2, <1>3, <1>4, <1>5, <1>6 DEF PushInv, PushTypeOK, PushAssumption

LEMMA IdleIs == NotPushing.at = "idle" /\ NotPushing.rid = 0 /\ NotPushing.try = 0 /\ NotPushing.last = "" /\ NotPushing.at \notin Holding
BY DEF NotPushing, Holding

\* A step of one worker, told by the record it leaves and what it does to the rows.
LEMMA WorkerTypes ==
  ASSUME PushAssumption, PushInv, NEW w \in Workers, NEW r \in Worked,
         worker' = [worker EXCEPT ![w] = r]
  PROVE  /\ worker' \in [Workers -> Worked] /\ worker'[w] = r
         /\ \A v \in Workers \ {w} : worker'[v] = worker[v]
BY PushTypes

LEMMA RegisterKeeps ==
  ASSUME PushAssumption, PushInv, NEW o \in Owners, Register(o)
  PROVE  PushInv'
<1>0. /\ activity' = [activity EXCEPT !.gen = @ + 1, !.owner = o, !.active = TRUE]
      /\ activity.gen < MaxRegistrations /\ pending' = NoPending
      /\ UNCHANGED <<lock, worker, rids, finished, blamed, overrun>>
  BY DEF Register
<1>1. activity'.gen = activity.gen + 1 /\ activity'.active
  BY <1>0, PushTypes
<1>2. PushTypeOK'
  <2>1. activity.gen + 1 \in Generation /\ 0 \in Generation
    BY <1>0, PushTypes DEF Generation, PushAssumption
  <2>2. activity' \in [gen: Generation, owner: Owners \cup {NoOwner}, active: BOOLEAN, stamp: 0..MaxStamp]
    BY <1>0, <2>1, PushTypes
  <2>3. pending' \in [status: Phases \cup {"none"}, attempts: 0..MaxAttempts, gen: Generation, rid: Nat]
    BY <1>0, <2>1 DEF NoPending, PushAssumption
  <2> QED BY <1>0, <2>2, <2>3 DEF PushTypeOK, PushInv
<1>3. Deferred' /\ EndedForItself' /\ NothingAfterTheEnd'
  BY <1>0, <1>1 DEF Deferred, EndedForItself, NothingAfterTheEnd, PushInv
<1>4. ASSUME NEW w \in Workers PROVE Pushes(w)'
  <2>1. Pushes(w) /\ worker[w].gen \in Nat /\ activity.gen \in Nat
    BY PushTypes DEF PushInv
  <2>2. lock = w => worker[w].gen <= activity.gen
    BY <2>1 DEF Pushes
  <2> QED BY <1>0, <1>1, <2>1, <2>2 DEF Pushes, EndsIt
<1>5. ASSUME NEW g \in finished PROVE Finished(g)'
  <2>1. g \in Nat /\ activity.gen \in Nat /\ g <= activity.gen
    BY PushTypes DEF PushInv, Finished, Generation
  <2> QED BY <2>1, <1>0, <1>1 DEF Finished
<1> QED BY <1>0, <1>2, <1>3, <1>4, <1>5 DEF PushInv

LEMMA OtherKept ==
  ASSUME NEW v \in Workers, Pushes(v), worker'[v] = worker[v],
         \/ lock # v /\ lock' # v
         \/ UNCHANGED <<lock, activity, pending, finished, blamed>>
  PROVE  Pushes(v)'
BY DEF Pushes, EndsIt, Matches

\* A worker that has not the lock changes none of the rows.
LEMMA FindKeeps ==
  ASSUME PushAssumption, PushInv, NEW w \in Workers,
         (\E status \in Phases : Find(w, status)) \/ FindDue(w)
  PROVE  PushInv'
<1>0. PICK r \in Worked :
        /\ worker' = [worker EXCEPT ![w] = r] /\ r.at \in {"found", "due"}
        /\ r.at = "found" => r.phase \in Phases
        /\ UNCHANGED <<lock, activity, pending, rids, finished, blamed, overrun>>
        /\ worker[w] = NotPushing
  <2>1. ASSUME NEW status \in Phases, Find(w, status)
        PROVE  [NotPushing EXCEPT !.at = "found", !.phase = status, !.owner = activity.owner] \in Worked
    BY PushTypes DEF NotPushing, Worked
  <2>2. [NotPushing EXCEPT !.at = "due"] \in Worked
    BY PushTypes DEF NotPushing, Worked
  <2>3. CASE \E status \in Phases : Find(w, status)
    <3>1. PICK status \in Phases : Find(w, status)
      BY <2>3
    <3> DEFINE r == [NotPushing EXCEPT !.at = "found", !.phase = status, !.owner = activity.owner]
    <3>2. r.at = "found" /\ r.phase = status
      BY DEF NotPushing
    <3> QED BY <2>1, <3>1, <3>2 DEF Find
  <2>4. CASE FindDue(w)
    <3> DEFINE r == [NotPushing EXCEPT !.at = "due"]
    <3>1. r.at = "due"
      BY DEF NotPushing
    <3> QED BY <2>2, <2>4, <3>1 DEF FindDue
  <2> QED BY <2>3, <2>4
<1>1. worker' \in [Workers -> Worked] /\ worker'[w] = r /\ \A v \in Workers \ {w} : worker'[v] = worker[v]
  BY <1>0, WorkerTypes
<1>2. PushTypeOK'
  BY <1>0, <1>1 DEF PushInv, PushTypeOK, Worked
<1>3. Deferred' /\ EndedForItself' /\ NothingAfterTheEnd'
  BY <1>0 DEF PushInv, Deferred, EndedForItself, NothingAfterTheEnd
<1>4. lock # w
  <2>1. Pushes(w)
    BY DEF PushInv
  <2> QED BY <2>1, <1>0, IdleIs DEF Pushes
<1>5. ASSUME NEW v \in Workers PROVE Pushes(v)'
  <2>1. CASE v = w
    BY <2>1, <1>0, <1>1, <1>4 DEF Pushes, Holding
  <2>2. CASE v # w
    BY <2>2, <1>0, <1>1, OtherKept DEF PushInv
  <2> QED BY <2>1, <2>2
<1>6. ASSUME NEW g \in finished PROVE Finished(g)'
  BY <1>0, <1>1, <1>4 DEF Finished, PushInv
<1> QED BY <1>0, <1>2, <1>3, <1>5, <1>6 DEF PushInv

LEMMA EnterKeeps ==
  ASSUME PushAssumption, PushInv, NEW w \in Workers, Enter(w) \/ EnterDue(w)
  PROVE  PushInv'
<1>0. /\ lock = NoWorker /\ lock # w /\ worker[w].at \notin Holding
      /\ UNCHANGED <<activity, rids, finished, blamed, overrun>>
  BY PushTypes DEF Enter, EnterDue, Holding
<1>d. Deferred /\ Pushes(w)
  BY DEF PushInv
<1>1. PICK r \in Worked :
        /\ worker' = [worker EXCEPT ![w] = r]
        /\ pending' \in {pending, NoPending}
        /\ \/ r = NotPushing /\ lock' = lock
           \/ /\ lock' = w /\ r.at = "ready" /\ r.try = 0 /\ r.gen = activity.gen
              /\ activity.active /\ r.phase \in Phases
              /\ r.rid # 0 => pending' # NoPending /\ pending'.gen = r.gen /\ pending'.rid = r.rid
  <2> DEFINE Made(status, p) == [NotPushing EXCEPT !.at = "ready", !.phase = status, !.owner = activity.owner,
                                            !.gen = activity.gen, !.rid = p.rid]
  <2>1. ASSUME NEW status \in Phases, NEW p, p.rid \in Nat
        PROVE  /\ Made(status, p) \in Worked /\ Made(status, p).at = "ready" /\ Made(status, p).try = 0
               /\ Made(status, p).gen = activity.gen /\ Made(status, p).rid = p.rid
               /\ Made(status, p).phase = status
    BY <2>1, PushTypes DEF NotPushing, Worked
  <2>2. CASE Enter(w)
    <3>1. worker[w].phase \in Phases /\ NoPending.rid = 0
      BY <2>2, <1>d DEF Enter, Pushes, NoPending
    <3>2. CASE Current(w) /\ (pending = NoPending \/ GivesWay(pending, worker[w].phase))
      <4>1. /\ lock' = w /\ pending' = NoPending /\ activity.active
            /\ worker' = [worker EXCEPT ![w] = Made(worker[w].phase, NoPending)]
        BY <2>2, <3>2 DEF Enter, Ready, Current
      <4> DEFINE new == Made(worker[w].phase, NoPending)
      <4>2. /\ new \in Worked /\ new.at = "ready" /\ new.try = 0 /\ new.gen = activity.gen
            /\ new.rid = 0 /\ new.phase \in Phases
        <5>1. NoPending.rid \in Nat
          BY <3>1
        <5> HIDE DEF Made
        <5> QED BY <5>1, <3>1, <2>1
      <4> HIDE DEF Made
      <4>3. worker' = [worker EXCEPT ![w] = new]
        BY <4>1
      <4> HIDE DEF new
      <4> QED BY <4>1, <4>2, <4>3
    <3>3. CASE ~(Current(w) /\ (pending = NoPending \/ GivesWay(pending, worker[w].phase)))
      <4>1. lock' = lock /\ pending' = pending /\ worker' = [worker EXCEPT ![w] = NotPushing]
        BY <2>2, <3>3 DEF Enter
      <4> QED BY <4>1, PushTypes
    <3> QED BY <3>2, <3>3
  <2>3. CASE EnterDue(w)
    <3>1. CASE activity.active /\ pending # NoPending
      <4>1. /\ lock' = w /\ pending' = pending
            /\ worker' = [worker EXCEPT ![w] = Made(pending.status, pending)]
        BY <2>3, <3>1 DEF EnterDue, Ready
      <4>2. pending.status \in Phases /\ pending.gen = activity.gen /\ pending.rid \in Nat
        BY <3>1, <1>d, PushTypes DEF Deferred
      <4> DEFINE new == Made(pending.status, pending)
      <4>3. /\ new \in Worked /\ new.at = "ready" /\ new.try = 0 /\ new.gen = activity.gen
            /\ new.rid = pending.rid /\ new.phase \in Phases
        BY <4>2, <2>1
      <4> HIDE DEF Made
      <4>4. worker' = [worker EXCEPT ![w] = new]
        BY <4>1
      <4> HIDE DEF new
      <4> QED BY <4>1, <4>2, <4>3, <4>4, <3>1
    <3>2. CASE ~(activity.active /\ pending # NoPending)
      <4>1. lock' = lock /\ pending' = pending /\ worker' = [worker EXCEPT ![w] = NotPushing]
        BY <2>3, <3>2 DEF EnterDue
      <4> QED BY <4>1, PushTypes
    <3> QED BY <3>1, <3>2
  <2> QED BY <2>2, <2>3
<1>2. worker' \in [Workers -> Worked] /\ worker'[w] = r /\ \A v \in Workers \ {w} : worker'[v] = worker[v]
  BY <1>1, WorkerTypes
<1>3. PushTypeOK'
  <2>1. pending' \in [status: Phases \cup {"none"}, attempts: 0..MaxAttempts, gen: Generation, rid: Nat]
    <3>1. NoPending \in [status: Phases \cup {"none"}, attempts: 0..MaxAttempts, gen: Generation, rid: Nat]
      BY DEF NoPending, PushAssumption, Generation
    <3> QED BY <3>1, <1>1, PushTypes
  <2>2. lock' \in Workers \cup {NoWorker}
    BY <1>0, <1>1
  <2> QED BY <2>1, <2>2, <1>0, <1>2 DEF PushInv, PushTypeOK, Worked
<1>4. Deferred' /\ EndedForItself' /\ NothingAfterTheEnd'
  BY <1>0, <1>1, <1>d DEF PushInv, Deferred, EndedForItself, NothingAfterTheEnd
<1>f. \A g \in finished : g = activity.gen => ~activity.active
  BY <1>0, PushTypes DEF PushInv, Finished
<1>5. ASSUME NEW v \in Workers PROVE Pushes(v)'
  <2>1. CASE v = w
    <3>1. CASE r = NotPushing /\ lock' = lock
      <4>1. worker'[w].at = "idle" /\ lock' # w
        BY <3>1, <1>0, <1>2, IdleIs
      <4> QED BY <2>1, <4>1 DEF Pushes, Holding
    <3>2. CASE ~(r = NotPushing /\ lock' = lock)
      <4>1. /\ lock' = w /\ r.at = "ready" /\ r.try = 0 /\ r.gen = activity.gen /\ activity.active
            /\ r.rid # 0 => pending' # NoPending /\ pending'.gen = r.gen /\ pending'.rid = r.rid
            /\ r.phase \in Phases
        BY <3>2, <1>1
      <4>2. r.gen \notin finished /\ r.gen <= activity'.gen /\ 0 < MaxTries
        BY <4>1, <1>0, <1>f, PushTypes
      <4> QED BY <2>1, <4>1, <4>2, <1>0, <1>2 DEF Pushes, Holding, Matches
    <3> QED BY <3>1, <3>2
  <2>2. CASE v # w
    <3>1. lock # v /\ lock' # v
      BY <2>2, <1>0, <1>1, PushTypes
    <3> QED BY <2>2, <3>1, <1>2, OtherKept DEF PushInv
  <2> QED BY <2>1, <2>2
<1>6. ASSUME NEW g \in finished PROVE Finished(g)'
  BY <1>0, <1>f DEF Finished, PushInv
<1> QED BY <1>0, <1>3, <1>4, <1>5, <1>6 DEF PushInv

LEMMA AttemptKeeps ==
  ASSUME PushAssumption, PushInv, NEW w \in Workers, Attempt(w)
  PROVE  PushInv'
<1>d. Deferred /\ Pushes(w) /\ worker[w] \in Worked
  BY PushTypes DEF PushInv
<1>0. worker[w].at = "ready" /\ lock = w /\ UNCHANGED <<pending, lock, rids, finished, blamed, overrun>>
  BY <1>d DEF Attempt, Pushes, Holding
<1>1. PICK r \in Worked :
        /\ worker' = [worker EXCEPT ![w] = r]
        /\ r.gen = worker[w].gen /\ r.rid = worker[w].rid /\ r.phase = worker[w].phase
        /\ r.at = "wire" \/ (r.at = "settle" /\ r.last = "refused")
        /\ activity'.gen = activity.gen /\ activity'.active = activity.active
        /\ activity' \in [gen: Generation, owner: Owners \cup {NoOwner}, active: BOOLEAN, stamp: 0..MaxStamp]
  <2>1. CASE Mine(w)
    <3> DEFINE r == [worker[w] EXCEPT !.at = "wire", !.try = @ + 1]
    <3>1. worker[w].try + 1 \in 0 .. MaxTries
      BY <1>0, <1>d, PushTypes DEF Pushes
    <3>2. r \in Worked
      BY <3>1, <1>d DEF Worked
    <3>3. /\ r.gen = worker[w].gen /\ r.rid = worker[w].rid /\ r.phase = worker[w].phase
          /\ r.at = "wire"
      BY <1>d DEF Worked
    <3>4. worker' = [worker EXCEPT ![w] = r]
      BY <2>1, PushTypes DEF Attempt
    <3>5. activity' = [activity EXCEPT !.stamp = @ + 1] /\ activity.stamp < MaxStamp
      BY <2>1 DEF Attempt
    <3>6. activity.stamp + 1 \in 0 .. MaxStamp
      <4>1. activity.stamp \in 0 .. MaxStamp /\ MaxStamp \in Nat
        BY PushTypes DEF PushAssumption
      <4> QED BY <4>1, <3>5
    <3>7. /\ activity'.gen = activity.gen /\ activity'.active = activity.active
          /\ activity' \in [gen: Generation, owner: Owners \cup {NoOwner}, active: BOOLEAN, stamp: 0..MaxStamp]
      BY <3>5, <3>6, PushTypes
    <3> HIDE DEF r
    <3> QED BY <3>2, <3>3, <3>4, <3>7
  <2>2. CASE ~Mine(w)
    <3> DEFINE r == [worker[w] EXCEPT !.at = "settle", !.last = "refused"]
    <3>2. r \in Worked
      BY <1>d DEF Worked
    <3>3. /\ r.gen = worker[w].gen /\ r.rid = worker[w].rid /\ r.phase = worker[w].phase
          /\ r.at = "settle" /\ r.last = "refused"
      BY <1>d DEF Worked
    <3>4. worker' = [worker EXCEPT ![w] = r] /\ activity' = activity
      BY <2>2, PushTypes DEF Attempt
    <3> HIDE DEF r
    <3> QED BY <3>2, <3>3, <3>4, PushTypes
  <2> QED BY <2>1, <2>2
<1>2. worker' \in [Workers -> Worked] /\ worker'[w] = r /\ \A v \in Workers \ {w} : worker'[v] = worker[v]
  BY <1>1, WorkerTypes
<1>3. PushTypeOK'
  BY <1>0, <1>1, <1>2 DEF PushInv, PushTypeOK, Worked
<1>4. Deferred' /\ EndedForItself' /\ NothingAfterTheEnd'
  BY <1>0, <1>1, <1>d DEF PushInv, Deferred, EndedForItself, NothingAfterTheEnd
<1>5. ASSUME NEW v \in Workers PROVE Pushes(v)'
  <2>1. CASE v = w
    <3>1. worker[w].gen \notin finished
      BY <1>0, <1>d DEF Pushes
    <3> QED BY <2>1, <3>1, <1>0, <1>1, <1>2, <1>d DEF Pushes, Holding, Matches, EndsIt
  <2>2. CASE v # w
    BY <2>2, <1>0, <1>2, OtherKept DEF PushInv
  <2> QED BY <2>1, <2>2
<1>6. ASSUME NEW g \in finished PROVE Finished(g)'
  BY <1>0, <1>1, <1>2 DEF Finished, PushInv
<1> QED BY <1>0, <1>3, <1>4, <1>5, <1>6 DEF PushInv

LEMMA AnsweredKeeps ==
  ASSUME PushAssumption, PushInv, NEW w \in Workers, NEW took \in BOOLEAN,
         NEW says \in {"ok", "retry", "refused", "invalid"}, Answered(w, took, says)
  PROVE  PushInv'
<1> DEFINE ends == says = "ok" /\ worker[w].phase \in TerminalPhases
           r == [worker[w] EXCEPT !.last = says,
                   !.at = IF says = "retry" /\ worker[w].try < MaxTries THEN "ready" ELSE "settle"]
<1>d. Deferred /\ Pushes(w) /\ worker[w] \in Worked /\ worker[w].gen \in Generation
  BY PushTypes DEF PushInv, Worked
<1>0. /\ worker[w].at = "wire" /\ lock = w /\ worker[w].gen \notin finished
      /\ UNCHANGED <<activity, pending, lock, rids>>
  BY <1>d DEF Answered, Pushes, Holding
<1>1. /\ r \in Worked /\ r.gen = worker[w].gen /\ r.rid = worker[w].rid
      /\ r.phase = worker[w].phase /\ r.last = says /\ r.at \in {"ready", "settle"}
      /\ r.at = "ready" => worker[w].try < MaxTries /\ says = "retry"
      /\ r.try = worker[w].try
  BY <1>d DEF Worked
<1>w. worker' = [worker EXCEPT ![w] = r]
  BY PushTypes DEF Answered
<1>h. /\ finished' = IF ends THEN finished \cup {worker[w].gen} ELSE finished
      /\ blamed' = IF says = "invalid" \/ ends THEN blamed \cup {worker[w].gen} ELSE blamed
      /\ ~overrun'
  <2>1. finished' = IF ends THEN finished \cup {worker[w].gen} ELSE finished
    BY DEF Answered
  <2>2. blamed' = IF says = "invalid" \/ ends THEN blamed \cup {worker[w].gen} ELSE blamed
    BY DEF Answered
  <2>3. ~overrun'
    BY <1>0 DEF Answered, PushInv, NothingAfterTheEnd
  <2> QED BY <2>1, <2>2, <2>3
<1> HIDE DEF r
<1>2. worker' \in [Workers -> Worked] /\ worker'[w] = r /\ \A v \in Workers \ {w} : worker'[v] = worker[v]
  BY <1>1, <1>w, WorkerTypes
<1>3. PushTypeOK'
  BY <1>0, <1>h, <1>d, <1>2 DEF PushInv, PushTypeOK, Worked
<1>4. Deferred' /\ EndedForItself' /\ NothingAfterTheEnd'
  BY <1>0, <1>h, <1>d DEF PushInv, Deferred, EndedForItself, NothingAfterTheEnd
<1>5. ASSUME NEW v \in Workers PROVE Pushes(v)'
  <2>1. CASE v = w
    <3>1. r.last = "ok" /\ r.phase \in TerminalPhases <=> ends
      BY <1>1
    <3>2. r.at = "settle" /\ (r.last = "invalid" \/ ends) => r.gen \in blamed'
      BY <1>1, <1>h
    <3>3. r.gen \in finished' => ends
      BY <1>0, <1>1, <1>h
    <3>4. ends => r.at = "settle"
      BY <1>1
    <3> HIDE DEF ends
    <3> QED BY <2>1, <3>1, <3>2, <3>3, <3>4, <1>0, <1>1, <1>2, <1>d DEF Pushes, Holding, Matches, EndsIt
  <2>2. CASE v # w
    BY <2>2, <1>0, <1>2, OtherKept DEF PushInv
  <2> QED BY <2>1, <2>2
<1>6. ASSUME NEW g \in finished' PROVE Finished(g)'
  <2>1. CASE g \in finished
    BY <2>1, <1>0, <1>1, <1>2 DEF Finished, PushInv
  <2>2. CASE g \notin finished
    <3>1. g = worker[w].gen
      BY <2>2, <1>h
    <3> QED BY <3>1, <1>0, <1>1, <1>2, <1>d DEF Finished, Pushes
  <2> QED BY <2>1, <2>2
<1> QED BY <1>3, <1>4, <1>5, <1>6 DEF PushInv

\* A worker that gives the lock back, when it settles the row or dies, leaves the other
\* workers as they were; what it had finished is over.
LEMMA FreedKeeps ==
  ASSUME PushAssumption, PushInv, NEW w \in Workers,
         worker' = [worker EXCEPT ![w] = NotPushing], lock' = IF lock = w THEN NoWorker ELSE lock,
         activity' \in [gen: Generation, owner: Owners \cup {NoOwner}, active: BOOLEAN, stamp: 0..MaxStamp],
         pending' \in [status: Phases \cup {"none"}, attempts: 0..MaxAttempts, gen: Generation, rid: Nat],
         Deferred', EndedForItself', rids' \in Nat, overrun' = overrun, blamed' = blamed,
         finished' \subseteq finished,
         activity'.gen = activity.gen, activity'.active => activity.active,
         lock # w => UNCHANGED <<activity, pending, finished>>,
         lock = w /\ worker[w].gen = activity.gen /\ activity'.active => worker[w].gen \notin finished'
  PROVE  PushInv'
<1>1. worker' \in [Workers -> Worked] /\ worker'[w] = NotPushing /\ \A v \in Workers \ {w} : worker'[v] = worker[v]
  BY WorkerTypes, PushTypes
<1>2. PushTypeOK'
  BY <1>1, PushTypes DEF PushTypeOK, Worked
<1>3. NothingAfterTheEnd'
  BY DEF NothingAfterTheEnd, PushInv
<1>4. ASSUME NEW v \in Workers PROVE Pushes(v)'
  <2>1. CASE v = w
    <3>1. worker'[v].at = "idle" /\ lock' # v
      BY <2>1, <1>1, IdleIs, PushTypes
    <3> QED BY <3>1 DEF Pushes, Holding
  <2>2. CASE v # w
    <3>1. \/ lock # v /\ lock' # v
          \/ UNCHANGED <<lock, activity, pending, finished, blamed>>
      BY <2>2, PushTypes
    <3> QED BY <2>2, <3>1, <1>1, OtherKept DEF PushInv
  <2> QED BY <2>1, <2>2
<1>5. ASSUME NEW g \in finished' PROVE Finished(g)'
  <2>1. Finished(g)
    BY DEF PushInv
  <2>2. ASSUME g = activity.gen, activity'.active PROVE lock' \in Workers /\ worker'[lock'].gen = g
    <3>1. lock \in Workers /\ worker[lock].gen = g
      BY <2>1, <2>2 DEF Finished
    <3>2. lock # w
      BY <2>2, <3>1
    <3> QED BY <3>1, <3>2, <1>1
  <2> QED BY <2>1, <2>2 DEF Finished
<1> QED BY <1>2, <1>3, <1>4, <1>5 DEF PushInv

LEMMA SettleKeeps ==
  ASSUME PushAssumption, PushInv, NEW w \in Workers,
         EndActivity(w) \/ ClearPending(w) \/ Defer(w)
  PROVE  PushInv'
<1>d. Deferred /\ Pushes(w) /\ EndedForItself
  BY DEF PushInv
<1>0. /\ worker[w].at = "settle" /\ lock = w /\ UNCHANGED <<finished, blamed, overrun>>
      /\ worker' = [worker EXCEPT ![w] = NotPushing] /\ lock' = NoWorker
      /\ rids' \in Nat
  <2>1. /\ worker[w].at = "settle" /\ UNCHANGED <<finished, blamed, overrun>>
        /\ worker' = [worker EXCEPT ![w] = NotPushing] /\ lock' = NoWorker
    BY DEF EndActivity, ClearPending, Defer, Released
  <2>2. rids' \in {rids, rids + 1}
    BY DEF EndActivity, ClearPending, Defer
  <2> QED BY <2>1, <2>2, <1>d, PushTypes DEF Pushes, Holding
<1>n. NoPending \in [status: Phases \cup {"none"}, attempts: 0..MaxAttempts, gen: Generation, rid: Nat]
  BY DEF NoPending, PushAssumption, Generation
<1>1. CASE EndActivity(w)
  <2>1. CASE MayEnd(w)
    <3>1. activity' = [activity EXCEPT !.active = FALSE] /\ pending' = NoPending
      BY <1>1, <2>1 DEF EndActivity
    <3>2. activity.gen = worker[w].gen /\ worker[w].gen \in blamed
      BY <1>0, <1>1, <2>1, <1>d DEF EndActivity, MayEnd, Pushes, EndsIt
    <3>3. activity'.gen = activity.gen /\ ~activity'.active
          /\ activity' \in [gen: Generation, owner: Owners \cup {NoOwner}, active: BOOLEAN, stamp: 0..MaxStamp]
      BY <3>1, PushTypes
    <3>4. Deferred' /\ EndedForItself'
      BY <3>1, <3>2, <3>3, <1>0 DEF Deferred, EndedForItself
    <3> QED BY <1>0, <1>n, <3>1, <3>3, <3>4, FreedKeeps
  <2>2. CASE ~MayEnd(w)
    <3>1. UNCHANGED <<activity, pending>>
      BY <1>1, <2>2 DEF EndActivity
    <3>2. worker[w].gen # activity.gen
      BY <1>0, <2>2, <1>d DEF MayEnd, Pushes
    <3>3. Deferred' /\ EndedForItself'
      BY <3>1, <1>0, <1>d DEF Deferred, EndedForItself
    <3> QED BY <1>0, <3>1, <3>2, <3>3, FreedKeeps, PushTypes
  <2> QED BY <2>1, <2>2
<1>f. CASE ClearPending(w) \/ Defer(w)
  <2>1. worker[w].gen \notin finished
    BY <1>0, <1>f, <1>d DEF ClearPending, Defer, Pushes
  <2>2. activity' = activity
    BY <1>f DEF ClearPending, Defer
  <2>3. /\ pending' \in [status: Phases \cup {"none"}, attempts: 0..MaxAttempts, gen: Generation, rid: Nat]
        /\ Deferred'
    <3>1. CASE ClearPending(w)
      BY <3>1, <2>2, <1>n, <1>d, PushTypes DEF ClearPending, Deferred
    <3>2. CASE Defer(w) /\ MayDefer(w)
      <4> DEFINE count == IF Counted(w) > MaxAttempts THEN MaxAttempts ELSE Counted(w)
      <4>1. pending' = [status |-> worker[w].phase, gen |-> activity.gen, rid |-> rids + 1,
                        attempts |-> count] /\ rids' = rids + 1
        BY <3>2 DEF Defer
      <4>2. count \in 0 .. MaxAttempts
        <5>1. pending.attempts \in 0 .. MaxAttempts
          BY PushTypes
        <5>2. Counted(w) \in Nat
          BY <5>1, PushTypes DEF Counted
        <5> QED BY <5>2, PushTypes
      <4>3. worker[w].phase \in Phases /\ activity.gen \in Generation
        BY <1>0, <1>d, PushTypes DEF Pushes, Holding
      <4>4. pending'.gen = activity.gen /\ pending'.status \in Phases
        BY <4>1, <4>3
      <4>5. pending' \in [status: Phases \cup {"none"}, attempts: 0..MaxAttempts, gen: Generation, rid: Nat]
        <5>1. rids + 1 \in Nat
          BY PushTypes
        <5> HIDE DEF count
        <5> QED BY <4>1, <4>2, <4>3, <5>1
      <4> QED BY <4>4, <4>5, <2>2 DEF Deferred
    <3>3. CASE Defer(w) /\ ~MayDefer(w)
      BY <3>3, <2>2, <1>d, PushTypes DEF Defer, Deferred
    <3> QED BY <1>f, <3>1, <3>2, <3>3
  <2>4. EndedForItself'
    BY <2>2, <1>0, <1>d DEF EndedForItself
  <2> QED BY <1>0, <2>1, <2>2, <2>3, <2>4, FreedKeeps, PushTypes
<1> QED BY <1>1, <1>f

LEMMA DiesKeeps ==
  ASSUME PushAssumption, PushInv, NEW w \in Workers, Dies(w)
  PROVE  PushInv'
<1>1. /\ worker' = [worker EXCEPT ![w] = NotPushing] /\ lock' = IF lock = w THEN NoWorker ELSE lock
      /\ finished' = IF lock = w THEN finished \ {worker[w].gen} ELSE finished
      /\ UNCHANGED <<activity, pending, rids, blamed, overrun>>
  BY DEF Dies
<1>2. Deferred' /\ EndedForItself'
  BY <1>1 DEF PushInv, Deferred, EndedForItself
<1> QED BY <1>1, <1>2, FreedKeeps, PushTypes

LEMMA PushBegins == ASSUME PushAssumption, PushInit PROVE PushInv
<1>0. /\ 0 \in Generation /\ 0 \in 0 .. MaxTries /\ 0 \in 0 .. MaxAttempts /\ 0 \in 0 .. MaxStamp
      /\ NoWorker \notin Workers
  BY DEF PushAssumption, Generation
<1>1. activity.gen = 0 /\ lock = NoWorker /\ finished = {} /\ blamed = {} /\ ~overrun
  BY DEF PushInit
<1>2. \A w \in Workers : worker[w] = NotPushing
  BY DEF PushInit
<1>3. PushTypeOK
  <2>1. /\ activity \in [gen: Generation, owner: Owners \cup {NoOwner}, active: BOOLEAN, stamp: 0..MaxStamp]
        /\ pending \in [status: Phases \cup {"none"}, attempts: 0..MaxAttempts, gen: Generation, rid: Nat]
    BY <1>0 DEF PushInit, NoPending
  <2>2. NotPushing \in Worked
    BY <1>0 DEF NotPushing, Worked
  <2>3. worker \in [Workers -> Worked]
    BY <2>2 DEF PushInit
  <2> QED BY <1>1, <2>1, <2>3 DEF PushInit, PushTypeOK, Worked
<1>4. \A w \in Workers : Pushes(w)
  BY <1>0, <1>1, <1>2, IdleIs DEF Pushes, Holding
<1> QED BY <1>1, <1>3, <1>4 DEF PushInit, PushInv, Deferred, EndedForItself, NothingAfterTheEnd

LEMMA PushGoesOn == ASSUME PushAssumption, PushInv, [PushNext]_pushVars PROVE PushInv'
<1>1. ASSUME NEW o \in Owners, Register(o) PROVE PushInv'
  BY <1>1, RegisterKeeps
<1>2. ASSUME NEW w \in Workers, (\E status \in Phases : Find(w, status)) \/ FindDue(w) PROVE PushInv'
  BY <1>2, FindKeeps
<1>3. ASSUME NEW w \in Workers, Enter(w) \/ EnterDue(w) PROVE PushInv'
  BY <1>3, EnterKeeps
<1>4. ASSUME NEW w \in Workers, Attempt(w) PROVE PushInv'
  BY <1>4, AttemptKeeps
<1>5. ASSUME NEW w \in Workers, NEW took \in BOOLEAN, NEW says \in {"ok", "retry", "refused", "invalid"},
             Answered(w, took, says)
      PROVE  PushInv'
  BY <1>5, AnsweredKeeps
<1>6. ASSUME NEW w \in Workers, EndActivity(w) \/ ClearPending(w) \/ Defer(w) PROVE PushInv'
  BY <1>6, SettleKeeps
<1>7. ASSUME NEW w \in Workers, Dies(w) PROVE PushInv'
  BY <1>7, DiesKeeps
<1>8. CASE UNCHANGED pushVars
  BY <1>8 DEF pushVars, PushInv, PushTypeOK, Deferred, Pushes, EndsIt, Matches, Finished,
     EndedForItself, NothingAfterTheEnd
<1> QED BY <1>1, <1>2, <1>3, <1>4, <1>5, <1>6, <1>7, <1>8 DEF PushNext

LEMMA PushSafety == ASSUME PushAssumption PROVE PushSpec => []PushInv
BY PushBegins, PushGoesOn, PTL DEF PushSpec

\* Types of the rows, the lock and the workers of the direct Live Activity lane.
THEOREM PushTyping == ASSUME PushAssumption PROVE PushSpec => []PushTypeOK
<1>1. PushInv => PushTypeOK
  BY DEF PushInv
<1> QED BY <1>1, PushSafety, PTL

\* Once APNs took the terminal update of a registration, nothing but a terminal update of it
\* is pushed by any process, though a registration may come in the middle of a push and
\* deferred updates are found again: unless the process died before it ended the row.
THEOREM EndIsLast == ASSUME PushAssumption PROVE PushSpec => []NothingAfterTheEnd
<1>1. PushInv => NothingAfterTheEnd
  BY DEF PushInv
<1> QED BY <1>1, PushSafety, PTL

\* A registration ends for its own terminal update or its own dead token only; what is
\* answered to an older one ends nothing (store.py, end_live_activity: owner_generation).
THEOREM OwnEndOnly == ASSUME PushAssumption PROVE PushSpec => []EndedForItself
<1>1. PushInv => EndedForItself
  BY DEF PushInv
<1> QED BY <1>1, PushSafety, PTL
-----------------------------------------------------------------------------
\* The components of one host.

\* A step of the host is one of its alerts, or leaves their tables alone; and the same for
\* its Live Activities.
LEMMA StepOfOne ==
  ASSUME [Step]_allVars
  PROVE  /\ \/ [DeliveryNext]_deliveryVars
            \/ UNCHANGED <<device, event, row, queue, thread, approval, now, rounds, accepted>>
         /\ [PushNext]_pushVars
<1>1. CASE UNCHANGED allVars
  BY <1>1 DEF allVars, pushedVars, alertVars, pushVars
<1>2. CASE Pushing(focus)
  BY <1>2 DEF Pushing, alertVars
<1>3. CASE UNCHANGED pushedVars
  BY <1>3 DEF pushedVars, alertVars, pushVars
<1> QED BY <1>1, <1>2, <1>3 DEF Step

\* What the host pushes, whichever of its components takes steps: alerts go out once and
\* Hermes is answered as the dashboard chose; nothing follows the end of a Live Activity's
\* registration, which its own end or its dead token brings about.
THEOREM PushesStayKept ==
  ASSUME DeliveryAssumption, PushAssumption
  PROVE  Runs => []PushesKept
<1>1. Start => DeliveryInv /\ PushInv
  BY DeliveryBegins, PushBegins DEF Start
<1>2. ASSUME DeliveryInv, PushInv, [Step]_allVars PROVE DeliveryInv' /\ PushInv'
  BY <1>2, StepOfOne, DeliveryGoesOn, DeliveryStands, PushGoesOn
<1>3. DeliveryInv /\ PushInv => PushesKept
  BY DeliveryShows DEF PushInv, PushesKept
<1> QED BY <1>1, <1>2, <1>3, PTL DEF Runs
-----------------------------------------------------------------------------
(* RoomActivity.                                                             *)

Told == [what: Observations \cup Broken, member: Residents]
Numbered == [n: Nat, what: Told]
RoomRow == [state: {"none", "open", "gone"}, scope: Rosters, deadline: Int, events: Seq(Numbered),
            seen: Seq(Told), high: Nat, lost: Nat, drops: Nat]
RoomTypes ==
  /\ hour \in 0..MaxHours /\ registered \subseteq Leases
  /\ feeds \in [StreamIds -> RoomRow]
  /\ asked \in [StreamIds -> [at: {"none", "open", "poll"}, scope: Rosters]]
  /\ reader \in [StreamIds -> [cursor: Nat, state: {"none", "reading", "reset"}]]
  /\ roster \in Rosters /\ observed \in 0..MaxObserved
  /\ owed \in [StreamIds -> Seq(Told)] /\ given \in [StreamIds -> Seq(Told)]

\* A feed buffers the latest observations, numbered without a hole up to the newest.
Buffers(g) ==
  /\ Len(g.events) <= MaxBuffered /\ g.high = g.lost + Len(g.events)
  /\ \A i \in DOMAIN g.events : g.events[i].n = g.lost + i

\* The phone that reads got as much as its cursor says, and nothing but what it was owed; a
\* feed that dropped nothing numbers what it is owed.
Asking(f) ==
  /\ reader[f].state = "none" <=> feeds[f].state = "none"
  /\ reader[f].state = "none" => reader[f].cursor = 0
  /\ asked[f].at = "open" => reader[f].state = "none"
  /\ asked[f].at = "poll" => reader[f].state # "none" /\ (reader[f].state = "reading" \/ feeds[f].state # "open")
Reading(f) ==
  /\ reader[f].cursor <= feeds[f].high
  /\ Len(given[f]) = reader[f].cursor /\ Len(given[f]) <= Len(owed[f])
  /\ \A i \in DOMAIN given[f] : given[f][i] = owed[f][i]
  /\ reader[f].state = "none" => owed[f] = <<>>
  /\ reader[f].state = "reading" /\ feeds[f].state = "open" /\ feeds[f].drops = 0 =>
       /\ Len(owed[f]) = feeds[f].high
       /\ \A i \in DOMAIN feeds[f].events : owed[f][feeds[f].lost + i] = feeds[f].events[i].what

Rooms == RoomTypes /\ \A f \in StreamIds : Buffers(feeds[f]) /\ Asking(f) /\ Reading(f)

LEMMA RoomFacts ==
  ASSUME RoomAssumption
  PROVE  /\ MaxFeeds \in Nat \ {0} /\ MaxBuffered \in Nat \ {0} /\ LeaseSeconds \in Nat \ {0}
         /\ PageLimit \in Nat \ {0} /\ MaxHours \in Nat /\ MaxObserved \in Nat /\ MaxRosters \in Nat
BY DEF RoomAssumption

LEMMA RoomTyped ==
  ASSUME RoomTypes, NEW f \in StreamIds
  PROVE  /\ feeds[f] \in RoomRow /\ feeds[f].events \in Seq(Numbered) /\ Len(feeds[f].events) \in Nat
         /\ feeds[f].seen \in Seq(Told) /\ Len(feeds[f].seen) \in Nat
         /\ feeds[f].high \in Nat /\ feeds[f].lost \in Nat /\ feeds[f].drops \in Nat
         /\ reader[f] \in [cursor: Nat, state: {"none", "reading", "reset"}] /\ reader[f].cursor \in Nat
         /\ owed[f] \in Seq(Told) /\ given[f] \in Seq(Told) /\ Len(owed[f]) \in Nat /\ Len(given[f]) \in Nat
<1>1. /\ feeds[f] \in RoomRow /\ owed[f] \in Seq(Told) /\ given[f] \in Seq(Told)
      /\ reader[f] \in [cursor: Nat, state: {"none", "reading", "reset"}]
  BY DEF RoomTypes
<1>2. /\ feeds[f].events \in Seq(Numbered) /\ feeds[f].seen \in Seq(Told)
      /\ feeds[f].high \in Nat /\ feeds[f].lost \in Nat /\ feeds[f].drops \in Nat
  BY <1>1 DEF RoomRow
<1> QED BY <1>1, <1>2

\* A feed whose buffer a step leaves alone, though the feed may be gone.
Same(g, h) ==
  /\ h.events = g.events /\ h.high = g.high /\ h.lost = g.lost /\ h.drops = g.drops
  /\ h.state = g.state \/ (g.state = "open" /\ h.state = "gone")

\* A feed that is gone, and one that lives as it was.
Gone(g) == IF g.state = "open" THEN [g EXCEPT !.state = "gone"] ELSE g
LEMMA GoneIs ==
  ASSUME NEW g \in RoomRow
  PROVE  Gone(g) \in RoomRow /\ Same(g, Gone(g)) /\ Gone(g).state # "open"
BY DEF Gone, RoomRow, Same

\* The phone is told to start again.
Ends(f) == reader[f].state # "none" /\ reader'[f].state = "reset" /\ reader'[f].cursor = reader[f].cursor

LEMMA FeedGoes ==
  ASSUME Rooms, NEW f \in StreamIds, Same(feeds[f], feeds'[f]), reader'[f] = reader[f] \/ Ends(f),
         owed'[f] = owed[f], given'[f] = given[f],
         \/ asked'[f] = asked[f] /\ (reader'[f] = reader[f] \/ feeds'[f].state # "open")
         \/ asked'[f].at = "open" /\ reader[f].state = "none" /\ reader'[f] = reader[f]
         \/ asked'[f].at = "poll" /\ reader'[f].state = "reading"
         \/ asked'[f].at = "none"
  PROVE  (Buffers(feeds[f]) /\ Asking(f) /\ Reading(f))'
<1>1. Buffers(feeds[f]) /\ Asking(f) /\ Reading(f)
  BY DEF Rooms
<1>2. Buffers(feeds[f])'
  BY <1>1 DEF Buffers, Same
<1>3. Asking(f)'
  BY <1>1 DEF Asking, Same, Ends
<1>4. Reading(f)'
  BY <1>1 DEF Reading, Same, Ends
<1> QED BY <1>2, <1>3, <1>4

\* Only the feeds' states, the phone's and its requests change.
LEMMA FeedsGo ==
  ASSUME Rooms, UNCHANGED <<owed, given>>,
         \A f \in StreamIds : Same(feeds[f], feeds'[f]) /\ (reader'[f] = reader[f] \/ Ends(f)),
         feeds' \in [StreamIds -> RoomRow],
         asked' \in [StreamIds -> [at: {"none", "open", "poll"}, scope: Rosters]],
         reader' \in [StreamIds -> [cursor: Nat, state: {"none", "reading", "reset"}]],
         \A f \in StreamIds :
           \/ asked'[f] = asked[f] /\ (reader'[f] = reader[f] \/ feeds'[f].state # "open")
           \/ asked'[f].at = "open" /\ reader[f].state = "none" /\ reader'[f] = reader[f]
           \/ asked'[f].at = "poll" /\ reader'[f].state = "reading"
           \/ asked'[f].at = "none",
         hour' \in 0..MaxHours, registered' \subseteq Leases, roster' \in Rosters, observed' \in 0..MaxObserved
  PROVE  Rooms'
<1>1. RoomTypes'
  BY DEF Rooms, RoomTypes
<1>2. ASSUME NEW f \in StreamIds PROVE (Buffers(feeds[f]) /\ Asking(f) /\ Reading(f))'
  BY FeedGoes
<1> QED BY <1>1, <1>2 DEF Rooms

\* What _purge leaves.
LEMMA PurgedIs ==
  ASSUME RoomTypes
  PROVE  /\ Purged \in [StreamIds -> RoomRow] /\ AllGone \in [StreamIds -> RoomRow]
         /\ \A f \in StreamIds : /\ Purged[f] \in RoomRow /\ Same(feeds[f], Purged[f]) /\ Same(feeds[f], AllGone[f])
                                 /\ IF Live(f) THEN Purged[f] = feeds[f] /\ feeds[f].state = "open"
                                    ELSE Purged[f].state # "open"
<1>1. \A f \in StreamIds : /\ Purged[f] = IF feeds[f].state = "open" /\ ~Live(f) THEN Gone(feeds[f]) ELSE feeds[f]
                           /\ AllGone[f] = Gone(feeds[f])
  BY DEF Purged, AllGone, Gone
<1>2. \A f \in StreamIds : /\ feeds[f] \in RoomRow /\ Gone(feeds[f]) \in RoomRow /\ Gone(feeds[f]).state # "open"
                           /\ Same(feeds[f], Gone(feeds[f])) /\ Same(feeds[f], feeds[f])
  BY RoomTyped, GoneIs DEF Same
<1>3. Purged \in [StreamIds -> RoomRow] /\ AllGone \in [StreamIds -> RoomRow]
  <2>1. \A f \in StreamIds : Purged[f] \in RoomRow /\ AllGone[f] \in RoomRow
    BY <1>1, <1>2
  <2>2. Purged = [f \in StreamIds |-> Purged[f]] /\ AllGone = [f \in StreamIds |-> AllGone[f]]
    BY DEF Purged, AllGone
  <2> QED BY <2>1, <2>2
<1>4. \A f \in StreamIds : Same(feeds[f], Purged[f]) /\ Same(feeds[f], AllGone[f]) /\ Purged[f] \in RoomRow
  BY <1>1, <1>2
<1>5. \A f \in StreamIds : IF Live(f) THEN Purged[f] = feeds[f] /\ feeds[f].state = "open" ELSE Purged[f].state # "open"
  BY <1>1, <1>2 DEF Live
<1> QED BY <1>3, <1>4, <1>5

\* The hook's registrations, the room's roster, time and requests that are about to wait.
LEMMA RoomAside ==
  ASSUME RoomAssumption, Rooms,
         \/ TimePasses
         \/ \E l \in Leases : Attach(l) \/ Detach(l)
         \/ \E M \in SUBSET Residents : RosterChanges(M)
         \/ \E f \in StreamIds : Asks(f)
  PROVE  Rooms' /\ UNCHANGED <<reader, owed, given>>
<1>0. RoomTypes
  BY DEF Rooms
<1>1. UNCHANGED <<reader, owed, given, observed>>
  BY DEF TimePasses, Attach, Detach, RosterChanges, Asks
<1>2. hour' \in 0..MaxHours /\ registered' \subseteq Leases
  <2>1. hour \in 0..MaxHours /\ registered \subseteq Leases /\ MaxHours \in Nat
    BY <1>0, RoomFacts DEF RoomTypes
  <2>2. (hour' = hour \/ (hour < MaxHours /\ hour' = hour + 1)) /\ registered' \subseteq registered \cup Leases
    BY DEF TimePasses, Attach, Detach, RosterChanges, Asks
  <2> QED BY <2>1, <2>2
<1>3. roster' \in Rosters
  <2>1. roster \in Rosters
    BY <1>0 DEF RoomTypes
  <2>2. ASSUME NEW M \in SUBSET Residents, RosterChanges(M) PROVE roster' \in Rosters
    <3>1. roster[2] \in 0..MaxRosters /\ MaxRosters \in Nat
      BY <2>1, RoomFacts DEF Rosters
    <3>2. roster[2] + 1 \in 0..MaxRosters
      BY <2>2, <3>1 DEF RosterChanges
    <3> QED BY <2>2, <3>2 DEF RosterChanges, Rosters
  <2>3. (\E M \in SUBSET Residents : RosterChanges(M)) \/ roster' = roster
    BY DEF TimePasses, Attach, Detach, Asks
  <2> QED BY <2>1, <2>2, <2>3
<1>4. feeds' \in [StreamIds -> RoomRow] /\ \A f \in StreamIds : Same(feeds[f], feeds'[f])
  <2>1. feeds' = feeds \/ feeds' = AllGone
    BY DEF TimePasses, Attach, Detach, RosterChanges, Asks
  <2>2. \A f \in StreamIds : Same(feeds[f], feeds[f])
    BY DEF Same
  <2> QED BY <2>1, <2>2, <1>0, PurgedIs DEF RoomTypes
<1>5. /\ asked' \in [StreamIds -> [at: {"none", "open", "poll"}, scope: Rosters]]
      /\ \A f \in StreamIds : asked'[f] = asked[f] \/ (asked'[f].at = "open" /\ reader[f].state = "none")
  <2>1. asked \in [StreamIds -> [at: {"none", "open", "poll"}, scope: Rosters]] /\ roster \in Rosters
    BY <1>0 DEF RoomTypes
  <2>2. ASSUME NEW f \in StreamIds, Asks(f)
        PROVE  asked' = [asked EXCEPT ![f] = [at |-> "open", scope |-> roster]] /\ reader[f].state = "none"
    BY <2>2 DEF Asks, Rooms, Asking
  <2>3. asked' = asked \/ \E f \in StreamIds : Asks(f)
    BY DEF TimePasses, Attach, Detach, RosterChanges
  <2> QED BY <2>1, <2>2, <2>3
<1>6. observed' \in 0..MaxObserved /\ reader' \in [StreamIds -> [cursor: Nat, state: {"none", "reading", "reset"}]]
  BY <1>0, <1>1 DEF RoomTypes
<1> QED BY <1>1, <1>2, <1>3, <1>4, <1>5, <1>6, FeedsGo

\* Telling phones to start again ends their feeds; anything else they do not see.
LEMMA RoomEnds ==
  ASSUME UNCHANGED <<owed, given>>, \A f \in StreamIds : reader'[f] = reader[f] \/ Ends(f)
  PROVE  [RoomFeed!Next]_(RoomFeed!vars)
<1> DEFINE R == {f \in StreamIds : reader'[f].state = "reset"}
<1>1. \A f \in StreamIds : ReaderState'[f] = IF f \in R /\ ReaderState[f] = "open" THEN "ended" ELSE ReaderState[f]
  BY DEF ReaderState, Ends
<1>2. ReaderState' = [f \in StreamIds |-> IF f \in R /\ ReaderState[f] = "open" THEN "ended" ELSE ReaderState[f]]
  <2>1. ReaderState' = [f \in StreamIds |-> ReaderState'[f]]
    BY DEF ReaderState
  <2> QED BY <1>1, <2>1
<1>3. RoomFeed!End(R) /\ R \in SUBSET StreamIds
  BY <1>2 DEF RoomFeed!End
<1> QED BY <1>3 DEF RoomFeed!Next

\* A poll that finds its feed gone, or closes it; one whose answer tells the phone to start
\* again, is lost or has no events; the first half of a poll; and a phone that closes its feed.
Turned(f) ==
  /\ UNCHANGED <<hour, registered, roster, owed, given, observed>>
  /\ feeds' = Purged \/ (\E d \in Int : feeds' = [Purged EXCEPT ![f].deadline = d]) \/ feeds' = [Purged EXCEPT ![f].state = "gone"]
  /\ \/ reader' = reader
     \/ reader[f].state # "none" /\ reader' = [reader EXCEPT ![f].state = "reset"]
  /\ \/ asked' = [asked EXCEPT ![f] = NoRequest]
     \/ asked' = asked /\ (reader' = reader \/ feeds'[f].state # "open")
     \/ asked' = [asked EXCEPT ![f] = [at |-> "poll", scope |-> roster]] /\ reader' = reader /\ reader[f].state = "reading"
  /\ reader[f].state # "none"

LEMMA TurnedKeeps ==
  ASSUME RoomAssumption, Rooms, NEW f \in StreamIds, Turned(f)
  PROVE  Rooms' /\ [RoomFeed!Next]_(RoomFeed!vars)
<1>0. RoomTypes /\ \A g \in StreamIds : Asking(g)
  BY DEF Rooms
<1>1. feeds' \in [StreamIds -> RoomRow] /\ \A g \in StreamIds : Same(feeds[g], feeds'[g])
  <2>1. Purged \in [StreamIds -> RoomRow] /\ \A g \in StreamIds : Purged[g] \in RoomRow /\ Same(feeds[g], Purged[g])
    BY <1>0, PurgedIs
  <2>2. feeds[f].state # "none"
    BY <1>0 DEF Turned, Asking
  <2>3. CASE feeds' = [Purged EXCEPT ![f].state = "gone"]
    <3> DEFINE h == [Purged[f] EXCEPT !.state = "gone"]
    <3>1. h \in RoomRow /\ Same(feeds[f], h)
      <4>1. feeds[f].state \in {"open", "gone"}
        BY <1>0, <2>2, RoomTyped DEF RoomRow
      <4> QED BY <2>1, <4>1 DEF RoomRow, Same
    <3>2. feeds' = [Purged EXCEPT ![f] = h]
      BY <2>3
    <3> HIDE DEF h
    <3> QED BY <2>1, <3>1, <3>2
  <2>4. ASSUME NEW d \in Int, feeds' = [Purged EXCEPT ![f].deadline = d]
        PROVE  feeds' \in [StreamIds -> RoomRow] /\ \A g \in StreamIds : Same(feeds[g], feeds'[g])
    <3> DEFINE h == [Purged[f] EXCEPT !.deadline = d]
    <3>1. h \in RoomRow /\ Same(feeds[f], h)
      BY <2>1 DEF RoomRow, Same
    <3>2. feeds' = [Purged EXCEPT ![f] = h]
      BY <2>4
    <3> HIDE DEF h
    <3> QED BY <2>1, <3>1, <3>2
  <2> QED BY <2>1, <2>3, <2>4 DEF Turned
<1>2. /\ reader' \in [StreamIds -> [cursor: Nat, state: {"none", "reading", "reset"}]]
      /\ \A g \in StreamIds : reader'[g] = reader[g] \/ Ends(g)
      /\ \A g \in StreamIds : g # f => reader'[g] = reader[g]
  <2>1. reader \in [StreamIds -> [cursor: Nat, state: {"none", "reading", "reset"}]]
    BY <1>0 DEF RoomTypes
  <2> DEFINE x == [reader[f] EXCEPT !.state = "reset"]
  <2>2. x \in [cursor: Nat, state: {"none", "reading", "reset"}] /\ x.state = "reset" /\ x.cursor = reader[f].cursor
    BY <2>1
  <2>3. reader' = reader \/ (reader[f].state # "none" /\ reader' = [reader EXCEPT ![f] = x])
    BY DEF Turned
  <2> HIDE DEF x
  <2> QED BY <2>1, <2>2, <2>3 DEF Ends
<1>3. /\ asked' \in [StreamIds -> [at: {"none", "open", "poll"}, scope: Rosters]]
      /\ \A g \in StreamIds :
           \/ asked'[g] = asked[g] /\ (reader'[g] = reader[g] \/ feeds'[g].state # "open")
           \/ asked'[g].at = "poll" /\ reader'[g].state = "reading"
           \/ asked'[g].at = "none"
  <2>1. asked \in [StreamIds -> [at: {"none", "open", "poll"}, scope: Rosters]] /\ roster \in Rosters
    BY <1>0 DEF RoomTypes
  <2>2. NoRequest \in [at: {"none", "open", "poll"}, scope: Rosters] /\ NoRequest.at = "none"
    BY RoomFacts DEF NoRequest, Rosters
  <2>3. CASE asked' = [asked EXCEPT ![f] = NoRequest]
    BY <1>2, <2>1, <2>2, <2>3
  <2>4. CASE asked' = asked /\ (reader' = reader \/ feeds'[f].state # "open")
    BY <1>2, <2>1, <2>4
  <2>5. CASE asked' = [asked EXCEPT ![f] = [at |-> "poll", scope |-> roster]] /\ reader' = reader /\ reader[f].state = "reading"
    BY <1>2, <2>1, <2>5
  <2> QED BY <2>3, <2>4, <2>5 DEF Turned
<1>4. /\ hour' \in 0..MaxHours /\ registered' \subseteq Leases /\ roster' \in Rosters /\ observed' \in 0..MaxObserved
      /\ UNCHANGED <<owed, given>>
  BY <1>0 DEF Turned, RoomTypes
<1>5. Rooms'
  BY <1>1, <1>2, <1>3, <1>4, FeedsGo
<1> QED BY <1>2, <1>4, <1>5, RoomEnds

LEMMA PollStarts == 
  ASSUME RoomAssumption, Rooms, NEW f \in StreamIds, AsksPage(f) \/ CloseFeed(f)
  PROVE  Rooms' /\ [RoomFeed!Next]_(RoomFeed!vars)
<1>0. RoomTypes /\ PageLimit \in Nat
  BY RoomFacts DEF Rooms
<1>1. CASE AsksPage(f) /\ Live(f)
  <2>1. Turned(f)
    BY <1>1 DEF AsksPage, Turned
  <2> QED BY <2>1, TurnedKeeps
<1>2. CASE AsksPage(f) /\ ~Live(f)
  <2>1. feeds'[f].state # "open"
    BY <1>0, <1>2, PurgedIs DEF AsksPage
  <2>2. Turned(f)
    BY <1>2, <2>1 DEF AsksPage, Turned
  <2> QED BY <2>2, TurnedKeeps
<1>3. CASE CloseFeed(f)
  <2>1. feeds'[f].state # "open"
    <3>1. Purged \in [StreamIds -> RoomRow] /\ Purged[f] \in RoomRow
      BY <1>0, PurgedIs
    <3> DEFINE h == [Purged[f] EXCEPT !.state = "gone"]
    <3>2. h.state = "gone"
      BY <3>1 DEF RoomRow
    <3>3. feeds' = [Purged EXCEPT ![f] = h]
      BY <1>3 DEF CloseFeed
    <3> HIDE DEF h
    <3> QED BY <3>1, <3>2, <3>3
  <2>2. Turned(f)
    BY <1>3, <2>1 DEF CloseFeed, Turned
  <2> QED BY <2>2, TurnedKeeps
<1> QED BY <1>1, <1>2, <1>3

\* A page is what the buffer holds beyond the cursor, as far as it goes.
LEMMA PageIs ==
  ASSUME NEW f \in StreamIds, feeds[f] \in RoomRow, Buffers(feeds[f]),
         NEW c \in Nat, feeds[f].lost <= c, c <= feeds[f].high, NEW n \in Nat
  PROVE  \E old, m \in Nat : /\ old = c - feeds[f].lost /\ old <= m /\ m <= Len(feeds[f].events)
                             /\ Page(f, c, n) = SubSeq(feeds[f].events, old + 1, m)
<1> DEFINE q == feeds[f].events
           old == c - feeds[f].lost
           older == {i \in DOMAIN q : q[i].n <= c}
           m == IF old + n < Len(q) THEN old + n ELSE Len(q)
<1>1. /\ q \in Seq(Numbered) /\ Len(q) \in Nat /\ DOMAIN q = 1 .. Len(q) /\ feeds[f].lost \in Nat
      /\ feeds[f].high = feeds[f].lost + Len(q) /\ \A i \in DOMAIN q : q[i].n = feeds[f].lost + i
  BY DEF RoomRow, Buffers
<1>2. old \in Nat /\ old <= Len(q)
  BY <1>1
<1>3. \A i \in 1 .. Len(q) : q[i].n <= c <=> i <= old
  <2>1. PICK l \in Nat : l = feeds[f].lost
    BY <1>1
  <2>2. \A i \in 1 .. Len(q) : q[i].n = l + i
    BY <1>1, <2>1
  <2>3. old = c - l
    BY <2>1
  <2> HIDE DEF q, old, older
  <2>4. \A i \in 1 .. Len(q) : i \in Nat /\ (l + i <= c <=> i <= old)
    BY <1>1, <2>1, <2>3
  <2> QED BY <2>2, <2>4
<1>4. Cardinality(older) = old
  <2>1. older = {i \in 1 .. Len(q) : i <= old}
    BY <1>1, <1>3
  <2> HIDE DEF q, old, older
  <2>2. older = 1 .. old
    BY <1>1, <1>2, <2>1
  <2> QED BY <1>2, <2>2, FS_Interval
<1>5. m \in Nat /\ old <= m /\ m <= Len(q)
  <2> HIDE DEF q, old
  <2> QED BY <1>1, <1>2
<1>6. Page(f, c, n) = SubSeq(q, old + 1, m)
  <2>1. Page(f, c, n) = SubSeq(q, Cardinality(older) + 1, IF Cardinality(older) + n < Len(q) THEN Cardinality(older) + n ELSE Len(q))
    BY DEF Page
  <2> HIDE DEF q, old, older
  <2> QED BY <1>4, <2>1
<1> HIDE DEF m
<1> QED BY <1>2, <1>5, <1>6

\* What a page adds to what its reader got, when the page has events and arrives.
LEMMA PageAdds ==
  ASSUME RoomAssumption, Rooms, NEW f \in StreamIds, NEW n \in Nat,
         reader[f].state = "reading", feeds[f].state = "open",
         ~LostSomething(f, reader[f].cursor), Page(f, reader[f].cursor, n) # <<>>
  PROVE  \E page \in Seq(Numbered), k \in Nat :
           /\ page = Page(f, reader[f].cursor, n) /\ Len(page) > 0 /\ k = page[Len(page)].n
           /\ Len(given[f]) <= k /\ k <= Len(owed[f]) /\ k <= feeds[f].high
           /\ given[f] \o [i \in DOMAIN page |-> page[i].what] = SubSeq(owed[f], 1, k)
<1>0. /\ feeds[f] \in RoomRow /\ Buffers(feeds[f]) /\ Reading(f) /\ reader[f].cursor \in Nat
      /\ owed[f] \in Seq(Told) /\ given[f] \in Seq(Told) /\ feeds[f].drops \in Nat /\ feeds[f].lost \in Nat
      /\ Len(owed[f]) \in Nat /\ Len(given[f]) \in Nat
  BY RoomTyped DEF Rooms
<1>1. PICK c \in Nat : c = reader[f].cursor
  BY <1>0
<1>2. feeds[f].drops = 0 /\ feeds[f].lost <= c /\ c <= feeds[f].high /\ Len(given[f]) = c
  BY <1>0, <1>1 DEF LostSomething, Reading
<1>3. /\ Len(owed[f]) = feeds[f].high /\ \A i \in DOMAIN given[f] : given[f][i] = owed[f][i]
      /\ \A i \in DOMAIN feeds[f].events : owed[f][feeds[f].lost + i] = feeds[f].events[i].what
  BY <1>0, <1>2 DEF Reading
<1>4. PICK old \in Nat, m \in Nat :
        /\ old = c - feeds[f].lost /\ old <= m /\ m <= Len(feeds[f].events)
        /\ Page(f, c, n) = SubSeq(feeds[f].events, old + 1, m)
  <2> HIDE DEF Page
  <2>1. feeds[f] \in RoomRow /\ Buffers(feeds[f]) /\ c \in Nat /\ feeds[f].lost <= c /\ c <= feeds[f].high
    BY <1>0, <1>1, <1>2
  <2> QED BY <2>1, PageIs
<1>5. PICK q \in Seq(Numbered) : q = feeds[f].events
  BY <1>0 DEF RoomRow
<1>6. /\ Len(q) \in Nat /\ DOMAIN q = 1 .. Len(q) /\ feeds[f].high = feeds[f].lost + Len(q)
      /\ \A i \in 1 .. Len(q) : /\ q[i] \in Numbered /\ q[i].n = feeds[f].lost + i
                                /\ owed[f][feeds[f].lost + i] = q[i].what /\ q[i].what \in Told
  <2>1. Len(q) \in Nat /\ DOMAIN q = 1 .. Len(q) /\ feeds[f].high = feeds[f].lost + Len(q)
    BY <1>0, <1>5 DEF Buffers
  <2>2. \A i \in 1 .. Len(q) : q[i] \in Numbered
    BY <1>5, <2>1
  <2>3. \A i \in 1 .. Len(q) : q[i].what \in Told
    BY <2>2 DEF Numbered
  <2> QED BY <1>0, <1>3, <1>5, <2>1, <2>2, <2>3 DEF Buffers
<1>15. PICK l \in Nat : l = feeds[f].lost
  BY <1>0
<1>16. /\ c \in Nat /\ old \in Nat /\ m \in Nat /\ l \in Nat /\ Len(q) \in Nat
       /\ old = c - l /\ c = l + old /\ old <= m /\ m <= Len(q)
  <2>1. c \in Nat /\ old \in Nat /\ m \in Nat /\ l \in Nat /\ old = c - l /\ old <= m /\ m <= Len(q)
    BY <1>1, <1>4, <1>5, <1>15
  <2> QED BY <2>1, <1>6
<1>7. PICK page : page = SubSeq(q, old + 1, m)
  OBVIOUS
<1>8. /\ page \in Seq(Numbered) /\ Len(page) = m - old /\ DOMAIN page = 1 .. (m - old)
      /\ \A i \in 1 .. (m - old) : page[i] = q[old + i]
  <2>1. \A i \in (old + 1) .. m : q[i] \in Numbered
    BY <1>4, <1>5, <1>6
  <2>2. /\ page \in Seq(Numbered) /\ Len(page) = IF old + 1 <= m THEN m - (old + 1) + 1 ELSE 0
        /\ \A i \in 1 .. m - (old + 1) + 1 : page[i] = q[old + 1 + i - 1]
    BY <1>7, <2>1, SubSeqProperties
  <2>3. Len(page) = m - old
    <3> HIDE DEF Page
    <3>1. IF old + 1 <= m THEN m - (old + 1) + 1 = m - old ELSE m - old = 0
      BY <1>16
    <3> QED BY <2>2, <3>1
  <2>4. DOMAIN page = 1 .. (m - old)
    BY <2>2, <2>3
  <2>5. \A i \in 1 .. (m - old) : i \in 1 .. m - (old + 1) + 1 /\ old + 1 + i - 1 = old + i
    OBVIOUS
  <2> QED BY <2>2, <2>3, <2>4, <2>5
<1>9. page = Page(f, reader[f].cursor, n) /\ page # <<>>
  BY <1>1, <1>4, <1>5, <1>7
<1>10. m - old \in Nat \ {0}
  <2>1. Len(page) \in Nat \ {0}
    BY <1>8, <1>9, EmptySeq
  <2> QED BY <1>8, <2>1
<1> DEFINE k == l + m
<1>11. page[Len(page)].n = k /\ k \in Nat /\ c <= k /\ k <= feeds[f].high /\ k = c + (m - old)
  <2>1. m - old \in 1 .. (m - old) /\ m \in 1 .. Len(q) /\ old + (m - old) = m
    <3>1. PICK d \in Nat, t \in Nat : d = m - old /\ t = Len(q)
      BY <1>10, <1>16
    <3>2. m \in Nat /\ old \in Nat /\ m <= t /\ d # 0
      BY <1>10, <1>16, <3>1
    <3> HIDE DEF k
    <3>3. d \in 1 .. d /\ old + d = m
      BY <3>1, <3>2
    <3>4. m \in 1 .. t
      BY <3>2, <3>3
    <3> QED BY <3>1, <3>3, <3>4
  <2>2. page[Len(page)] = q[m]
    BY <1>8, <2>1
  <2>3. q[m].n = k /\ k \in Nat /\ k = c + (m - old) /\ k <= feeds[f].high
    <3>1. q[m].n = l + m /\ feeds[f].high = l + Len(q)
      BY <1>6, <1>15, <2>1
    <3> QED BY <1>16, <3>1
  <2>4. c <= k
    BY <1>1, <1>10, <2>3
  <2> HIDE DEF k
  <2> QED BY <1>8, <2>1, <2>2, <2>3, <2>4
<1> DEFINE new == [i \in DOMAIN page |-> page[i].what]
<1>12. /\ new \in Seq(Told) /\ Len(new) = m - old
       /\ \A i \in 1 .. (m - old) : new[i] = owed[f][c + i]
  <2>1. \A i \in 1 .. (m - old) : /\ old + i \in 1 .. Len(q) /\ feeds[f].lost + (old + i) = c + i /\ page[i] = q[old + i]
    <3> SUFFICES ASSUME NEW i \in 1 .. (m - old)
                 PROVE  old + i \in 1 .. Len(q) /\ l + (old + i) = c + i
      BY <1>8, <1>15
    <3>1. i \in Nat /\ i >= 1 /\ i <= m - old
      BY <1>10
    <3> QED BY <1>16, <3>1
  <2>2. \A i \in 1 .. (m - old) : page[i].what = owed[f][c + i] /\ page[i].what \in Told
    BY <1>6, <2>1
  <2>3. new = [i \in 1 .. (m - old) |-> page[i].what]
    BY <1>8
  <2>4. new \in [1 .. (m - old) -> Told]
    BY <2>2, <2>3
  <2>5. new \in Seq(Told) /\ Len(new) = m - old
    <3> HIDE DEF new
    <3> QED BY <2>3, <2>4, <1>10
  <2> QED BY <2>2, <2>3, <2>5
<1> HIDE DEF new
<1>13. given[f] \o new = SubSeq(owed[f], 1, k)
  <2> DEFINE a == given[f] \o new
             b == SubSeq(owed[f], 1, k)
  <2>1. /\ a \in Seq(Told) /\ Len(a) = c + (m - old)
        /\ \A i \in 1 .. c + (m - old) : a[i] = IF i <= c THEN given[f][i] ELSE new[i - c]
    <3>1. given[f] \in Seq(Told) /\ new \in Seq(Told) /\ Len(given[f]) = c /\ Len(new) = m - old
      BY <1>0, <1>2, <1>12
    <3>2. /\ a \in Seq(Told) /\ Len(a) = Len(given[f]) + Len(new)
          /\ \A i \in 1 .. Len(given[f]) + Len(new) : a[i] = IF i <= Len(given[f]) THEN given[f][i] ELSE new[i - Len(given[f])]
      BY <3>1, ConcatProperties
    <3> HIDE DEF a
    <3> QED BY <3>1, <3>2
  <2>2. k <= Len(owed[f])
    BY <1>3, <1>11
  <2>3. \A i \in 1 .. k : owed[f][i] \in Told
    BY <1>0, <1>11, <2>2
  <2>4. b \in Seq(Told) /\ Len(b) = k /\ \A i \in 1 .. k : b[i] = owed[f][i]
    <3> HIDE DEF k
    <3>1. /\ b \in Seq(Told) /\ Len(b) = IF 1 <= k THEN k - 1 + 1 ELSE 0
          /\ \A i \in 1 .. k - 1 + 1 : b[i] = owed[f][1 + i - 1]
      BY <1>11, <2>3, SubSeqProperties
    <3>2. \A i \in 1 .. k : i \in 1 .. k - 1 + 1 /\ 1 + i - 1 = i
      BY <1>11
    <3>3. Len(b) = k
      BY <1>11, <3>1
    <3> HIDE DEF b
    <3> QED BY <3>1, <3>2, <3>3
  <2> HIDE DEF a, b, k
  <2>5. \A i \in 1 .. k : a[i] = b[i]
    <3> SUFFICES ASSUME NEW i \in 1 .. k PROVE a[i] = owed[f][i]
      BY <2>4
    <3>1. CASE i <= c
      <4>1. i \in DOMAIN given[f] /\ i \in 1 .. c + (m - old)
        <5>1. i \in Nat /\ i >= 1 /\ k = c + (m - old) /\ DOMAIN given[f] = 1 .. c
          BY <1>0, <1>2, <1>11
        <5> QED BY <1>1, <1>10, <1>11, <3>1, <5>1
      <4> QED BY <1>3, <2>1, <3>1, <4>1
    <3>2. CASE i > c
      <4>1. i - c \in 1 .. (m - old) /\ c + (i - c) = i /\ i \in 1 .. c + (m - old) /\ ~(i <= c)
        <5>1. i \in Nat /\ i <= k /\ k = c + (m - old) /\ m - old \in Nat
          BY <1>10, <1>11
        <5> HIDE DEF k
        <5>2. i - c \in 1 .. (m - old) /\ c + (i - c) = i /\ ~(i <= c)
          BY <1>16, <3>2, <5>1
        <5>3. i \in 1 .. c + (m - old)
          BY <5>1
        <5> QED BY <5>2, <5>3
      <4> QED BY <1>12, <2>1, <4>1
    <3> QED BY <1>1, <1>11, <3>1, <3>2
  <2>6. Len(a) = Len(b)
    BY <1>11, <2>1, <2>4
  <2>7. \A i \in 1 .. Len(a) : a[i] = b[i]
    BY <2>4, <2>5, <2>6
  <2>8. a = b
    BY <2>1, <2>4, <2>6, <2>7, SeqEqual
  <2> QED BY <2>8 DEF a, b
<1>14. Len(given[f]) <= k /\ k <= Len(owed[f]) /\ Len(page) > 0
  BY <1>2, <1>3, <1>8, <1>10, <1>11
<1> HIDE DEF k
<1> QED BY <1>8, <1>9, <1>11, <1>13, <1>14 DEF new

LEMMA PrefixIs ==
  ASSUME NEW S, NEW q \in Seq(S), NEW k \in Nat, k <= Len(q)
  PROVE  /\ SubSeq(q, 1, k) \in Seq(S) /\ Len(SubSeq(q, 1, k)) = k
         /\ \A i \in 1 .. k : SubSeq(q, 1, k)[i] = q[i]
<1>1. \A i \in 1 .. k : q[i] \in S
  OBVIOUS
<1>2. /\ SubSeq(q, 1, k) \in Seq(S) /\ Len(SubSeq(q, 1, k)) = IF 1 <= k THEN k - 1 + 1 ELSE 0
      /\ \A i \in 1 .. k - 1 + 1 : SubSeq(q, 1, k)[i] = q[1 + i - 1]
  BY <1>1, SubSeqProperties
<1>3. \A i \in 1 .. k : i \in 1 .. k - 1 + 1 /\ 1 + i - 1 = i
  OBVIOUS
<1>4. (IF 1 <= k THEN k - 1 + 1 ELSE 0) = k
  OBVIOUS
<1> QED BY <1>2, <1>3, <1>4

\* The answer of a poll: a page that arrives continues what its reader got.
LEMMA PollsKeeps ==
  ASSUME RoomAssumption, Rooms, NEW f \in StreamIds, NEW n \in 1..PageLimit, NEW arrives \in BOOLEAN,
         Polls(f, n, arrives)
  PROVE  Rooms' /\ [RoomFeed!Next]_(RoomFeed!vars)
<1>0. /\ RoomTypes /\ Asking(f) /\ n \in Nat /\ asked[f].at = "poll"
      /\ reader \in [StreamIds -> [cursor: Nat, state: {"none", "reading", "reset"}]]
      /\ asked' = [asked EXCEPT ![f] = NoRequest] /\ hour \in Int /\ LeaseSeconds \in Int
  BY RoomFacts DEF Rooms, RoomTypes, Polls
<1>1. reader[f].state # "none" /\ (reader[f].state = "reading" \/ feeds[f].state # "open")
  BY <1>0 DEF Asking
<1> DEFINE resets == [reader EXCEPT ![f].state = IF arrives THEN "reset" ELSE @]
           last == hour + LeaseSeconds
           adds == /\ Live(f) /\ ~LostSomething(f, reader[f].cursor)
                   /\ arrives /\ Page(f, reader[f].cursor, n) # <<>>
                   /\ feeds' = [Purged EXCEPT ![f].deadline = last]
<1>2. resets = reader \/ resets = [reader EXCEPT ![f].state = "reset"]
  <2>1. CASE arrives
    BY <2>1
  <2>2. CASE ~arrives
    BY <1>0, <2>2
  <2> QED BY <2>1, <2>2
<1>3. CASE ~adds
  <2>1. UNCHANGED <<hour, registered, roster, owed, given, observed>>
    BY <1>3 DEF Polls
  <2>2. /\ feeds' = Purged \/ feeds' = [Purged EXCEPT ![f].deadline = last] \/ feeds' = [Purged EXCEPT ![f].state = "gone"]
        /\ reader' = reader \/ reader' = resets
    BY <1>3 DEF Polls
  <2>3. last \in Int
    BY <1>0
  <2> HIDE DEF last, resets
  <2>4. feeds' = Purged \/ (\E d \in Int : feeds' = [Purged EXCEPT ![f].deadline = d]) \/ feeds' = [Purged EXCEPT ![f].state = "gone"]
    BY <2>2, <2>3
  <2>5. reader' = reader \/ (reader[f].state # "none" /\ reader' = [reader EXCEPT ![f].state = "reset"])
    BY <1>1, <1>2, <2>2
  <2>6. Turned(f)
    BY <1>0, <1>1, <2>1, <2>4, <2>5 DEF Turned
  <2> QED BY <2>6, TurnedKeeps
<1>4. CASE adds
  <2>1. feeds[f].state = "open" /\ reader[f].state = "reading"
    BY <1>1, <1>4 DEF Live
  <2>2. PICK page \in Seq(Numbered), k \in Nat :
           /\ page = Page(f, reader[f].cursor, n) /\ Len(page) > 0 /\ k = page[Len(page)].n
           /\ Len(given[f]) <= k /\ k <= Len(owed[f]) /\ k <= feeds[f].high
           /\ given[f] \o [i \in DOMAIN page |-> page[i].what] = SubSeq(owed[f], 1, k)
    BY <1>0, <1>4, <2>1, PageAdds
  <2>3. /\ UNCHANGED <<hour, registered, roster, owed, observed>>
        /\ reader' = [reader EXCEPT ![f].cursor = k]
        /\ given' = [given EXCEPT ![f] = SubSeq(owed[f], 1, k)]
    <3>1. /\ reader' = [reader EXCEPT ![f].cursor = page[Len(page)].n]
          /\ given' = [given EXCEPT ![f] = @ \o [i \in DOMAIN page |-> page[i].what]]
          /\ UNCHANGED <<hour, registered, roster, owed, observed>>
      <4>1. Live(f) /\ ~LostSomething(f, reader[f].cursor) /\ arrives /\ Page(f, reader[f].cursor, n) # <<>>
        BY <1>4
      <4>2. feeds[f].scope = asked[f].scope
        <5> SUFFICES ASSUME feeds[f].scope # asked[f].scope PROVE FALSE
          OBVIOUS
        <5>1. feeds' = [Purged EXCEPT ![f].state = "gone"]
          BY <4>1 DEF Polls
        <5>2. Purged \in [StreamIds -> RoomRow] /\ Purged[f] = feeds[f] /\ Purged[f] \in RoomRow
          BY <1>0, <4>1, PurgedIs
        <5>3. feeds'[f].state = "gone"
          <6> DEFINE h == [Purged[f] EXCEPT !.state = "gone"]
          <6>1. h.state = "gone"
            BY <5>2 DEF RoomRow
          <6>2. feeds' = [Purged EXCEPT ![f] = h]
            BY <5>1
          <6> HIDE DEF h
          <6> QED BY <5>2, <6>1, <6>2
        <5>4. feeds'[f].state = "open"
          <6> DEFINE h == [Purged[f] EXCEPT !.deadline = last]
          <6>1. h.state = "open"
            BY <5>2, <2>1 DEF RoomRow
          <6>2. feeds' = [Purged EXCEPT ![f] = h]
            BY <1>4
          <6> HIDE DEF h
          <6> QED BY <5>2, <6>1, <6>2
        <5> QED BY <5>3, <5>4
      <4> QED BY <4>1, <4>2, <2>2 DEF Polls
    <3>2. given \in [StreamIds -> Seq(Told)]
      BY <1>0 DEF RoomTypes
    <3> QED BY <2>2, <3>1, <3>2
  <2>4. feeds' \in [StreamIds -> RoomRow] /\ \A g \in StreamIds : Same(feeds[g], feeds'[g])
    <3>1. Purged \in [StreamIds -> RoomRow] /\ \A g \in StreamIds : Purged[g] \in RoomRow /\ Same(feeds[g], Purged[g])
      BY <1>0, PurgedIs
    <3> DEFINE h == [Purged[f] EXCEPT !.deadline = last]
    <3>2. last \in Int
      BY <1>0
    <3> HIDE DEF last
    <3>3. h \in RoomRow /\ Same(feeds[f], h)
      BY <3>1, <3>2 DEF RoomRow, Same
    <3>4. feeds' = [Purged EXCEPT ![f] = h]
      BY <1>4 DEF last
    <3> HIDE DEF h
    <3> QED BY <3>1, <3>3, <3>4
  <2>5. feeds'[f].state = feeds[f].state
    <3>1. Purged \in [StreamIds -> RoomRow] /\ Purged[f] = feeds[f] /\ Purged[f] \in RoomRow
      BY <1>0, <1>4, PurgedIs
    <3> DEFINE h == [Purged[f] EXCEPT !.deadline = last]
    <3>2. h.state = feeds[f].state
      BY <3>1 DEF RoomRow
    <3>3. feeds' = [Purged EXCEPT ![f] = h]
      BY <1>4
    <3> HIDE DEF h
    <3> QED BY <3>1, <3>2, <3>3
  <2> DEFINE x == [reader[f] EXCEPT !.cursor = k]
             p == SubSeq(owed[f], 1, k)
  <2>6. x \in [cursor: Nat, state: {"none", "reading", "reset"}] /\ x.state = "reading" /\ x.cursor = k
    BY <1>0, <2>1, <2>2
  <2>7. p \in Seq(Told) /\ Len(p) = k /\ \A i \in 1 .. k : p[i] = owed[f][i]
    <3>1. owed[f] \in Seq(Told) /\ k \in Nat /\ k <= Len(owed[f])
      BY <1>0, <2>2, RoomTyped
    <3> QED BY <3>1, PrefixIs
  <2>8. reader' = [reader EXCEPT ![f] = x] /\ given' = [given EXCEPT ![f] = p]
    BY <2>3
  <2> HIDE DEF x, p, adds, resets, last
  <2>9. /\ reader' \in [StreamIds -> [cursor: Nat, state: {"none", "reading", "reset"}]]
        /\ reader'[f] = x /\ \A g \in StreamIds : g # f => reader'[g] = reader[g]
    BY <1>0, <2>6, <2>8
  <2>10. /\ given' \in [StreamIds -> Seq(Told)] /\ given'[f] = p
         /\ \A g \in StreamIds : g # f => given'[g] = given[g]
    BY <1>0, <2>7, <2>8 DEF RoomTypes
  <2>11. /\ asked' \in [StreamIds -> [at: {"none", "open", "poll"}, scope: Rosters]]
         /\ asked'[f].at = "none" /\ \A g \in StreamIds : g # f => asked'[g] = asked[g]
    <3>1. NoRequest \in [at: {"none", "open", "poll"}, scope: Rosters] /\ NoRequest.at = "none"
      BY RoomFacts DEF NoRequest, Rosters
    <3>2. asked \in [StreamIds -> [at: {"none", "open", "poll"}, scope: Rosters]]
      BY <1>0 DEF RoomTypes
    <3> QED BY <1>0, <3>1, <3>2
  <2>12. RoomTypes'
    BY <1>0, <2>3, <2>4, <2>9, <2>10, <2>11 DEF RoomTypes
  <2>13. ASSUME NEW g \in StreamIds, g # f PROVE (Buffers(feeds[g]) /\ Asking(g) /\ Reading(g))'
    BY <2>3, <2>4, <2>9, <2>10, <2>11, <2>13, FeedGoes
  <2>14. (Buffers(feeds[f]) /\ Asking(f) /\ Reading(f))'
    <3>0. Buffers(feeds[f]) /\ Reading(f) /\ Same(feeds[f], feeds'[f])
      BY <2>4 DEF Rooms
    <3>1. Buffers(feeds[f])'
      BY <3>0 DEF Buffers, Same
    <3>2. Asking(f)'
      BY <2>1, <2>5, <2>6, <2>9, <2>11 DEF Asking
    <3>3. Reading(f)'
      <4>1. /\ reader'[f].cursor = k /\ reader'[f].state = "reading" /\ given'[f] = p /\ owed'[f] = owed[f]
            /\ DOMAIN p = 1 .. k /\ k <= feeds'[f].high
        <5>1. reader'[f].cursor = k /\ reader'[f].state = "reading" /\ given'[f] = p /\ owed'[f] = owed[f]
          BY <2>3, <2>6, <2>9, <2>10
        <5>2. DOMAIN p = 1 .. k
          BY <2>7, LenProperties
        <5>3. k <= feeds'[f].high
          BY <3>0, <2>2 DEF Same
        <5> QED BY <5>1, <5>2, <5>3
      <4>2. /\ Len(given'[f]) = k /\ k <= Len(owed'[f])
            /\ \A i \in DOMAIN given'[f] : given'[f][i] = owed'[f][i]
        BY <2>2, <2>7, <4>1
      <4>3. feeds'[f].drops = 0 => /\ Len(owed'[f]) = feeds'[f].high
                                   /\ \A i \in DOMAIN feeds'[f].events : owed'[f][feeds'[f].lost + i] = feeds'[f].events[i].what
        BY <2>1, <3>0, <4>1 DEF Reading, Same
      <4> QED BY <4>1, <4>2, <4>3 DEF Reading
    <3> QED BY <3>1, <3>2, <3>3
  <2>15. Rooms'
    BY <2>12, <2>13, <2>14 DEF Rooms
  <2>16. RoomFeed!Read(f)
    <3>1. ReaderState[f] = "open"
      BY <2>1 DEF ReaderState
    <3>2. ReaderState' = ReaderState
      <4>1. \A g \in StreamIds : reader'[g].state = reader[g].state
        BY <2>1, <2>6, <2>9
      <4> QED BY <4>1 DEF ReaderState
    <3>3. k \in Len(given[f]) .. Len(owed[f])
      <4>1. Len(given[f]) \in Nat /\ Len(owed[f]) \in Nat
        BY <1>0, RoomTyped
      <4>2. k \in Nat /\ Len(given[f]) <= k /\ k <= Len(owed[f])
        BY <2>2
      <4> QED BY <4>1, <4>2
    <3>4. given' = [given EXCEPT ![f] = SubSeq(owed[f], 1, k)] /\ owed' = owed
      BY <2>3
    <3> QED BY <3>1, <3>2, <3>3, <3>4 DEF RoomFeed!Read
  <2> QED BY <2>15, <2>16 DEF RoomFeed!Next
<1> QED BY <1>3, <1>4

\* A feed opens, or finds no room for it.
LEMMA OpensKeeps ==
  ASSUME RoomAssumption, Rooms, NEW f \in StreamIds, OpensFeed(f)
  PROVE  Rooms' /\ [RoomFeed!Next]_(RoomFeed!vars)
<1>0. /\ RoomTypes /\ Asking(f) /\ Reading(f) /\ asked[f].at = "open"
      /\ reader \in [StreamIds -> [cursor: Nat, state: {"none", "reading", "reset"}]]
      /\ UNCHANGED <<hour, registered, roster, owed, given, observed>>
      /\ asked' = [asked EXCEPT ![f] = NoRequest]
  BY DEF Rooms, RoomTypes, OpensFeed
<1>1. reader[f].state = "none" /\ feeds[f].state = "none" /\ owed[f] = <<>> /\ given[f] \in Seq(Told) /\ Len(given[f]) = 0
  <2>1. reader[f].state = "none" /\ owed[f] = <<>> /\ reader[f].cursor = 0
    BY <1>0 DEF Asking, Reading
  <2> QED BY <1>0, <2>1, RoomTyped DEF Asking, Reading
<1>2. Purged \in [StreamIds -> RoomRow] /\ \A g \in StreamIds : Same(feeds[g], Purged[g])
  BY <1>0, PurgedIs
<1>3. /\ asked' \in [StreamIds -> [at: {"none", "open", "poll"}, scope: Rosters]]
      /\ asked'[f].at = "none" /\ \A g \in StreamIds : g # f => asked'[g] = asked[g]
  <2>1. NoRequest \in [at: {"none", "open", "poll"}, scope: Rosters] /\ NoRequest.at = "none"
    BY RoomFacts DEF NoRequest, Rosters
  <2>2. asked \in [StreamIds -> [at: {"none", "open", "poll"}, scope: Rosters]]
    BY <1>0 DEF RoomTypes
  <2> QED BY <1>0, <2>1, <2>2
<1>4. /\ hour' \in 0..MaxHours /\ registered' \subseteq Leases /\ roster' \in Rosters /\ observed' \in 0..MaxObserved
      /\ owed' \in [StreamIds -> Seq(Told)] /\ given' \in [StreamIds -> Seq(Told)]
  BY <1>0 DEF RoomTypes
<1>5. CASE feeds' = Purged /\ reader' = reader
  <2>1. Rooms'
    <3>1. \A g \in StreamIds : \/ asked'[g] = asked[g] /\ reader'[g] = reader[g]
                               \/ asked'[g].at = "none"
      BY <1>3, <1>5
    <3> QED BY <1>0, <1>2, <1>3, <1>4, <1>5, <3>1, FeedsGo
  <2> QED BY <1>0, <1>5, <2>1, RoomEnds
<1>6. ASSUME feeds' = [Purged EXCEPT ![f] = [NoFeed EXCEPT !.state = "open", !.scope = asked[f].scope,
                                                           !.deadline = hour + LeaseSeconds]],
             reader' = [reader EXCEPT ![f] = [cursor |-> 0, state |-> "reading"]]
      PROVE  Rooms' /\ [RoomFeed!Next]_(RoomFeed!vars)
  <2> DEFINE h == [NoFeed EXCEPT !.state = "open", !.scope = asked[f].scope, !.deadline = hour + LeaseSeconds]
             x == [cursor |-> 0, state |-> "reading"]
  <2>1. h \in RoomRow /\ h.state = "open" /\ h.events = <<>> /\ h.high = 0 /\ h.lost = 0
    <3>1. asked[f].scope \in Rosters /\ hour + LeaseSeconds \in Int
      BY <1>0, RoomFacts DEF RoomTypes
    <3>2. NoFeed \in RoomRow
      <4>1. <<{}, 0>> \in Rosters
        BY RoomFacts DEF Rosters
      <4>2. <<>> \in Seq(Numbered) /\ <<>> \in Seq(Told)
        BY EmptySeq
      <4> QED BY <4>1, <4>2 DEF NoFeed, RoomRow
    <3>3. NoFeed.events = <<>> /\ NoFeed.high = 0 /\ NoFeed.lost = 0
      BY DEF NoFeed
    <3> QED BY <3>1, <3>2, <3>3 DEF RoomRow
  <2>2. x \in [cursor: Nat, state: {"none", "reading", "reset"}] /\ x.state = "reading" /\ x.cursor = 0
    OBVIOUS
  <2> HIDE DEF h, x
  <2>3. feeds' = [Purged EXCEPT ![f] = h] /\ reader' = [reader EXCEPT ![f] = x]
    BY <1>6 DEF h, x
  <2>4. /\ feeds' \in [StreamIds -> RoomRow] /\ feeds'[f] = h
        /\ \A g \in StreamIds : g # f => Same(feeds[g], feeds'[g]) /\ reader'[g] = reader[g]
        /\ reader'[f] = x /\ reader' \in [StreamIds -> [cursor: Nat, state: {"none", "reading", "reset"}]]
    BY <1>0, <1>2, <2>1, <2>2, <2>3
  <2>5. RoomTypes'
    BY <1>3, <1>4, <2>4 DEF RoomTypes
  <2>6. ASSUME NEW g \in StreamIds, g # f PROVE (Buffers(feeds[g]) /\ Asking(g) /\ Reading(g))'
    BY <1>0, <1>3, <2>4, <2>6, FeedGoes
  <2>7. (Buffers(feeds[f]) /\ Asking(f) /\ Reading(f))'
    <3>1. Len(<<>>) = 0 /\ DOMAIN <<>> = {} /\ MaxBuffered \in Nat \ {0}
      BY EmptySeq, RoomFacts
    <3>2. Buffers(feeds[f])'
      BY <2>1, <2>4, <3>1 DEF Buffers
    <3>3. Asking(f)'
      BY <1>3, <2>1, <2>2, <2>4 DEF Asking
    <3>4. owed'[f] = <<>> /\ given'[f] = given[f] /\ DOMAIN given[f] = {} /\ Len(given[f]) = 0
      <4>1. DOMAIN given[f] = {}
        BY <1>1, LenProperties
      <4> QED BY <1>0, <1>1, <4>1
    <3>5. Reading(f)'
      BY <2>1, <2>2, <2>4, <3>1, <3>4 DEF Reading
    <3> QED BY <3>2, <3>3, <3>5
  <2>8. RoomFeed!Open(f)
    <3>1. ReaderState[f] = "none"
      BY <1>1 DEF ReaderState
    <3>2. ReaderState' = [ReaderState EXCEPT ![f] = "open"]
      <4>1. \A g \in StreamIds : ReaderState'[g] = IF g = f THEN "open" ELSE ReaderState[g]
        BY <2>2, <2>4 DEF ReaderState
      <4>2. ReaderState' = [g \in StreamIds |-> ReaderState'[g]]
        BY DEF ReaderState
      <4>3. ReaderState = [g \in StreamIds |-> ReaderState[g]]
        BY DEF ReaderState
      <4> QED BY <4>1, <4>2, <4>3
    <3> QED BY <1>0, <3>1, <3>2 DEF RoomFeed!Open
  <2>9. Rooms'
    BY <2>5, <2>6, <2>7 DEF Rooms
  <2> QED BY <2>8, <2>9 DEF RoomFeed!Next
<1> QED BY <1>5, <1>6 DEF OpensFeed

\* What observe does to a feed that lives.
LEMMA RefusedIs ==
  ASSUME NEW g \in RoomRow, Buffers(g)
  PROVE  /\ Refused(g) \in RoomRow /\ Buffers(Refused(g)) /\ Refused(g).state = g.state
         /\ Refused(g).high = g.high /\ Refused(g).drops # 0
<1> DEFINE h == Refused(g)
<1>1. g.drops \in Nat /\ g.drops + 1 \in Nat
  BY DEF RoomRow
<1>2. h = [g EXCEPT !.drops = g.drops + 1]
  BY DEF Refused
<1>3. h \in RoomRow /\ h.events = g.events /\ h.high = g.high /\ h.lost = g.lost /\ h.state = g.state /\ h.drops = g.drops + 1
  BY <1>1, <1>2 DEF RoomRow
<1> HIDE DEF h
<1>4. Buffers(h) /\ h.drops # 0
  BY <1>1, <1>3 DEF Buffers
<1> QED BY <1>3, <1>4 DEF h

LEMMA LastIs ==
  ASSUME NEW S, NEW q \in Seq(S), NEW n \in Nat, n <= Len(q)
  PROVE  Last(q, n) \in Seq(S)
<1>1. \A i \in (Len(q) - n + 1) .. Len(q) : q[i] \in S
  <2> SUFFICES ASSUME NEW i \in (Len(q) - n + 1) .. Len(q) PROVE i \in 1 .. Len(q)
    OBVIOUS
  <2>1. Len(q) \in Nat
    OBVIOUS
  <2> QED BY <2>1
<1>2. Len(q) \in Int /\ Len(q) - n + 1 \in Int
  OBVIOUS
<1> QED BY <1>1, <1>2, SubSeqProperties DEF Last

LEMMA JoinedIs ==
  ASSUME RoomAssumption, NEW g \in RoomRow, Buffers(g), NEW o \in Told
  PROVE  /\ Joined(g, o) \in RoomRow /\ Buffers(Joined(g, o)) /\ Joined(g, o).state = g.state
         /\ Joined(g, o).drops = g.drops /\ Joined(g, o).high = g.high + 1
         /\ \A i \in DOMAIN Joined(g, o).events :
              LET w == Joined(g, o).lost + i
                  j == w - g.lost
              IN /\ w \in 1 .. g.high + 1
                 /\ Joined(g, o).events[i].what = IF w = g.high + 1 THEN o ELSE g.events[j].what
                 /\ w # g.high + 1 => j \in DOMAIN g.events
<1>0. /\ g.events \in Seq(Numbered) /\ g.seen \in Seq(Told) /\ g.high \in Nat /\ g.lost \in Nat
      /\ Len(g.events) \in Nat /\ Len(g.seen) \in Nat /\ MaxBuffered \in Nat \ {0}
      /\ Len(g.events) <= MaxBuffered /\ g.high = g.lost + Len(g.events)
  BY RoomFacts DEF RoomRow, Buffers
<1> DEFINE s == Append(g.seen, o)
           room == IF Len(g.seen) < MaxBuffered THEN Len(g.seen) + 1 ELSE MaxBuffered
           e == [n |-> g.high + 1, what |-> o]
           all == Append(g.events, e)
           kept == Last(s, room)
           h == [g EXCEPT !.seen = kept, !.high = g.high + 1, !.events = all]
<1>1. kept \in Seq(Told)
  <2>1. s \in Seq(Told) /\ Len(s) = Len(g.seen) + 1
    BY <1>0, AppendProperties
  <2>2. room \in Nat /\ room <= Len(g.seen) + 1
    BY <1>0
  <2> HIDE DEF s, room
  <2> QED BY <1>0, <2>1, <2>2, LastIs
<1>2. e \in Numbered /\ e.n = g.high + 1 /\ e.what = o
  BY <1>0 DEF Numbered
<1>3. /\ all \in Seq(Numbered) /\ Len(all) = Len(g.events) + 1 /\ all # <<>>
      /\ \A i \in 1 .. Len(g.events) : all[i] = g.events[i]
      /\ all[Len(g.events) + 1] = e
  <2> HIDE DEF e
  <2> QED BY <1>0, <1>2, AppendProperties
<1> HIDE DEF s, room, kept, e, all
<1>4. h \in RoomRow /\ h.events = all /\ h.high = g.high + 1 /\ h.lost = g.lost /\ h.state = g.state /\ h.drops = g.drops
  <2>1. g.high + 1 \in Nat
    BY <1>0
  <2> QED BY <1>1, <1>3, <2>1 DEF RoomRow
<1>5. Joined(g, o) = IF Len(h.events) > MaxBuffered THEN Discarded(h) ELSE h
  BY DEF Joined, kept, s, room, all, e
<1> HIDE DEF h
<1>6. \A i \in 1 .. Len(all) : /\ all[i].n = g.lost + i
                               /\ all[i].what = IF g.lost + i = g.high + 1 THEN o ELSE g.events[i].what
                               /\ g.lost + i # g.high + 1 => i \in DOMAIN g.events
  <2> SUFFICES ASSUME NEW i \in 1 .. Len(all)
               PROVE  /\ all[i].n = g.lost + i
                      /\ all[i].what = IF g.lost + i = g.high + 1 THEN o ELSE g.events[i].what
                      /\ g.lost + i # g.high + 1 => i \in DOMAIN g.events
    OBVIOUS
  <2>0. DOMAIN g.events = 1 .. Len(g.events) /\ \A j \in DOMAIN g.events : g.events[j].n = g.lost + j
    BY <1>0, LenProperties DEF Buffers
  <2>1. CASE i = Len(g.events) + 1
    <3>1. g.lost + i = g.high + 1
      BY <1>0, <2>1
    <3> QED BY <1>2, <1>3, <2>1, <3>1
  <2>2. CASE i # Len(g.events) + 1
    <3>1. i \in 1 .. Len(g.events) /\ g.lost + i # g.high + 1
      BY <1>0, <1>3, <2>2
    <3> QED BY <1>3, <2>0, <3>1
  <2> QED BY <2>1, <2>2
<1>7. CASE ~(Len(all) > MaxBuffered)
  <2>1. Joined(g, o) = h
    BY <1>4, <1>5, <1>7
  <2>2. Len(all) <= MaxBuffered /\ h.high = h.lost + Len(all) /\ DOMAIN all = 1 .. Len(all)
    BY <1>0, <1>3, <1>4, <1>7, LenProperties
  <2>3. Buffers(h)
    BY <1>4, <1>6, <2>2 DEF Buffers
  <2>4. \A i \in 1 .. Len(all) : g.lost + i \in 1 .. g.high + 1 /\ (g.lost + i) - g.lost = i
    BY <1>0, <1>3
  <2> QED BY <1>4, <1>6, <2>1, <2>2, <2>3, <2>4
<1>8. CASE Len(all) > MaxBuffered
  <2> DEFINE d == Discarded(h)
             t == Tail(all)
  <2>1. Len(all) \in Nat \ {0} /\ Len(all) = MaxBuffered + 1 /\ DOMAIN all = 1 .. Len(all)
    BY <1>0, <1>3, <1>8, LenProperties
  <2>2. /\ t \in Seq(Numbered) /\ Len(t) = Len(all) - 1 /\ Head(all) = all[1]
        /\ \A i \in 1 .. Len(t) : t[i] = all[i + 1]
    BY <1>3, HeadTailProperties
  <2>3. Head(all).n = g.lost + 1
    BY <1>6, <2>1, <2>2
  <2> HIDE DEF t
  <2>4. d = [h EXCEPT !.events = t, !.lost = g.lost + 1]
    BY <1>4, <2>3 DEF Discarded, t
  <2>5. d \in RoomRow /\ d.events = t /\ d.lost = g.lost + 1 /\ d.high = h.high /\ d.state = h.state /\ d.drops = h.drops
    <3>1. g.lost + 1 \in Nat
      BY <1>0
    <3> QED BY <1>4, <2>2, <2>4, <3>1 DEF RoomRow
  <2> HIDE DEF d
  <2>6. Joined(g, o) = d
    BY <1>4, <1>5, <1>8 DEF d
  <2>7. DOMAIN t = 1 .. Len(t) /\ Len(t) = MaxBuffered /\ d.high = d.lost + Len(t)
    <3>1. Len(t) = MaxBuffered /\ DOMAIN t = 1 .. Len(t)
      BY <1>0, <2>1, <2>2, LenProperties
    <3>2. Len(g.events) = MaxBuffered /\ d.high = g.high + 1 /\ d.lost = g.lost + 1 /\ g.high = g.lost + Len(g.events)
      BY <1>0, <1>3, <1>4, <2>1, <2>5
    <3> QED BY <1>0, <3>1, <3>2
  <2>8. \A i \in 1 .. Len(t) :
          /\ t[i].n = d.lost + i /\ d.lost + i \in 1 .. g.high + 1
          /\ t[i].what = IF d.lost + i = g.high + 1 THEN o ELSE g.events[(d.lost + i) - g.lost].what
          /\ d.lost + i # g.high + 1 => (d.lost + i) - g.lost \in DOMAIN g.events
    <3> SUFFICES ASSUME NEW i \in 1 .. Len(t)
                 PROVE  /\ t[i].n = d.lost + i /\ d.lost + i \in 1 .. g.high + 1
                        /\ t[i].what = IF d.lost + i = g.high + 1 THEN o ELSE g.events[(d.lost + i) - g.lost].what
                        /\ d.lost + i # g.high + 1 => (d.lost + i) - g.lost \in DOMAIN g.events
      OBVIOUS
    <3>1. /\ i + 1 \in 1 .. Len(all) /\ d.lost + i = g.lost + (i + 1) /\ (d.lost + i) - g.lost = i + 1
          /\ d.lost + i \in 1 .. g.high + 1
      <4>1. Len(t) = MaxBuffered /\ Len(all) = MaxBuffered + 1 /\ g.high = g.lost + MaxBuffered /\ d.lost = g.lost + 1
        BY <1>0, <1>3, <2>1, <2>5, <2>7
      <4>2. i \in Nat /\ i >= 1 /\ i <= MaxBuffered
        BY <1>0, <4>1
      <4>3. PICK l \in Nat, b \in Nat : l = g.lost /\ b = MaxBuffered
        BY <1>0
      <4>4. d.lost = l + 1 /\ g.high = l + b /\ Len(all) = b + 1 /\ i <= b
        BY <4>1, <4>2, <4>3
      <4>5. i + 1 \in 1 .. b + 1 /\ l + 1 + i \in 1 .. l + b + 1
        BY <4>2, <4>3, <4>4
      <4>6. l + 1 + i = l + (i + 1) /\ (l + 1 + i) - l = i + 1
        BY <4>2, <4>3
      <4> QED BY <4>3, <4>4, <4>5, <4>6
    <3>2. t[i] = all[i + 1]
      BY <2>2
    <3> QED BY <1>6, <3>1, <3>2
  <2>9. Buffers(d)
    BY <1>0, <2>5, <2>7, <2>8 DEF Buffers
  <2> QED BY <1>4, <2>5, <2>6, <2>7, <2>8, <2>9
<1> QED BY <1>7, <1>8

\* An observation: every feed that lives counts it, for a phone that reads.
LEMMA ObserveKeeps ==
  ASSUME RoomAssumption, Rooms, NEW l \in Leases, NEW what \in Observations \cup Broken, NEW m \in Residents,
         Observe(l, what, m)
  PROVE  Rooms' /\ [RoomFeed!Next]_(RoomFeed!vars)
<1> DEFINE o == [what |-> what, member |-> m]
           R == {f \in StreamIds : /\ Live(f) /\ reader[f].state = "reading"
                                   /\ ~(what \in Observations /\ m \in feeds[f].scope[1] /\ Repeats(feeds[f], o))}
<1>1. /\ o \in Told
      /\ UNCHANGED <<hour, registered, roster, asked, reader, given>>
      /\ observed < MaxObserved /\ observed' = observed + 1
      /\ owed' = [f \in StreamIds |-> IF f \in R THEN Append(owed[f], o) ELSE owed[f]]
  <2>1. owed' = [f \in StreamIds |-> IF f \in R THEN Append(owed[f], o) ELSE owed[f]]
    BY DEF Observe
  <2> QED BY <2>1 DEF Observe, Told
<1>2. feeds' = [f \in StreamIds |->
          IF ~Live(f) THEN Purged[f]
          ELSE IF what \in Broken \/ m \notin feeds[f].scope[1] THEN Refused(feeds[f])
          ELSE IF Repeats(feeds[f], o) THEN feeds[f] ELSE Joined(feeds[f], o)]
  BY DEF Observe
<1>3. \A f \in StreamIds : f \in R <=> /\ Live(f) /\ reader[f].state = "reading"
                                       /\ ~(what \in Observations /\ m \in feeds[f].scope[1] /\ Repeats(feeds[f], o))
  OBVIOUS
<1>4. RoomTypes /\ \A f \in StreamIds : feeds[f] \in RoomRow /\ Buffers(feeds[f]) /\ Asking(f) /\ Reading(f)
  BY RoomTyped DEF Rooms
<1> HIDE DEF o, R
<1>5. \A f \in StreamIds : owed'[f] = IF f \in R THEN Append(owed[f], o) ELSE owed[f]
  BY <1>1
<1>6. ASSUME NEW f \in StreamIds
      PROVE  \/ f \notin R /\ Same(feeds[f], feeds'[f]) /\ feeds'[f] \in RoomRow
             \/ Live(f) /\ feeds'[f] = Refused(feeds[f])
             \/ /\ Live(f) /\ feeds'[f] = Joined(feeds[f], o)
                /\ f \in R <=> reader[f].state = "reading"
  <2>1. CASE ~Live(f)
    BY <1>2, <1>3, <1>4, <2>1, PurgedIs
  <2>2. CASE Live(f) /\ (what \in Broken \/ m \notin feeds[f].scope[1])
    BY <1>2, <2>2
  <2>3. CASE Live(f) /\ ~(what \in Broken \/ m \notin feeds[f].scope[1]) /\ Repeats(feeds[f], o)
    <3>1. feeds'[f] = feeds[f] /\ what \in Observations
      BY <1>2, <2>3
    <3>2. f \notin R
      BY <1>3, <2>3, <3>1
    <3> QED BY <1>4, <3>1, <3>2 DEF Same
  <2>4. CASE Live(f) /\ ~(what \in Broken \/ m \notin feeds[f].scope[1]) /\ ~Repeats(feeds[f], o)
    BY <1>2, <1>3, <2>4
  <2> QED BY <2>1, <2>2, <2>3, <2>4
<1>7. ASSUME NEW f \in StreamIds
      PROVE  feeds'[f] \in RoomRow /\ (Buffers(feeds[f]) /\ Asking(f) /\ Reading(f))' /\ owed'[f] \in Seq(Told)
  <2>0. /\ feeds[f] \in RoomRow /\ owed[f] \in Seq(Told) /\ given[f] \in Seq(Told) /\ Len(owed[f]) \in Nat
        /\ Len(given[f]) \in Nat /\ feeds[f].high \in Nat /\ reader[f].cursor \in Nat /\ feeds[f].lost \in Nat
        /\ Buffers(feeds[f]) /\ Asking(f) /\ Reading(f)
    BY <1>4, RoomTyped
  <2>1. owed'[f] \in Seq(Told) /\ Len(owed'[f]) \in Nat
    BY <1>1, <1>5, <2>0, AppendProperties, LenProperties
  <2>2. Len(owed[f]) <= Len(owed'[f]) /\ \A i \in 1 .. Len(owed[f]) : owed'[f][i] = owed[f][i]
    BY <1>1, <1>5, <2>0, AppendProperties
  <2>3. /\ Len(given'[f]) = reader'[f].cursor /\ Len(given'[f]) <= Len(owed'[f])
        /\ \A i \in DOMAIN given'[f] : given'[f][i] = owed'[f][i]
    <3>1. given'[f] = given[f] /\ reader'[f] = reader[f]
      BY <1>1
    <3>2. DOMAIN given[f] = 1 .. Len(given[f]) /\ Len(given[f]) <= Len(owed[f]) /\ Len(given[f]) = reader[f].cursor
      BY <2>0, LenProperties DEF Reading
    <3>3. \A i \in DOMAIN given[f] : i \in 1 .. Len(owed[f])
      BY <2>0, <3>2
    <3> QED BY <2>0, <2>1, <2>2, <3>1, <3>2, <3>3 DEF Reading
  <2>4. CASE f \notin R /\ Same(feeds[f], feeds'[f]) /\ feeds'[f] \in RoomRow
    <3>1. owed'[f] = owed[f] /\ asked'[f] = asked[f] /\ reader'[f] = reader[f] /\ given'[f] = given[f]
      BY <1>1, <1>5, <2>4
    <3>2. (Buffers(feeds[f]) /\ Asking(f) /\ Reading(f))'
      BY <2>4, <3>1, FeedGoes
    <3> QED BY <2>1, <2>4, <3>2
  <2>5. CASE Live(f) /\ feeds'[f] = Refused(feeds[f])
    <3>1. /\ feeds'[f] \in RoomRow /\ Buffers(feeds[f])' /\ feeds'[f].state = feeds[f].state
          /\ feeds'[f].high = feeds[f].high /\ feeds'[f].drops # 0
      BY <2>0, <2>5, RefusedIs DEF Buffers
    <3>2. feeds[f].state = "open"
      BY <2>5 DEF Live
    <3>3. Asking(f)' /\ reader[f].state # "none"
      BY <1>1, <2>0, <3>1, <3>2 DEF Asking
    <3>4. reader'[f].cursor <= feeds'[f].high
      BY <1>1, <2>0, <3>1 DEF Reading
    <3>5. Reading(f)'
      BY <1>1, <2>3, <3>1, <3>3, <3>4 DEF Reading
    <3> QED BY <2>1, <3>1, <3>3, <3>5
  <2>6. CASE Live(f) /\ feeds'[f] = Joined(feeds[f], o) /\ (f \in R <=> reader[f].state = "reading")
    <3> DEFINE g == feeds[f]
               h == feeds'[f]
    <3>1. /\ h \in RoomRow /\ Buffers(h) /\ h.state = g.state /\ h.drops = g.drops /\ h.high = g.high + 1
          /\ \A i \in DOMAIN h.events :
               LET w == h.lost + i
                   j == w - g.lost
               IN /\ w \in 1 .. g.high + 1
                  /\ h.events[i].what = IF w = g.high + 1 THEN o ELSE g.events[j].what
                  /\ w # g.high + 1 => j \in DOMAIN g.events
      <4>1. PICK k : k = Joined(feeds[f], o)
        OBVIOUS
      <4>2. /\ k \in RoomRow /\ Buffers(k) /\ k.state = g.state /\ k.drops = g.drops /\ k.high = g.high + 1
            /\ \A i \in DOMAIN k.events :
                 LET w == k.lost + i
                     j == w - g.lost
                 IN /\ w \in 1 .. g.high + 1
                    /\ k.events[i].what = IF w = g.high + 1 THEN o ELSE g.events[j].what
                    /\ w # g.high + 1 => j \in DOMAIN g.events
        <5>1. feeds[f] \in RoomRow /\ Buffers(feeds[f]) /\ o \in Told
          BY <1>1, <2>0
        <5> QED BY <4>1, <5>1, JoinedIs
      <4>3. h = k
        BY <2>6, <4>1
      <4> QED BY <4>2, <4>3
    <3>2. g.state = "open"
      BY <2>6 DEF Live
    <3>3. Buffers(feeds[f])'
      BY <3>1 DEF Buffers
    <3>4. Asking(f)' /\ reader[f].state # "none"
      BY <1>1, <2>0, <3>1, <3>2 DEF Asking
    <3>5. reader'[f].cursor <= feeds'[f].high
      BY <1>1, <2>0, <3>1 DEF Reading
    <3>6. ASSUME reader[f].state = "reading", g.drops = 0
          PROVE  /\ Len(owed'[f]) = h.high
                 /\ \A i \in DOMAIN h.events : owed'[f][h.lost + i] = h.events[i].what
      <4>1. /\ Len(owed[f]) = g.high
            /\ \A i \in DOMAIN g.events : owed[f][g.lost + i] = g.events[i].what
        BY <2>0, <3>2, <3>6 DEF Reading
      <4>2. owed'[f] = Append(owed[f], o)
        BY <1>5, <2>6, <3>6
      <4>3. Len(owed'[f]) = g.high + 1 /\ owed'[f][g.high + 1] = o
        BY <1>1, <2>0, <4>1, <4>2, AppendProperties
      <4>4. ASSUME NEW i \in DOMAIN h.events PROVE owed'[f][h.lost + i] = h.events[i].what
        <5>1. PICK w \in Int, j \in Int : w = h.lost + i /\ j = w - g.lost
          <6>1. h.lost \in Nat /\ g.lost \in Nat /\ i \in Nat
            BY <2>0, <3>1, LenProperties DEF RoomRow
          <6> QED BY <6>1
        <5>2. /\ w \in 1 .. g.high + 1
              /\ h.events[i].what = IF w = g.high + 1 THEN o ELSE g.events[j].what
              /\ w # g.high + 1 => j \in DOMAIN g.events
          BY <3>1, <5>1
        <5>3. CASE w = g.high + 1
          BY <4>3, <5>1, <5>2, <5>3
        <5>4. CASE w # g.high + 1
          <6>1. g.lost + j = w /\ w \in 1 .. Len(owed[f])
            <7>1. g.lost \in Nat /\ g.high \in Nat /\ w \in 1 .. g.high + 1 /\ Len(owed[f]) = g.high
              BY <2>0, <4>1, <5>2
            <7>2. w \in 1 .. g.high
              BY <5>4, <7>1
            <7>3. g.lost + j = w
              BY <5>1, <7>1
            <7> QED BY <7>1, <7>2, <7>3
          <6> QED BY <2>2, <4>1, <5>1, <5>2, <5>4, <6>1
        <5> QED BY <5>3, <5>4
      <4> QED BY <3>1, <4>3, <4>4
    <3>7. Reading(f)'
      BY <1>1, <2>3, <3>1, <3>4, <3>5, <3>6 DEF Reading
    <3> QED BY <2>1, <3>1, <3>3, <3>4, <3>7
  <2> QED BY <1>6, <2>4, <2>5, <2>6
<1>8. RoomTypes'
  <2>1. feeds' \in [StreamIds -> RoomRow] /\ owed' \in [StreamIds -> Seq(Told)]
    BY <1>1, <1>2, <1>7
  <2>2. observed' \in 0..MaxObserved
    <3>1. observed \in Nat /\ MaxObserved \in Nat
      BY <1>4, RoomFacts DEF RoomTypes
    <3> QED BY <1>1, <3>1
  <2> QED BY <1>1, <1>4, <2>1, <2>2 DEF RoomTypes
<1>9. Rooms'
  BY <1>7, <1>8 DEF Rooms
<1>10. RoomFeed!Publish(o, R, {})
  <2>1. \A f \in R : ReaderState[f] = "open"
    BY DEF R, ReaderState
  <2>2. ReaderState' = ReaderState
    BY <1>1 DEF ReaderState
  <2>3. owed' = [f \in StreamIds |-> IF f \in R /\ ReaderState[f] = "open" THEN Append(owed[f], o) ELSE owed[f]]
    BY <1>1, <2>1
  <2>4. ReaderState = [f \in StreamIds |-> ReaderState[f]]
    BY DEF ReaderState
  <2> QED BY <1>1, <2>2, <2>3, <2>4 DEF RoomFeed!Publish
<1>11. R \in SUBSET StreamIds /\ {} \in SUBSET StreamIds /\ o \in [what: Observations \cup Broken, member: Residents]
  BY <1>1 DEF R, Told
<1> QED BY <1>9, <1>10, <1>11 DEF RoomFeed!Next

LEMMA RoomBegins == ASSUME RoomAssumption, RoomInit PROVE Rooms /\ RoomFeed!Init
<1>1. RoomTypes
  <2>1. NoFeed \in RoomRow /\ NoRequest \in [at: {"none", "open", "poll"}, scope: Rosters]
    <3>1. <<{}, 0>> \in Rosters
      BY RoomFacts DEF Rosters
    <3>2. <<>> \in Seq(Numbered) /\ <<>> \in Seq(Told)
      BY EmptySeq
    <3> QED BY <3>1, <3>2 DEF NoFeed, NoRequest, RoomRow
  <2>2. <<Residents, 0>> \in Rosters /\ 0 \in 0..MaxHours /\ 0 \in 0..MaxObserved /\ <<>> \in Seq(Told)
    BY RoomFacts, EmptySeq DEF Rosters
  <2>3. hour = 0 /\ registered = {} /\ observed = 0 /\ roster = <<Residents, 0>>
    BY DEF RoomInit
  <2>4. feeds \in [StreamIds -> RoomRow] /\ asked \in [StreamIds -> [at: {"none", "open", "poll"}, scope: Rosters]]
    BY <2>1 DEF RoomInit
  <2>5. reader \in [StreamIds -> [cursor: Nat, state: {"none", "reading", "reset"}]]
    BY DEF RoomInit
  <2>6. owed \in [StreamIds -> Seq(Told)] /\ given \in [StreamIds -> Seq(Told)]
    BY <2>2 DEF RoomInit
  <2> QED BY <2>2, <2>3, <2>4, <2>5, <2>6 DEF RoomTypes
<1>2. ASSUME NEW f \in StreamIds PROVE Buffers(feeds[f]) /\ Asking(f) /\ Reading(f)
  <2>1. /\ feeds[f] = NoFeed /\ asked[f] = NoRequest /\ reader[f] = [cursor |-> 0, state |-> "none"]
        /\ owed[f] = <<>> /\ given[f] = <<>>
    BY DEF RoomInit
  <2>2. /\ NoFeed.state = "none" /\ NoFeed.events = <<>> /\ NoFeed.high = 0 /\ NoFeed.lost = 0
        /\ NoRequest.at = "none" /\ Len(<<>>) = 0 /\ DOMAIN <<>> = {}
    BY EmptySeq DEF NoFeed, NoRequest
  <2>3. MaxBuffered \in Nat \ {0}
    BY RoomFacts
  <2>4. Buffers(feeds[f])
    BY <2>1, <2>2, <2>3 DEF Buffers
  <2> QED BY <2>1, <2>2, <2>4 DEF Asking, Reading
<1>3. RoomFeed!Init
  BY DEF RoomInit, RoomFeed!Init, ReaderState
<1> QED BY <1>1, <1>2, <1>3 DEF Rooms

LEMMA RoomGoesOn ==
  ASSUME RoomAssumption, Rooms, [RoomNext]_roomVars
  PROVE  Rooms' /\ [RoomFeed!Next]_(RoomFeed!vars)
<1>1. CASE \/ TimePasses
           \/ \E l \in Leases : Attach(l) \/ Detach(l)
           \/ \E M \in SUBSET Residents : RosterChanges(M)
           \/ \E f \in StreamIds : Asks(f)
  BY <1>1, RoomAside, RoomEnds
<1>2. ASSUME NEW f \in StreamIds, OpensFeed(f) PROVE Rooms' /\ [RoomFeed!Next]_(RoomFeed!vars)
  BY <1>2, OpensKeeps
<1>3. ASSUME NEW f \in StreamIds, AsksPage(f) \/ CloseFeed(f) PROVE Rooms' /\ [RoomFeed!Next]_(RoomFeed!vars)
  BY <1>3, PollStarts
<1>4. ASSUME NEW f \in StreamIds, NEW n \in 1..PageLimit, NEW arrives \in BOOLEAN, Polls(f, n, arrives)
      PROVE  Rooms' /\ [RoomFeed!Next]_(RoomFeed!vars)
  BY <1>4, PollsKeeps
<1>5. ASSUME NEW l \in Leases, NEW what \in Observations \cup Broken, NEW m \in Residents, Observe(l, what, m)
      PROVE  Rooms' /\ [RoomFeed!Next]_(RoomFeed!vars)
  BY <1>5, ObserveKeeps
<1>6. CASE UNCHANGED roomVars
  <2>1. UNCHANGED <<hour, registered, feeds, roster, asked, reader, owed, given, observed>>
    BY <1>6 DEF roomVars
  <2>2. Rooms'
    BY <2>1 DEF Rooms, RoomTypes, Buffers, Asking, Reading
  <2> QED BY <2>1, <2>2, RoomEnds
<1> QED BY <1>1, <1>2, <1>3, <1>4, <1>5, <1>6 DEF RoomNext

LEMMA RoomShows == ASSUME RoomAssumption, Rooms PROVE RoomTypeOK
<1>1. RoomTypes
  BY DEF Rooms
<1>2. ASSUME NEW f \in StreamIds
      PROVE  /\ feeds[f].state \in {"none", "open", "gone"} /\ feeds[f].scope \in Rosters
             /\ Len(feeds[f].events) <= MaxBuffered /\ feeds[f].lost <= feeds[f].high
             /\ asked[f].at \in {"none", "open", "poll"}
             /\ reader[f].state \in {"none", "reading", "reset"} /\ reader[f].cursor <= feeds[f].high
  <2>1. feeds[f] \in RoomRow /\ Buffers(feeds[f]) /\ Reading(f)
    BY RoomTyped DEF Rooms
  <2>2. feeds[f].lost <= feeds[f].high
    <3>1. feeds[f].lost \in Nat /\ Len(feeds[f].events) \in Nat /\ feeds[f].high = feeds[f].lost + Len(feeds[f].events)
      BY <1>1, <2>1, RoomTyped DEF Buffers
    <3> QED BY <3>1
  <2> QED BY <1>1, <2>1, <2>2 DEF RoomTypes, RoomRow, Buffers, Reading
<1> QED BY <1>1, <1>2 DEF RoomTypes, RoomTypeOK

LEMMA RoomSafety == ASSUME RoomAssumption PROVE RoomSpec => []Rooms
<1>1. RoomInit => Rooms
  BY RoomBegins
<1>2. Rooms /\ [RoomNext]_roomVars => Rooms'
  BY RoomGoesOn
<1> QED BY <1>1, <1>2, PTL DEF RoomSpec

\* Types and bounds of the hub of the rooms: no feed buffers more than its limit, and no
\* cursor is ahead of its feed.
THEOREM RoomTyping == ASSUME RoomAssumption PROVE RoomSpec => []RoomTypeOK
<1>1. Rooms => RoomTypeOK
  BY RoomShows
<1> QED BY <1>1, RoomSafety, PTL

\* A feed of a room gives its phone what the hook reported since it opened, in that order
\* and without a gap, until it is told to start again: whatever the buffer discarded, the
\* projection refused, the feed remembered, or the way lost (room_activity.py, _page).
THEOREM RoomsAreFeeds == ASSUME RoomAssumption PROVE RoomSpec => ImplementsRoomFeed
<1>1. RoomInit => RoomFeed!Init
  BY RoomBegins
<1>2. Rooms /\ [RoomNext]_roomVars => [RoomFeed!Next]_(RoomFeed!vars)
  BY RoomGoesOn
<1> QED BY <1>1, <1>2, RoomSafety, PTL DEF RoomSpec, ImplementsRoomFeed, RoomFeed!Spec
-----------------------------------------------------------------------------
(* What the host serves, whichever of its components takes steps.            *)

LEMMA ServedOne == ASSUME [Step]_allVars PROVE [StreamsNext]_streamVars /\ [RoomNext]_roomVars
<1>1. CASE UNCHANGED allVars
  BY <1>1 DEF allVars, servedVars
<1>2. CASE UNCHANGED servedVars
  BY <1>2 DEF servedVars
<1>3. CASE Serving(focus)
  BY <1>3 DEF Serving
<1> QED BY <1>1, <1>2, <1>3 DEF Step

\* The session streams and the room feeds of a host keep their promises side by side: types
\* and limits, no lost wake-up, views that catch up, and both are ordered feeds.
THEOREM FeedsStayConverging ==
  ASSUME StreamAssumption, RoomAssumption
  PROVE  Runs => FeedsConverge
<1>1. Start => Streams /\ Feed!Init /\ Rooms /\ RoomFeed!Init
  BY StreamsBegin, FeedsBegin, RoomBegins DEF Start
<1>2. ASSUME Streams, Rooms, [Step]_allVars
      PROVE  /\ Streams' /\ [Feed!Next]_(Feed!vars)
             /\ Rooms' /\ [RoomFeed!Next]_(RoomFeed!vars)
  <2>1. [StreamsNext]_streamVars /\ [RoomNext]_roomVars
    BY <1>2, ServedOne
  <2>2. Streams'
    BY <1>2, <2>1, StreamsGoOn
  <2>3. StreamsTypeOK'
    BY <2>2 DEF Streams
  <2> QED BY <1>2, <2>1, <2>2, <2>3, FeedStep, RoomGoesOn
<1>3. Streams /\ Rooms => StreamsTypeOK /\ RoomTypeOK /\ NoLostWakeUp /\ ViewsConverge
  BY RoomShows DEF Streams, NoLostWakeUp, Awake, Notable, ViewsConverge, Converges
<1> QED BY <1>1, <1>2, <1>3, PTL DEF Runs, FeedsConverge, ImplementsFeed, Feed!Spec, ImplementsRoomFeed, RoomFeed!Spec
===============================================================================
