------------------------------ MODULE RoomActivity ------------------------------
(***************************************************************************)
(* loopdy_plugin/room_activity.py and room_activity_api.py: disposable      *)
(* feeds of what the members of a hosted room do.  Hermes' hook observes,   *)
(* in any thread; a phone opens a feed, polls pages by cursor and closes    *)
(* it.  Both handlers read the room's authority and roster over an await,   *)
(* between checks.  Each block under the hub's lock is one step.            *)
(***************************************************************************)
EXTENDS Integers, Sequences, FiniteSets

CONSTANTS
  Leases,         \* registrations of the hook
  StreamIds,      \* each opened once; of one room and one owner
  Residents,      \* who may be in the room
  Tracked,        \* observations with a sourceSequence, which may repeat,
  Loose,          \* and those without one
  Broken          \* payloads project_observation refuses

CONSTANTS         \* the module's limits
  MaxFeeds, MaxBuffered, LeaseSeconds, PageLimit

CONSTANTS MaxHours, MaxObserved, MaxRosters    \* bounds of the model

Observations == Tracked \cup Loose

RoomAssumption ==
  /\ Tracked \cap Loose = {} /\ Broken \cap Observations = {}
  /\ {MaxFeeds, MaxBuffered, LeaseSeconds, PageLimit} \subseteq Nat \ {0}
  /\ {MaxHours, MaxObserved, MaxRosters} \subseteq Nat

VARIABLES
  hour,
  registered,   \* _registrations
  feeds,        \* _feeds, by stream id
  roster,       \* the room: its members, and how often it changed
  asked,        \* open and poll requests that await the room: the scope they read
  reader,       \* per feed: the phone's cursor, and whether it was told to start again
  owed, given,  \* history: what a feed's reader was owed, and what it got
  observed      \* observations so far

roomVars == <<hour, registered, feeds, roster, asked, reader, owed, given, observed>>

-----------------------------------------------------------------------------
NoFeed == [state |-> "none", scope |-> <<{}, 0>>, deadline |-> 0, events |-> <<>>, seen |-> <<>>,
           high |-> 0, lost |-> 0, drops |-> 0]
NoRequest == [at |-> "none", scope |-> <<{}, 0>>]
Rosters == (SUBSET Residents) \X (0..MaxRosters)

RoomTypeOK ==
  /\ hour \in 0..MaxHours /\ registered \subseteq Leases
  /\ \A f \in StreamIds :
       /\ feeds[f].state \in {"none", "open", "gone"} /\ feeds[f].scope \in Rosters
       /\ Len(feeds[f].events) <= MaxBuffered /\ feeds[f].lost <= feeds[f].high
       /\ asked[f].at \in {"none", "open", "poll"}
       /\ reader[f].state \in {"none", "reading", "reset"} /\ reader[f].cursor <= feeds[f].high
  /\ roster \in Rosters /\ observed \in 0..MaxObserved

RoomInit ==
  /\ hour = 0 /\ registered = {} /\ observed = 0
  /\ feeds = [f \in StreamIds |-> NoFeed]
  /\ roster = <<Residents, 0>>
  /\ asked = [f \in StreamIds |-> NoRequest]
  /\ reader = [f \in StreamIds |-> [cursor |-> 0, state |-> "none"]]
  /\ owed = [f \in StreamIds |-> <<>>]
  /\ given = [f \in StreamIds |-> <<>>]

Remembered(q) == {q[i] : i \in DOMAIN q}
Last(q, n) == SubSeq(q, Len(q) - n + 1, Len(q))
Live(f) == feeds[f].state = "open" /\ feeds[f].deadline > hour
\* _purge, at the start of every call.
Purged == [f \in StreamIds |-> IF feeds[f].state = "open" /\ ~Live(f) THEN [feeds[f] EXCEPT !.state = "gone"] ELSE feeds[f]]
AllGone == [f \in StreamIds |-> IF feeds[f].state = "open" THEN [feeds[f] EXCEPT !.state = "gone"] ELSE feeds[f]]

-----------------------------------------------------------------------------
\* attach and detach retire every feed.
Attach(l) ==
  /\ registered' = registered \cup {l}
  /\ feeds' = AllGone
  /\ UNCHANGED <<hour, roster, asked, reader, owed, given, observed>>

Detach(l) ==
  /\ l \in registered
  /\ registered' = registered \ {l}
  /\ feeds' = AllGone
  /\ UNCHANGED <<hour, roster, asked, reader, owed, given, observed>>

\* The room's roster or authority changes, in Hermes.
RosterChanges(M) ==
  /\ roster[2] < MaxRosters
  /\ roster' = <<M, roster[2] + 1>>
  /\ UNCHANGED <<hour, registered, feeds, asked, reader, owed, given, observed>>

TimePasses ==
  /\ hour < MaxHours
  /\ hour' = hour + 1
  /\ UNCHANGED <<registered, feeds, roster, asked, reader, owed, given, observed>>

\* open_feed reads the room, then opens under the lock.
Asks(f) ==
  /\ feeds[f].state = "none" /\ asked[f].at = "none"
  /\ asked' = [asked EXCEPT ![f] = [at |-> "open", scope |-> roster]]
  /\ UNCHANGED <<hour, registered, feeds, roster, reader, owed, given, observed>>

OpensFeed(f) ==
  /\ asked[f].at = "open"
  /\ asked' = [asked EXCEPT ![f] = NoRequest]
  /\ IF registered # {} /\ Cardinality({g \in StreamIds : Live(g)}) < MaxFeeds
     THEN /\ feeds' = [Purged EXCEPT ![f] = [NoFeed EXCEPT !.state = "open", !.scope = asked[f].scope,
                                                           !.deadline = hour + LeaseSeconds]]
          /\ reader' = [reader EXCEPT ![f] = [cursor |-> 0, state |-> "reading"]]
     ELSE feeds' = Purged /\ UNCHANGED reader
  /\ UNCHANGED <<hour, registered, roster, owed, given, observed>>

\* poll_feed checks that the feed is there, reads the room, then polls.
AsksPage(f) ==
  /\ reader[f].state = "reading" /\ asked[f].at = "none"
  /\ feeds' = Purged
  /\ IF Live(f)
     THEN asked' = [asked EXCEPT ![f] = [at |-> "poll", scope |-> roster]] /\ UNCHANGED reader
     ELSE reader' = [reader EXCEPT ![f].state = "reset"] /\ UNCHANGED asked
  /\ UNCHANGED <<hour, registered, roster, owed, given, observed>>

\* Mutant: an observation the projection refused is not counted against the page.
BufferLossOnly(f, after) == after < feeds[f].lost
\* _page: why the reader has to start again.
LostSomething(f, after) == feeds[f].drops > 0 \/ after < feeds[f].lost
\* The events beyond the cursor; their numbers ascend, so the others come first.
Page(f, after, n) ==
  LET events == feeds[f].events
      old == Cardinality({i \in DOMAIN events : events[i].n <= after})
  IN SubSeq(events, old + 1, IF old + n < Len(events) THEN old + n ELSE Len(events))

\* The answer may not reach the phone, which then asks for the same page again.
Polls(f, n, arrives) ==
  /\ asked[f].at = "poll"
  /\ asked' = [asked EXCEPT ![f] = NoRequest]
  /\ LET page == Page(f, reader[f].cursor, n)
         resets == [reader EXCEPT ![f].state = IF arrives THEN "reset" ELSE @]
     IN IF ~Live(f)
          THEN feeds' = Purged /\ reader' = resets /\ UNCHANGED given
        ELSE IF feeds[f].scope # asked[f].scope
          THEN feeds' = [Purged EXCEPT ![f].state = "gone"] /\ reader' = resets /\ UNCHANGED given
        ELSE /\ feeds' = [Purged EXCEPT ![f].deadline = hour + LeaseSeconds]
             /\ IF LostSomething(f, reader[f].cursor) THEN reader' = resets /\ UNCHANGED given
                ELSE IF ~arrives \/ page = <<>> THEN UNCHANGED <<reader, given>>
                ELSE /\ reader' = [reader EXCEPT ![f].cursor = page[Len(page)].n]
                     /\ given' = [given EXCEPT ![f] = @ \o [i \in DOMAIN page |-> page[i].what]]
  /\ UNCHANGED <<hour, registered, roster, owed, observed>>

CloseFeed(f) ==
  /\ reader[f].state = "reading"
  /\ feeds' = [Purged EXCEPT ![f].state = "gone"]
  /\ reader' = [reader EXCEPT ![f].state = "reset"]
  /\ UNCHANGED <<hour, registered, roster, asked, owed, given, observed>>

-----------------------------------------------------------------------------
\* The buffer is full: the oldest event goes, and its number is kept.
Discarded(g) == [g EXCEPT !.events = Tail(@), !.lost = Head(g.events).n]

\* observe, for one feed: an observation that cannot be shown is a loss of the whole
\* feed, a repetition of one the feed still remembers is nothing.
Refused(g) == [g EXCEPT !.drops = @ + 1]
Repeats(g, o) == o.what \in Tracked /\ o \in Remembered(g.seen)
Joined(g, o) ==
  LET h == [g EXCEPT !.seen = Last(Append(@, o), IF Len(@) < MaxBuffered THEN Len(@) + 1 ELSE MaxBuffered),
                     !.high = @ + 1, !.events = Append(@, [n |-> g.high + 1, what |-> o])]
  IN IF Len(h.events) > MaxBuffered THEN Discarded(h) ELSE h

Observe(l, what, m) ==
  LET o == [what |-> what, member |-> m]
      counts(f) == Live(f) /\ reader[f].state = "reading" /\ ~(what \in Observations /\ m \in feeds[f].scope[1] /\ Repeats(feeds[f], o))
  IN /\ observed < MaxObserved /\ l \in registered
     /\ observed' = observed + 1
     /\ feeds' = [f \in StreamIds |->
          IF ~Live(f) THEN Purged[f]
          ELSE IF what \in Broken \/ m \notin feeds[f].scope[1] THEN Refused(feeds[f])
          ELSE IF Repeats(feeds[f], o) THEN feeds[f] ELSE Joined(feeds[f], o)]
     /\ owed' = [f \in StreamIds |-> IF counts(f) THEN Append(owed[f], o) ELSE owed[f]]
     /\ UNCHANGED <<hour, registered, roster, asked, reader, given>>

RoomNext ==
  \/ TimePasses
  \/ \E l \in Leases : Attach(l) \/ Detach(l)
  \/ \E M \in SUBSET Residents : RosterChanges(M)
  \/ \E f \in StreamIds : Asks(f) \/ OpensFeed(f) \/ AsksPage(f) \/ CloseFeed(f)
  \/ \E f \in StreamIds, n \in 1..PageLimit, arrives \in BOOLEAN : Polls(f, n, arrives)
  \/ \E l \in Leases, what \in Observations \cup Broken, m \in Residents : Observe(l, what, m)

RoomSpec == RoomInit /\ [][RoomNext]_roomVars

-----------------------------------------------------------------------------
ReaderState == [f \in StreamIds |-> CASE reader[f].state = "none" -> "none"
                                      [] reader[f].state = "reading" -> "open"
                                      [] OTHER -> "ended"]
\* A feed of a room is an ordered feed: a phone that was not told to start again got
\* everything the hook reported since its feed opened, in order, whatever was
\* discarded, refused, repeated, or lost on the way to it.
RoomFeed == INSTANCE OrderedFeed WITH
  Readers <- StreamIds,
  Events <- [what: Observations \cup Broken, member: Residents],
  log <- owed, got <- given,
  state <- ReaderState
ImplementsRoomFeed == RoomFeed!Spec
=============================================================================
