------------------------------ MODULE SessionLane ------------------------------
(***************************************************************************)
(* What LinkActivityBroker (activity_bridge.py) keeps of a session besides  *)
(* its turns: the tables that say to whose chat something belongs, and the  *)
(* standing goal.  They share the life of the lane and none of the state.   *)
(***************************************************************************)
EXTENDS Integers, Sequences, FiniteSets

-----------------------------------------------------------------------------
(***************************************************************************)
(* The routing tables of the activity broker (activity_bridge.py): which    *)
(* chat a Hermes session belongs to, the usage reported for it, and the     *)
(* processes to which an agent handed a message over and whose replies      *)
(* return to the chat.  Each table is bounded and forgets its oldest entry; *)
(* the hooks run on threads of Hermes, each access under the lock, and the  *)
(* loss of the socket empties all of them.                                  *)
(*                                                                          *)
(* A usage report has the time its request ended; reports of one session    *)
(* and model are compared by it.  A session has one model.                  *)
(***************************************************************************)

CONSTANTS
  Sessions, Chats,
  Requests,          \* API requests: a session's each, ended in the order of their numbers
  SessionOf,         \* the session of a request
  Processes,         \* processes of messages handed to other agents
  Bound              \* maximum_bound_sessions
CONSTANTS MaxBinds, MaxDetaches    \* bounds of the model

RouteAssumption ==
  /\ Requests \subseteq Nat \ {0} /\ SessionOf \in [Requests -> Sessions] /\ Bound \in Nat \ {0}
  /\ {MaxBinds, MaxDetaches} \subseteq Nat

VARIABLES
  routes,     \* _bound_sessions, the oldest first: <<session, chat>>
  usage,      \* _api_usage: <<session, request, chat>>; the chat is history
  handoffs,   \* _handoffs_by_process: <<process, chat>>
  binds, detaches,
  reported,   \* requests reported so far
  begun,      \* processes started so far
  returned    \* history: <<process, chat>> of the replies announced

routeVars == <<routes, usage, handoffs, binds, detaches, reported, begun, returned>>

Keys(table) == {table[i][1] : i \in 1..Len(table)}
Entry(table, key) == table[CHOOSE i \in 1..Len(table) : table[i][1] = key]
Without(table, key) == SelectSeq(table, LAMBDA e : e[1] # key)
\* An OrderedDict's entry is set anew at its end, and the oldest goes when there are too many.
Put(table, entry) ==
  LET all == Append(Without(table, entry[1]), entry)
  IN IF Len(all) > Bound THEN Tail(all) ELSE all

RouteTypeOK ==
  /\ \A table \in {routes, usage, handoffs} :
       Len(table) <= Bound /\ Cardinality(Keys(table)) = Len(table)
  /\ Keys(routes) \cup Keys(usage) \subseteq Sessions /\ Keys(handoffs) \subseteq Processes
  /\ reported \subseteq Requests /\ begun \subseteq Processes

RouteInit ==
  /\ routes = <<>> /\ usage = <<>> /\ handoffs = <<>>
  /\ binds = 0 /\ detaches = 0 /\ reported = {} /\ begun = {} /\ returned = <<>>

-----------------------------------------------------------------------------
\* bind_link_session, which activate calls for a turn and the adapter for a message: a
\* session that changes its chat, or is pushed out, loses its usage.
Bind(s, chat) ==
  /\ binds < MaxBinds /\ binds' = binds + 1
  /\ LET next == Put(routes, <<s, chat>>)
         moved == {r \in Keys(routes) : r \notin Keys(next)}
                  \cup (IF s \in Keys(routes) /\ Entry(routes, s)[2] # chat THEN {s} ELSE {})
     IN /\ routes' = next
        /\ usage' = SelectSeq(usage, LAMBDA u : u[1] \notin moved)
  /\ UNCHANGED <<handoffs, detaches, reported, begun, returned>>

\* bound_link_session makes an entry the newest.
Lookup(s) ==
  /\ s \in Keys(routes)
  /\ routes' = Append(Without(routes, s), Entry(routes, s))
  /\ UNCHANGED <<usage, handoffs, binds, detaches, reported, begun, returned>>

\* record_api_usage, in any order of the requests: one that ended before the one
\* recorded is stale.
Stale(s, q) == s \in Keys(usage) /\ Entry(usage, s)[2] >= q
Record(q) ==
  LET s == SessionOf[q]
  IN /\ q \notin reported /\ reported' = reported \cup {q}
     /\ usage' = IF s \notin Keys(routes) \/ Stale(s, q) THEN usage
                 ELSE Put(usage, <<s, q, Entry(routes, s)[2]>>)
     /\ UNCHANGED <<routes, handoffs, binds, detaches, begun, returned>>
\* reset_api_usage: the session is reset, its chat stays.
Reset(s) ==
  /\ s \in Keys(usage) /\ usage' = Without(usage, s)
  /\ UNCHANGED <<routes, handoffs, binds, detaches, reported, begun, returned>>

\* bind_handoff_process, when the tool call that sent the message has succeeded.
HandOver(p, chat) ==
  /\ p \notin begun /\ begun' = begun \cup {p}
  /\ handoffs' = Put(handoffs, <<p, chat>>)
  /\ UNCHANGED <<routes, usage, binds, detaches, reported, returned>>
\* take_handoff_process: a turn of some chat says that the process has ended.
Return(p, chat) ==
  /\ p \in Keys(handoffs) /\ Entry(handoffs, p)[2] = chat
  /\ handoffs' = Without(handoffs, p)
  /\ returned' = Append(returned, <<p, chat>>)
  /\ UNCHANGED <<routes, usage, binds, detaches, reported, begun>>

\* detach
ForgetRoutes ==
  /\ detaches < MaxDetaches /\ detaches' = detaches + 1
  /\ routes' = <<>> /\ usage' = <<>> /\ handoffs' = <<>>
  /\ UNCHANGED <<binds, reported, begun, returned>>

RouteNext ==
  \/ \E s \in Sessions : Lookup(s) \/ Reset(s) \/ \E chat \in Chats : Bind(s, chat)
  \/ \E q \in Requests : Record(q)
  \/ \E p \in Processes, chat \in Chats : HandOver(p, chat) \/ Return(p, chat)
  \/ ForgetRoutes

-----------------------------------------------------------------------------
\* The usage a chat is shown was reported while its session was bound to that chat: a
\* session that moves to another chat, or comes back to one, brings none with it.
UsageOfTheChat == \A s \in Keys(usage) : s \in Keys(routes) /\ Entry(usage, s)[3] = Entry(routes, s)[2]

\* Reports that arrive in another order than their requests ended do not take the usage
\* of a session back, and a reply is announced once, whatever was forgotten between.
NotTakenBack ==
  [][\A s \in Keys(usage) \cap Keys(usage') : Entry(usage', s)[2] >= Entry(usage, s)[2]]_routeVars
ReturnedOnce == \A i, j \in 1..Len(returned) : returned[i][1] = returned[j][1] => i = j

-----------------------------------------------------------------------------
(***************************************************************************)
(* The standing goal of a session and how the phone learns of it: the       *)
(* snapshots of LinkActivityBroker (activity_bridge.py).  A hook, the poll  *)
(* of the event loop or a readback reads the goal from Hermes' store and    *)
(* stamps what it read, both under one lock; what is published may be lost  *)
(* on the bounded lane, and is published again every so often.              *)
(*                                                                          *)
(* The goal is the version of what Hermes stores.  The phone keeps the      *)
(* snapshot with the greatest updatedAt.  Stamps count the snapshots: where *)
(* detach forgets the last one, the clock is past it.                       *)
(***************************************************************************)

CONSTANTS Readers, NoReader      \* threads that read the goal
CONSTANTS MaxVersion, MaxLosses, MaxAttaches     \* bounds of the model

GoalAssumption == NoReader \notin Readers /\ {MaxVersion, MaxLosses, MaxAttaches} \subseteq Nat

VARIABLES
  attached, attaches,
  goal,          \* version of the goal that Hermes stores
  holder,        \* of _status_lock
  reading,       \* what each reader has read, or none (-1)
  snapshot,      \* _goal_snapshots: version and updatedAt, version -1 when there is none
  due,           \* not published, or longer ago than the interval
  lane,          \* snapshots on their way
  lastStamp, losses,
  phone          \* what the phone keeps

goalVars == <<attached, attaches, goal, holder, reading, snapshot, due, lane, lastStamp, losses, phone>>

NoSnapshot == [version |-> -1, at |-> 0]
Snapshots == [version: -1..MaxVersion, at: Nat]

GoalTypeOK ==
  /\ attached \in BOOLEAN /\ attaches \in 0..MaxAttaches /\ goal \in 0..MaxVersion
  /\ holder \in Readers \cup {NoReader} /\ reading \in [Readers -> -1..MaxVersion]
  /\ \A r \in Readers : reading[r] # -1 => holder = r
  /\ snapshot \in Snapshots /\ phone \in Snapshots /\ lane \subseteq Snapshots
  /\ due \in BOOLEAN /\ losses \in 0..MaxLosses /\ snapshot.at <= lastStamp

GoalInit ==
  /\ attached = TRUE /\ attaches = 0 /\ goal = 0
  /\ holder = NoReader /\ reading = [r \in Readers |-> -1]
  /\ snapshot = NoSnapshot /\ due = TRUE /\ lane = {} /\ lastStamp = 0 /\ losses = 0
  /\ phone = NoSnapshot

-----------------------------------------------------------------------------
GoalChanges ==
  /\ goal < MaxVersion /\ goal' = goal + 1
  /\ UNCHANGED <<attached, attaches, holder, reading, snapshot, due, lane, lastStamp, losses, phone>>

\* publish_goal_snapshot and goal_snapshot read the goal once they hold the lock.
Read(r) ==
  /\ holder = NoReader /\ holder' = r
  /\ reading' = [reading EXCEPT ![r] = goal]
  /\ UNCHANGED <<attached, attaches, goal, snapshot, due, lane, lastStamp, losses, phone>>

\* _goal_snapshot_locked: a goal that did not change keeps its stamp.
Stamped(version) ==
  IF snapshot.version = version THEN snapshot ELSE [version |-> version, at |-> lastStamp + 1]
\* publish, when the caller wants it published and it is due or forced.
Stamp(r, publishes, force) ==
  /\ holder = r /\ holder' = NoReader
  /\ reading' = [reading EXCEPT ![r] = -1]
  /\ LET next == Stamped(reading[r])
         wanted == publishes /\ (force \/ due \/ next # snapshot)
     IN /\ snapshot' = next
        /\ lastStamp' = IF next.at > lastStamp THEN next.at ELSE lastStamp
        /\ IF wanted /\ attached
             THEN lane' = lane \cup {next} /\ due' = FALSE
             ELSE due' = (due \/ next # snapshot) /\ UNCHANGED lane
  /\ UNCHANGED <<attached, attaches, goal, losses, phone>>
\* The store could not be read, or is not the session's any more.
Unavailable(r) ==
  /\ holder = r /\ losses < MaxLosses /\ losses' = losses + 1
  /\ holder' = NoReader /\ reading' = [reading EXCEPT ![r] = -1]
  /\ UNCHANGED <<attached, attaches, goal, snapshot, due, lane, lastStamp, phone>>

\* 30 seconds have passed.
Interval ==
  /\ ~due /\ due' = TRUE
  /\ UNCHANGED <<attached, attaches, goal, holder, reading, snapshot, lane, lastStamp, losses, phone>>

Deliver(s) ==
  /\ s \in lane /\ lane' = lane \ {s}
  /\ phone' = IF s.at > phone.at THEN s ELSE phone
  /\ UNCHANGED <<attached, attaches, goal, holder, reading, snapshot, due, lastStamp, losses>>
\* The bounded queue drops it, or its delivery fails.
Lose(s) ==
  /\ s \in lane /\ losses < MaxLosses
  /\ losses' = losses + 1 /\ lane' = lane \ {s}
  /\ UNCHANGED <<attached, attaches, goal, holder, reading, snapshot, due, lastStamp, phone>>

\* detach takes the lock first; attach follows with an empty lane.
Detach ==
  /\ attached /\ holder = NoReader /\ attached' = FALSE
  /\ snapshot' = NoSnapshot /\ due' = TRUE /\ lane' = {}
  /\ UNCHANGED <<attaches, goal, holder, reading, lastStamp, losses, phone>>
Attach ==
  /\ ~attached /\ attaches < MaxAttaches
  /\ attached' = TRUE /\ attaches' = attaches + 1
  /\ UNCHANGED <<goal, holder, reading, snapshot, due, lane, lastStamp, losses, phone>>

GoalNext ==
  \/ GoalChanges \/ Interval \/ Detach \/ Attach
  \/ \E r \in Readers : Read(r) \/ Unavailable(r) \/ \E publishes, force \in BOOLEAN : Stamp(r, publishes, force)
  \/ \E s \in lane : Deliver(s) \/ Lose(s)

\* The poll comes round, a reader releases the lock, time passes and the lane moves.
GoalFairness ==
  /\ \A r \in Readers : SF_goalVars(Read(r)) /\ SF_goalVars(\E force \in BOOLEAN : Stamp(r, TRUE, force))
  /\ WF_goalVars(Interval) /\ WF_goalVars(\E s \in lane : Deliver(s))

-----------------------------------------------------------------------------
\* A snapshot with a later stamp was read later: whichever threads read the goal, none
\* gives what it read earlier a newer stamp ("Read a goal under the same lock that
\* orders its observations").  The versions of the goal only grow.
StampedAsRead == \A s, u \in lane \cup {phone, snapshot} :
  s.at > u.at /\ u.at > 0 => s.version >= u.version

\* Losses and reconnections heal: while the lane is attached, the phone comes to keep
\* the goal that Hermes stores even if it never changes again.
GoalHeals == attached ~> (phone.version = goal \/ ~attached)
================================================================================
