----------------------------- MODULE TurnReplies -----------------------------
(***************************************************************************)
(* The reply routes of Hermes turns: TurnReplyRegistry of                  *)
(* loopdy_plugin/inbound_dispatch.py with the parts of LoopdyAdapter       *)
(* (loopdy_plugin/adapter.py) that take a lease, bind it to the task that  *)
(* runs the turn, send drafts, interim texts and finals through it and     *)
(* give it back.                                                           *)
(*                                                                         *)
(* A run is one delivery of a message: the same message may come again     *)
(* over another connection once its first run is over, and callbacks of    *)
(* the first may still be on their way.                                    *)
(***************************************************************************)
EXTENDS Naturals, FiniteSets

CONSTANTS
  Messages, Sessions, SessionOf,   \* [Messages -> Sessions]
  Direct, LinkRoute,               \* connections: direct sockets, and Link
  Runs, NoRun,
  MaxLeases                        \* TurnReplyRegistry.maximum

TurnRepliesAssumption ==
  /\ SessionOf \in [Messages -> Sessions] /\ LinkRoute \notin Direct
  /\ Messages # {} /\ NoRun \notin Runs /\ MaxLeases \in Nat \ {0}

VARIABLES
  up,        \* connections whose check_current passes
  leases,    \* _leases: the run that owns a message
  fences,    \* _direct_sessions
  message,   \* message of a run
  origin,    \* connection a run was asked over
  phase,     \* "none", "waiting", "dropped", "processing", "over"
  held,      \* current_turn_lease in the context of the run's task
  draft,     \* message whose draft is the active one of its turn
  delivered  \* history: connections an answer of the run went out on

replyVars == <<up, leases, fences, message, origin, phase, held, draft, delivered>>

-----------------------------------------------------------------------------
Connections == Direct \cup {LinkRoute}
Broadcast == "broadcast"
Session(r) == SessionOf[message[r]]
Owned == {m \in Messages : leases[m] # NoRun}

Full(m, c) ==
  \/ Cardinality(Owned) >= MaxLeases
  \/ c \in Direct /\ SessionOf[m] \notin fences /\ Cardinality(fences) >= MaxLeases

LeasesWithout(r) == [m \in Messages |-> IF leases[m] = r THEN NoRun ELSE leases[m]]

-----------------------------------------------------------------------------
(* receive_link_turn: the lease is registered, then Hermes takes the turn.  *)
(* The task that dispatches carries the new lease in its context; a queued  *)
(* turn will run in the context of whichever task comes to it.              *)
Receive(r, m, c, context) ==
  /\ phase[r] = "none" /\ c \in up
  /\ leases[m] = NoRun /\ ~Full(m, c)
  /\ leases' = [leases EXCEPT ![m] = r]
  /\ fences' = IF c \in Direct THEN fences \cup {SessionOf[m]} ELSE fences
  /\ message' = [message EXCEPT ![r] = m]
  /\ origin' = [origin EXCEPT ![r] = c]
  /\ phase' = [phase EXCEPT ![r] = "waiting"]
  /\ held' = [held EXCEPT ![r] = context]
  /\ UNCHANGED <<up, draft, delivered>>

(* _dispatch_link_turn raised, or the turn was a steer consumed inline      *)
(* whose acknowledgement was captured and never sent: the lease is back.    *)
DispatchEnds(r) ==
  /\ phase[r] = "waiting"
  /\ leases' = LeasesWithout(r)
  /\ phase' = [phase EXCEPT ![r] = "dropped"]
  /\ UNCHANGED <<up, fences, message, origin, held, draft, delivered>>

\* Mutant: a queued turn keeps the context of the task that comes to it.
KeepContext(r) == held' = held

(* on_processing_start binds the exact registered owner of the message.     *)
BindLease(r) == held' = [held EXCEPT ![r] = leases[message[r]]]

StartTurn(r) ==
  /\ phase[r] = "waiting"
  /\ phase' = [phase EXCEPT ![r] = "processing"]
  /\ BindLease(r)
  /\ UNCHANGED <<up, leases, fences, message, origin, draft, delivered>>

(* on_processing_complete                                                   *)
Complete(r) ==
  /\ phase[r] = "processing"
  /\ leases' = [leases EXCEPT ![message[r]] = NoRun]
  /\ phase' = [phase EXCEPT ![r] = "over"]
  /\ UNCHANGED <<up, fences, message, origin, held, draft, delivered>>

-----------------------------------------------------------------------------
(* resolve: an inherited lease must be the very lease that owns its         *)
(* message; without one, the message that is replied to names the route,    *)
(* and a session that ever spoke directly is never broadcast to.            *)
RouteResolves(r, named) ==
  IF held[r] # NoRun
  THEN /\ Session(held[r]) = Session(r)
       /\ named => message[held[r]] = message[r]
       /\ leases[message[held[r]]] = held[r]
  ELSE (named /\ leases[message[r]] # NoRun) \/ Session(r) \notin fences

Target(r, named) ==
  IF held[r] # NoRun THEN origin[leases[message[held[r]]]]
  ELSE IF named /\ leases[message[r]] # NoRun THEN origin[leases[message[r]]]
  ELSE Broadcast

(* send: drafts and interim texts leave the turn open, a final seals it.    *)
(* A callback may come while the turn runs or long after it ended.          *)
Send(r, named, final) ==
  /\ phase[r] \in {"processing", "over"}
  /\ RouteResolves(r, named)
  /\ LET to == Target(r, named) IN
     /\ to \in up \cup {Broadcast}
     /\ delivered' = [delivered EXCEPT ![r] = @ \cup {to}]
  /\ draft' = IF final THEN draft \ {message[r]} ELSE draft \cup {message[r]}
  /\ UNCHANGED <<up, leases, fences, message, origin, phase, held>>

-----------------------------------------------------------------------------
Lose(c) ==
  /\ c \in up /\ up' = up \ {c}
  /\ UNCHANGED <<leases, fences, message, origin, phase, held, draft, delivered>>

(* clear: the session fences survive the reconnect of the adapter.          *)
Clear == leases' = [m \in Messages |-> NoRun] /\ fences' = fences

(* disconnect and connect: a new transport generation; sockets are gone.    *)
Reconnect ==
  /\ Clear
  /\ up' = up \ Direct
  /\ UNCHANGED <<message, origin, phase, held, draft, delivered>>

-----------------------------------------------------------------------------
RepliesInit ==
  /\ up = Connections /\ leases = [m \in Messages |-> NoRun] /\ fences = {}
  /\ message = [r \in Runs |-> CHOOSE m \in Messages : TRUE]
  /\ origin = [r \in Runs |-> LinkRoute] /\ phase = [r \in Runs |-> "none"]
  /\ held = [r \in Runs |-> NoRun] /\ draft = {}
  /\ delivered = [r \in Runs |-> {}]

RunStep(r) ==
  \/ \E m \in Messages, c \in Connections, s \in {t \in Runs : phase[t] # "none"} \cup {r} :
       Receive(r, m, c, s)
  \/ DispatchEnds(r) \/ StartTurn(r) \/ Complete(r)
  \/ \E named, final \in BOOLEAN : Send(r, named, final)

RepliesNext ==
  \/ \E r \in Runs : RunStep(r)
  \/ \E c \in Connections : Lose(c)
  \/ Reconnect

RepliesSpec == RepliesInit /\ [][RepliesNext]_replyVars

-----------------------------------------------------------------------------
(* Type invariant. *)
RepliesTypeOK ==
  /\ up \subseteq Connections /\ fences \subseteq Sessions /\ draft \subseteq Messages
  /\ leases \in [Messages -> Runs \cup {NoRun}]
  /\ message \in [Runs -> Messages] /\ origin \in [Runs -> Connections]
  /\ phase \in [Runs -> {"none", "waiting", "dropped", "processing", "over"}]
  /\ held \in [Runs -> Runs \cup {NoRun}]
  /\ delivered \in [Runs -> SUBSET (Connections \cup {Broadcast})]

(* What a turn asked over a direct connection says goes out on a connection *)
(* its message was asked over or not at all: never on the connection of     *)
(* another message, and never as a broadcast, however late the callback and *)
(* whichever task runs it.                                                  *)
RepliesToTheAsker ==
  \A r \in Runs : origin[r] \in Direct =>
    delivered[r] \subseteq {origin[q] : q \in {p \in Runs : phase[p] # "none"
                                                  /\ message[p] = message[r]}}
================================================================================
