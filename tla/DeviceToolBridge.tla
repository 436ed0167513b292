--------------------------- MODULE DeviceToolBridge ---------------------------
(***************************************************************************)
(* loopdy_plugin/device_tools.py: DeviceToolBridge sends the tool calls of  *)
(* a turn to the phone, over the Link socket or over the Direct connection  *)
(* the turn came from (the ReplyRoute of inbound_dispatch.py), and answers  *)
(* each one once.  One phone, host and authorization epoch; a request is    *)
(* the identity made of the turn and the tool call.                         *)
(*                                                                          *)
(* Everything runs on one event loop: an action is what happens between two *)
(* awaits.  Sending crosses the transport or not, and fails or not; results *)
(* come late, twice, over another connection or never.                      *)
(***************************************************************************)
EXTENDS Integers, Sequences, FiniteSets

CONSTANTS
  Calls, NoCall,     \* executions of the tool handler
  Requests, RequestOf,   \* the request of a call
  PrintOf,           \* its operation and arguments
  Reads,             \* requests whose operation is a read or a list
  Directs, Link,     \* Direct connections, and the Link transport
  LaneOf,            \* the connection of the request's turn, or Link
  MaxOutcomes, MaxPending,   \* MAX_DEVICE_TOOL_OUTCOMES, MAX_PENDING_DEVICE_TOOLS
  StatusAge,         \* STATUS_MAX_AGE_SECONDS
  Clients            \* LinkClients of the adapters that share the bridge

CONSTANTS MaxBinds, MaxTime, MaxStatuses     \* bounds of the model

ASSUME BridgeAssumption ==
  /\ NoCall \notin Calls /\ 0 \notin Clients /\ Link \notin Directs /\ Reads \subseteq Requests
  /\ RequestOf \in [Calls -> Requests] /\ LaneOf \in [Requests -> Directs \cup {Link}]
  /\ MaxOutcomes \in Nat \ {0} /\ MaxPending \in Nat \ {0}
  /\ StatusAge \in Nat /\ MaxBinds \in Nat /\ MaxTime \in Nat /\ MaxStatuses \in Nat

VARIABLES
  client, connected,   \* the bound LinkClient (0: none), and whether its socket is ready
  binds,
  current,             \* Direct connections whose owner check still passes
  status,              \* _status and _status_routes of the phone
  pending,             \* _Pending of the call that made it
  slot,                \* _pending: whose a request's is
  outcomes,            \* _outcomes, oldest first
  calls, answer,       \* where an execution is, and what it returned
  now, statuses,
  sent, forgotten      \* history: sends of a request, and the causes to send it again

vars == <<client, connected, binds, current, status, pending, slot, outcomes, calls, answer, now, statuses,
          sent, forgotten>>

NoStatus  == [at |-> 0, on |-> FALSE, route |-> Link, known |-> FALSE]
NoPending == [future |-> "none", client |-> 0]
Fresh     == [at |-> "idle", client |-> 0, joins |-> NoCall]

Outcome   == [request: Requests, print: {PrintOf[c] : c \in Calls}, code: {"ok", "failed"}]
Pending   == [future: {"none", "open", "ok", "error"}, client: {0} \cup Clients]
Execution == [at: {"idle", "queued", "sending", "written", "waiting", "done"},
              client: {0} \cup Clients, joins: Calls \cup {NoCall}]

TypeOK ==
  /\ client \in {0} \cup Clients /\ connected \in BOOLEAN
  /\ current \subseteq Directs
  /\ status \in [at: 0..(MaxTime + 1), on: BOOLEAN, route: Directs \cup {Link}, known: BOOLEAN]
  /\ pending \in [Calls -> Pending]
  /\ slot \in [Requests -> Calls \cup {NoCall}]
  /\ outcomes \in Seq(Outcome) /\ Len(outcomes) <= MaxOutcomes
  /\ \A i, j \in DOMAIN outcomes : outcomes[i].request = outcomes[j].request => i = j
  /\ calls \in [Calls -> Execution]
  /\ answer \in [Calls -> {"", "ok", "failed", "cancelled"}]
  /\ now \in Nat /\ binds \in Nat /\ statuses \in Nat
  /\ sent \in [Requests -> Nat] /\ forgotten \in [Requests -> Nat]

Init ==
  /\ client = 0 /\ connected = FALSE /\ binds = 0 /\ current = Directs
  /\ status = NoStatus
  /\ pending = [c \in Calls |-> NoPending]
  /\ slot = [r \in Requests |-> NoCall]
  /\ outcomes = <<>>
  /\ calls = [c \in Calls |-> Fresh] /\ answer = [c \in Calls |-> ""]
  /\ now = 0 /\ statuses = 0
  /\ sent = [r \in Requests |-> 0] /\ forgotten = [r \in Requests |-> 0]

Held == {slot[r] : r \in {q \in Requests : slot[q] # NoCall}}
Fails(p, owners) ==
  [c \in Calls |-> IF c \in owners /\ p[c].future = "open" THEN [p[c] EXCEPT !.future = "error"] ELSE p[c]]
OutcomesOf(r) == {i \in DOMAIN outcomes : outcomes[i].request = r}
\* The outcomes without the one of r: a request has one at most.
Others(r) ==
  IF OutcomesOf(r) = {} THEN outcomes
  ELSE LET i == CHOOSE j \in OutcomesOf(r) : TRUE
       IN SubSeq(outcomes, 1, i - 1) \o SubSeq(outcomes, i + 1, Len(outcomes))

-----------------------------------------------------------------------------
\* A failure is no outcome.
RecordedWhenOk(r, print, code) ==
  IF r \in Reads \/ code # "ok" THEN outcomes
  ELSE <<[request |-> r, print |-> print, code |-> code]>>
\* _record_outcome: the newest of the mutations; a read leaves no trace.
Recorded(r, print, code) ==
  LET all  == Append(Others(r), [request |-> r, print |-> print, code |-> code])
      kept == SubSeq(all, (IF Len(all) > MaxOutcomes THEN Len(all) - MaxOutcomes ELSE 0) + 1, Len(all))
  IN IF r \in Reads THEN outcomes ELSE kept
Forgets(kept) ==
  [r \in Requests |-> forgotten[r]
     + (IF OutcomesOf(r) # {} /\ \A i \in DOMAIN kept : kept[i].request # r THEN 1 ELSE 0)]

\* The execution c of the request that o made pending ends: the outcome is recorded
\* and the entry popped, if it is still the one c knows.
Ends(c, o, code) ==
  LET r    == RequestOf[c]
      kept == Recorded(r, PrintOf[o], code)
  IN /\ outcomes' = kept /\ forgotten' = Forgets(kept)
     /\ slot' = IF slot[r] = o THEN [slot EXCEPT ![r] = NoCall] ELSE slot
     /\ calls' = [calls EXCEPT ![c].at = "done"]
     /\ answer' = [answer EXCEPT ![c] = code]

Allowed == status.known /\ status.on /\ status.at >= now - StatusAge
Permitted(c) ==
  LET lane == LaneOf[RequestOf[c]]
  IN /\ client # 0 /\ Allowed
     /\ lane = Link => connected /\ status.route = Link
     /\ lane # Link => lane \in current /\ status.route = lane

-----------------------------------------------------------------------------
\* execute: the tool's worker loop hands the call to the gateway's loop.
Execute(c) ==
  /\ calls[c] = Fresh
  /\ calls' = [calls EXCEPT ![c] = [at |-> "queued", client |-> client, joins |-> NoCall]]
  /\ UNCHANGED <<client, connected, binds, current, status, pending, slot, outcomes, answer, now, statuses,
                 sent, forgotten>>

Answers(c, code) ==
  /\ calls' = [calls EXCEPT ![c].at = "done"]
  /\ answer' = [answer EXCEPT ![c] = code]
  /\ UNCHANGED <<pending, slot, outcomes>>

Refused(c) ==
  \/ client # calls[c].client
  \/ ~Permitted(c)
  \/ slot[RequestOf[c]] # NoCall /\ PrintOf[slot[RequestOf[c]]] # PrintOf[c]
  \/ /\ slot[RequestOf[c]] = NoCall
     /\ \E i \in OutcomesOf(RequestOf[c]) : outcomes[i].print # PrintOf[c]
  \/ /\ slot[RequestOf[c]] = NoCall /\ OutcomesOf(RequestOf[c]) = {}
     /\ Cardinality(Held) >= MaxPending

Joins(c) ==
  /\ slot[RequestOf[c]] # NoCall
  /\ calls' = [calls EXCEPT ![c].at = "waiting", ![c].joins = slot[RequestOf[c]]]
  /\ UNCHANGED <<pending, slot, outcomes, answer>>

Replays(c) ==
  /\ slot[RequestOf[c]] = NoCall
  /\ \E i \in OutcomesOf(RequestOf[c]) :
       /\ outcomes' = Append(Others(RequestOf[c]), outcomes[i])
       /\ answer' = [answer EXCEPT ![c] = outcomes[i].code]
  /\ calls' = [calls EXCEPT ![c].at = "done"]
  /\ UNCHANGED <<pending, slot>>

Sends(c) ==
  /\ slot[RequestOf[c]] = NoCall /\ OutcomesOf(RequestOf[c]) = {}
  /\ pending' = [pending EXCEPT ![c] = [future |-> "open", client |-> client]]
  /\ slot' = [slot EXCEPT ![RequestOf[c]] = c]
  /\ calls' = [calls EXCEPT ![c].at = "sending", ![c].joins = c]
  /\ UNCHANGED <<outcomes, answer>>

\* on_owner and _execute up to its first await.
Start(c) ==
  /\ calls[c].at = "queued"
  /\ IF Refused(c) THEN Answers(c, "failed") ELSE Joins(c) \/ Replays(c) \/ Sends(c)
  /\ UNCHANGED <<client, connected, binds, current, status, now, statuses, sent, forgotten>>

\* The bytes leave while the send is awaited; ReplyRoute.send refuses a connection
\* that is no longer current before it writes.
Crosses(c) ==
  /\ calls[c].at = "sending"
  /\ LaneOf[RequestOf[c]] \in current \cup {Link}
  /\ sent[RequestOf[c]] < 1 + Cardinality(Calls)
  /\ sent' = [sent EXCEPT ![RequestOf[c]] = @ + 1]
  /\ calls' = [calls EXCEPT ![c].at = "written"]
  /\ UNCHANGED <<client, connected, binds, current, status, pending, slot, outcomes, answer, now, statuses, forgotten>>

\* The send returns; a route that is no longer current then is an uncertain delivery.
Returns(c) ==
  /\ calls[c].at = "written"
  /\ LaneOf[RequestOf[c]] \in current \cup {Link}
  /\ calls' = [calls EXCEPT ![c].at = "waiting"]
  /\ UNCHANGED <<client, connected, binds, current, status, pending, slot, outcomes, answer, now, statuses, sent, forgotten>>

\* It raises, before or after the bytes left: delivery_uncertain is the outcome.
SendFails(c) ==
  /\ calls[c].at \in {"sending", "written"}
  /\ Ends(c, c, "failed")
  /\ UNCHANGED <<client, connected, binds, current, status, pending, now, statuses, sent>>

\* _await_pending once the future is done: owner, connection and permission are looked
\* at again, and the failure is the outcome when one of them is gone.
StillPermitted(c) ==
  LET lane == LaneOf[RequestOf[c]]
  IN /\ client = calls[c].client /\ Allowed
     /\ lane # Link => lane \in current /\ status.route = lane
Resolves(c) ==
  /\ calls[c].at = "waiting"
  /\ LET o == calls[c].joins
     IN /\ pending[o].future \in {"ok", "error"}
        /\ Ends(c, o, IF pending[o].future = "ok" /\ StillPermitted(c) THEN "ok" ELSE "failed")
  /\ UNCHANGED <<client, connected, binds, current, status, pending, now, statuses, sent>>

TimesOut(c) ==
  /\ calls[c].at = "waiting"
  /\ pending[calls[c].joins].future = "open"
  /\ Ends(c, calls[c].joins, "failed")
  /\ UNCHANGED <<client, connected, binds, current, status, pending, now, statuses, sent>>

\* The task of the call is cancelled: the entry goes, and no outcome is left.
Cancel(c) ==
  /\ calls[c].at \in {"sending", "written", "waiting"}
  /\ LET r == RequestOf[c]
     IN /\ slot' = IF slot[r] = calls[c].joins THEN [slot EXCEPT ![r] = NoCall] ELSE slot
        /\ forgotten' = [forgotten EXCEPT ![r] = @ + 1]
  /\ calls' = [calls EXCEPT ![c].at = "done"]
  /\ answer' = [answer EXCEPT ![c] = "cancelled"]
  /\ UNCHANGED <<client, connected, binds, current, status, pending, outcomes, now, statuses, sent>>

-----------------------------------------------------------------------------
\* accept_result: over the connection the request was sent on, while it is current.
Result(r, via) ==
  /\ sent[r] > 0 /\ slot[r] # NoCall
  /\ IF LaneOf[r] = Link THEN via = Link ELSE via = LaneOf[r] /\ via \in current
  /\ pending[slot[r]].future = "open"
  /\ pending' = [pending EXCEPT ![slot[r]].future = "ok"]
  /\ UNCHANGED <<client, connected, binds, current, status, slot, outcomes, calls, answer, now, statuses, sent, forgotten>>

\* accept_status: not older than the one held; what it no longer allows is cancelled.
Status(at, on, via) ==
  /\ client # 0 /\ statuses < MaxStatuses
  /\ at >= now - StatusAge
  /\ via \in current \cup {Link}
  /\ LET next == [at |-> at, on |-> on, route |-> via, known |-> TRUE]
     IN /\ status.known => at >= status.at /\ (at # status.at \/ on # status.on)
        /\ status' = next
  /\ pending' = IF on THEN pending ELSE Fails(pending, Held)
  /\ statuses' = statuses + 1
  /\ UNCHANGED <<client, connected, binds, current, slot, outcomes, calls, answer, now, sent, forgotten>>

\* MAX_STATUS_ENTRIES other phones: this one's permission is the oldest.
StatusEvicted ==
  /\ status.known /\ status' = NoStatus
  /\ UNCHANGED <<client, connected, binds, current, pending, slot, outcomes, calls, answer, now, statuses, sent, forgotten>>

\* bind_link_client(None), as an adapter disconnects: permission and outcomes go, the
\* pending futures fail.  Another bind follows once that adapter's LinkClient has
\* stopped, which ends the sends it had on the wire.
Unbind ==
  /\ client # 0
  /\ client' = 0 /\ connected' = FALSE
  /\ status' = NoStatus /\ outcomes' = <<>>
  /\ pending' = Fails(pending, Held)
  /\ forgotten' = [r \in Requests |-> forgotten[r] + (IF OutcomesOf(r) # {} THEN 1 ELSE 0)]
  /\ UNCHANGED <<binds, current, slot, calls, answer, now, statuses, sent>>
Bind(k) ==
  /\ client = 0 /\ binds < MaxBinds
  /\ \A c \in Calls : calls[c].at = "written" => LaneOf[RequestOf[c]] # Link
  /\ client' = k /\ connected' = TRUE /\ binds' = binds + 1
  /\ outcomes' = <<>>
  /\ forgotten' = [r \in Requests |-> forgotten[r] + (IF OutcomesOf(r) # {} THEN 1 ELSE 0)]
  /\ UNCHANGED <<current, status, pending, slot, calls, answer, now, statuses, sent>>

Disconnects == /\ connected /\ connected' = FALSE
               /\ UNCHANGED <<client, binds, current, status, pending, slot, outcomes, calls, answer, now, statuses, sent, forgotten>>
Reconnects  == /\ client # 0 /\ ~connected /\ connected' = TRUE
               /\ UNCHANGED <<client, binds, current, status, pending, slot, outcomes, calls, answer, now, statuses, sent, forgotten>>

\* A Direct connection ends: its routes refuse at once, retire_direct follows.
Closes(d) ==
  /\ d \in current /\ current' = current \ {d}
  /\ UNCHANGED <<client, connected, binds, status, pending, slot, outcomes, calls, answer, now, statuses, sent, forgotten>>
RetireDirect(d) ==
  /\ d \in Directs \ current
  /\ LET mine == {c \in Held : LaneOf[RequestOf[c]] = d /\ pending[c].future = "open"}
     IN /\ status.route = d \/ mine # {}
        /\ status' = IF status.route = d THEN NoStatus ELSE status
        /\ pending' = Fails(pending, mine)
  /\ UNCHANGED <<client, connected, binds, current, slot, outcomes, calls, answer, now, statuses, sent, forgotten>>

Tick == /\ now < MaxTime /\ now' = now + 1
        /\ UNCHANGED <<client, connected, binds, current, status, pending, slot, outcomes, calls, answer, statuses, sent, forgotten>>

Next ==
  \/ \E c \in Calls : \/ Execute(c) \/ Start(c) \/ Crosses(c) \/ Returns(c) \/ SendFails(c)
                      \/ Resolves(c) \/ TimesOut(c) \/ Cancel(c)
  \/ \E r \in Requests, via \in Directs \cup {Link} : Result(r, via)
  \/ \E at \in now..(now + 1), on \in BOOLEAN, via \in Directs \cup {Link} : at <= MaxTime + 1 /\ Status(at, on, via)
  \/ StatusEvicted \/ Unbind \/ (\E k \in Clients : Bind(k)) \/ Disconnects \/ Reconnects \/ Tick
  \/ \E d \in Directs : Closes(d) \/ RetireDirect(d)

Spec == Init /\ [][Next]_vars

-----------------------------------------------------------------------------
\* A mutation goes to the phone again only when the bridge has lost the memory of
\* it: its outcome was evicted, the Link client was replaced, or an execution of it
\* was cancelled.  Retries, joined executions, time-outs, uncertain sends and
\* permissions that come and go never send it twice (device_tools.py, "This is one
\* send").
MutationSentOnce == \A r \in Requests \ Reads : sent[r] <= 1 + forgotten[r]
=============================================================================
