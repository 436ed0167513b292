----------------------------- MODULE LinkTransport -----------------------------
(***************************************************************************)
(* loopdy_plugin/link_client.py: the Link socket of a host.  One frame at   *)
(* a time is durable before it is sent; `socket.ready` reconciles it with   *)
(* what the relay took; inbound frames go through one ordered dispatcher    *)
(* that records a frame after it was handled.  Several processes of a host  *)
(* share the durable state, each has a socket of its own, and the relay     *)
(* keeps one socket per device.                                             *)
(*                                                                          *)
(* The relay is external: it takes a frame whose sequence is the next one,  *)
(* answers its last frame again, and may ask for backpressure.  What was    *)
(* still under way on a socket that ended may reach it late, or never.      *)
(***************************************************************************)
EXTENDS Integers, Sequences, FiniteSets

CONSTANTS
  Procs,         \* processes of the host
  NoProc,
  KindOf,        \* [1..n -> kinds]: what the phone's frames ask, by sequence
  Classes,       \* of payloads: "plain", "directed", "presentation"
  LateReads,     \* messages are still read from a socket the client is closing, and
                 \* socket.ready from one that was lost or replaced
  Rejections     \* maxsize of _rejection_queue

CONSTANTS        \* bounds of the model
  MaxSends, MaxSockets, MaxCrashes, MaxWire

Inbound == DOMAIN KindOf
Kinds   == {"turn", "ready", "request", "rejected", "unavailable", "foreign"}
Capabilities == {"directed", "presentation"}

LinkAssumption ==
  /\ KindOf \in Seq(Kinds)
  /\ Classes \subseteq Capabilities \cup {"plain"}
  /\ LateReads \in BOOLEAN
  /\ {Rejections, MaxSends, MaxSockets, MaxCrashes, MaxWire} \subseteq Nat

VARIABLES
  outbound, pending, failed, received,  \* durable: outbound_sequence, pending_frame,
                 \* failed_pending_frame_id, received_sequences of the phone
  link,          \* per process: where _run is
  call,          \* per process: the send_payload that holds both locks
  pressed,       \* per process: _backpressured_frame_id
  retry,         \* per process: the frame _backpressure_task sends again
  queue, dispatch,   \* per process: inbound callbacks and their dispatcher
  rejections,    \* per process: payloads in _rejection_queue
  caps,          \* per process: peer_capabilities
  up, down,      \* per process: what is under way on its socket
  broken,        \* per process: why the socket ended, "" while it is open
  stray,         \* frames under way on sockets that ended
  relay,         \* the relay's high-water and the frame it took last
  receipted, cursor, \* the relay's outbox: receipts, and what a socket was sent
  sent, sockets, crashes,   \* counters
  delivered, told, handled  \* history: times the relay took a payload, what its
                 \* sender was told, inbound frames that were disposed of

durable == <<outbound, pending, failed, received>>
history == <<delivered, told, handled>>
relayed == <<relay, receipted, cursor>>
bounds  == <<sent, sockets, crashes>>
inside  == <<queue, dispatch, rejections>>
vars == <<outbound, pending, failed, received, link, call, pressed, retry, queue, dispatch, rejections,
          caps, up, down, broken, stray, relay, receipted, cursor, sent, sockets, crashes,
          delivered, told, handled>>

-----------------------------------------------------------------------------
Payloads == 1..MaxSends
NoId    == <<0, 0>>
Ids     == (0..MaxSends) \X (0..MaxSockets)   \* payload, and how often it was sealed again
NoFrame == [id |-> NoId, seq |-> 0, class |-> "plain"]
Frames  == [id: Ids, seq: 0..(MaxSends + 1), class: Classes \cup {"plain"}]
NoSend  == [id |-> NoId, future |-> "none", keep |-> FALSE, turn |-> 0]
CallRec == [id: Ids, future: {"none", "open", "done", "error", "adrift"}, keep: BOOLEAN,
            turn: {0} \cup Inbound]
Idle    == [at |-> "idle", n |-> 0, says |-> ""]

TypeOK ==
  /\ outbound \in 0..(MaxSends + 1) /\ pending \in Frames /\ failed \in Ids
  /\ received \in {0} \cup Inbound
  /\ link \in [Procs -> {"stopped", "connecting", "unready", "ready", "closing", "denied", "superseded"}]
  /\ call \in [Procs -> CallRec]
  /\ pressed \in [Procs -> Ids] /\ retry \in [Procs -> Frames]
  /\ \A p \in Procs : queue[p] \in Seq(Inbound) /\ Len(up[p]) <= MaxWire
  /\ dispatch \in [Procs -> [at: {"idle", "calling", "answering", "sending", "dead"},
                             n: {0} \cup Inbound, says: {"", "accepted", "failed"}]]
  /\ rejections \in [Procs -> 0..Rejections]
  /\ caps \in [Procs -> SUBSET Capabilities]
  /\ broken \in [Procs -> {"", "lost", "replaced", "denied"}]
  /\ stray \subseteq Frames
  /\ relay \in [seq: 0..(MaxSends + 1), id: Ids]
  /\ receipted \subseteq Inbound
  /\ delivered \in [Payloads -> Nat]
  /\ told \in [Payloads -> {"", "ok", "failed"}]

Init ==
  /\ outbound = 0 /\ pending = NoFrame /\ failed = NoId /\ received = 0
  /\ link = [p \in Procs |-> "stopped"]
  /\ call = [p \in Procs |-> NoSend]
  /\ pressed = [p \in Procs |-> NoId]
  /\ retry = [p \in Procs |-> NoFrame]
  /\ queue = [p \in Procs |-> <<>>]
  /\ dispatch = [p \in Procs |-> Idle]
  /\ rejections = [p \in Procs |-> 0]
  /\ caps = [p \in Procs |-> {}]
  /\ up = [p \in Procs |-> <<>>] /\ down = [p \in Procs |-> <<>>]
  /\ broken = [p \in Procs |-> ""]
  /\ stray = {} /\ relay = [seq |-> 0, id |-> NoId]
  /\ receipted = {} /\ cursor = [p \in Procs |-> 0]
  /\ sent = 0 /\ sockets = 0 /\ crashes = 0
  /\ delivered = [k \in Payloads |-> 0]
  /\ told = [k \in Payloads |-> ""]
  /\ handled = {}

Opened(p) == link[p] \in {"unready", "ready", "closing"}
Writes(p) == Opened(p) /\ link[p] # "closing" /\ broken[p] = ""
Message(t, id, seq) == [t |-> t, id |-> id, seq |-> seq, class |-> "plain", caps |-> {}]
OnWire(f) == [t |-> "frame", id |-> f.id, seq |-> f.seq, class |-> f.class, caps |-> {}]
Later(a, b) == IF a >= b THEN a ELSE b
FramesOf(s) == {[id |-> s[i].id, seq |-> s[i].seq, class |-> s[i].class] :
                  i \in {j \in DOMAIN s : s[j].t = "frame"}}

\* _close_for_reconnect: the socket is closed, _run has not noticed yet.
Closed(l, p) == IF l[p] \in {"unready", "ready"} THEN [l EXCEPT ![p] = "closing"] ELSE l
\* What a call whose wait ended badly leaves behind: only the frame that its future
\* still owns is marked, and not one the relay asked to wait for.
Marks(p) == /\ ~call[p].keep /\ link[p] # "denied"
            /\ call[p].future \in {"open", "error"}
            /\ pending # NoFrame /\ call[p].id = pending.id
            /\ pressed[p] # pending.id

-----------------------------------------------------------------------------
\* send_payload.  The locks are held until the relay answers, so a process has one
\* call and a host one call; the wait for a prior pending frame is a guard, and its
\* time-out a call that never started.  The frame is durable before it is sent; the
\* send may fail.
Begins(p, class, keep, n) ==
  /\ link[p] = "ready" /\ sent < MaxSends
  /\ \A q \in Procs : call[q] = NoSend
  /\ pending = NoFrame
  /\ class # "plain" => class \in caps[p]
  /\ LET f == [id |-> <<sent + 1, 0>>, seq |-> outbound + 1, class |-> class]
     IN /\ sent' = sent + 1
        /\ pending' = f
        /\ call' = [call EXCEPT ![p] = [id |-> f.id, future |-> "open", keep |-> keep, turn |-> n]]
        /\ \/ Writes(p) /\ Len(up[p]) < MaxWire /\ up' = [up EXCEPT ![p] = Append(@, OnWire(f))]
           \/ UNCHANGED up

Send(p) ==
  /\ \E class \in Classes : Begins(p, class, FALSE, 0)
  /\ UNCHANGED <<outbound, failed, received, link, pressed, retry, inside, caps, down, broken,
                 stray, relayed, sockets, crashes, history>>

\* _send_rejection_responses: one response, kept pending when it is not delivered.
SendRejection(p) ==
  /\ rejections[p] > 0
  /\ Begins(p, "plain", TRUE, 0)
  /\ rejections' = [rejections EXCEPT ![p] = @ - 1]
  /\ UNCHANGED <<outbound, failed, received, link, pressed, retry, queue, dispatch, caps, down,
                 broken, stray, relayed, sockets, crashes, history>>

\* _send_user_message_result, within the dispatcher.
SendAnswer(p) ==
  /\ dispatch[p].at = "answering"
  /\ Begins(p, "plain", FALSE, dispatch[p].n)
  /\ dispatch' = [dispatch EXCEPT ![p].at = "sending"]
  /\ UNCHANGED <<outbound, failed, received, link, pressed, retry, queue, rejections, caps, down,
                 broken, stray, relayed, sockets, crashes, history>>

\* The sequence of a frame that was disposed of is recorded, then its receipt is
\* sent; on a socket that is being closed the receipt raises, which ends the dispatcher.
Records(p, n) ==
  /\ received' = Later(received, n)
  /\ handled' = handled \cup {n}
  /\ up' = IF Writes(p) /\ Len(up[p]) < MaxWire
           THEN [up EXCEPT ![p] = Append(@, Message("receipt", NoId, n))] ELSE up
  /\ dispatch' = [dispatch EXCEPT ![p] = IF link[p] = "closing" THEN [Idle EXCEPT !.at = "dead"] ELSE Idle]

\* The future is resolved: the call returns the frame's id.
CallReturns(p) ==
  /\ call[p].future = "done"
  /\ told' = [told EXCEPT ![call[p].id[1]] = "ok"]
  /\ call' = [call EXCEPT ![p] = NoSend]
  /\ IF call[p].turn # 0 THEN Records(p, call[p].turn) ELSE UNCHANGED <<received, handled, up, dispatch>>
  /\ UNCHANGED <<outbound, pending, failed, link, pressed, retry, queue, rejections, caps, down,
                 broken, stray, relayed, bounds, delivered>>

\* It times out, or carries an error: the frame it owns is marked failed and the
\* socket replaced.  A result that could not be sent leaves its turn unrecorded.
CallFails(p) ==
  /\ call[p].future \in {"open", "error", "adrift"}
  /\ failed' = IF Marks(p) THEN pending.id ELSE failed
  /\ link' = IF Marks(p) \/ call[p].turn # 0 THEN Closed(link, p) ELSE link
  /\ told' = [told EXCEPT ![call[p].id[1]] = "failed"]
  /\ call' = [call EXCEPT ![p] = NoSend]
  /\ dispatch' = IF call[p].turn # 0 THEN [dispatch EXCEPT ![p] = [Idle EXCEPT !.at = "dead"]] ELSE dispatch
  /\ retry' = IF Marks(p) \/ call[p].turn # 0 THEN [retry EXCEPT ![p] = NoFrame] ELSE retry
  /\ UNCHANGED <<outbound, pending, received, pressed, queue, rejections, caps, up, down, broken,
                 stray, relayed, bounds, delivered, handled>>

\* The wait for the connection or for the prior frame ran out before it began.
AnswerGivesUp(p) ==
  /\ dispatch[p].at = "answering"
  /\ dispatch' = [dispatch EXCEPT ![p] = [Idle EXCEPT !.at = "dead"]]
  /\ link' = Closed(link, p)
  /\ retry' = [retry EXCEPT ![p] = NoFrame]
  /\ UNCHANGED <<durable, call, pressed, queue, rejections, caps, up, down, broken, stray,
                 relayed, bounds, history>>

-----------------------------------------------------------------------------
\* _reconcile_socket_ready.  Each outcome is what happens to the pending frame, the
\* counter and the future that waits for the frame.
\* Mutant: a lost acceptance is not recognised.
NeverSettles(m) == FALSE
Settles(m) == pending.seq = m.seq /\ pending.id = m.id

Resolve(p, outcome) ==
  call' = [call EXCEPT ![p] = IF pending # NoFrame /\ @.id = pending.id /\ @.future = "open"
                              THEN [@ EXCEPT !.future = outcome] ELSE @]
Drops(m, p, seq, outcome) ==
  /\ outbound' = seq /\ pending' = NoFrame
  /\ failed' = IF failed = pending.id THEN NoId ELSE failed
  /\ Resolve(p, outcome)

Reconcile(p, m) ==
  LET high == Later(outbound, m.seq)
      next == [pending EXCEPT !.id = <<@[1], @[2] + 1>>, !.seq = m.seq + 1]
  IN IF pending = NoFrame
       THEN /\ outbound' = high /\ pressed' = [pressed EXCEPT ![p] = NoId]
            /\ UNCHANGED <<pending, failed, call>>
     ELSE IF Settles(m)
       THEN Drops(m, p, high, "done") /\ pressed' = [pressed EXCEPT ![p] = NoId]
     ELSE IF failed = pending.id
       THEN Drops(m, p, m.seq, "error") /\ UNCHANGED pressed
     ELSE IF pending.class = "directed" /\ "directed" \notin m.caps
       THEN Drops(m, p, high, "error") /\ pressed' = [pressed EXCEPT ![p] = NoId]
     ELSE IF pending.seq = m.seq + 1
       THEN outbound' = high /\ UNCHANGED <<pending, failed, call, pressed>>
     ELSE \* sealed again under a new identity, at the relay's next sequence
          /\ outbound' = high /\ pending' = next
          /\ pressed' = [pressed EXCEPT ![p] = IF @ = pending.id THEN next.id ELSE @]
          /\ call' = [call EXCEPT ![p] = IF @.id = pending.id THEN [@ EXCEPT !.id = next.id] ELSE @]
          /\ UNCHANGED failed

\* A pending presentation frame waits for a relay that negotiates its class.
Refuses(m) == /\ pending # NoFrame /\ ~Settles(m)
              /\ pending.class = "presentation" /\ "presentation" \notin m.caps

\* _run reads socket.ready, is connected, and sends the pending frame.
ReadsReady(p) ==
  /\ link[p] = "unready" /\ down[p] # <<>> /\ Head(down[p]).t = "ready"
  /\ broken[p] = "" \/ LateReads

Readies(p) ==
  /\ ReadsReady(p)
  /\ LET m == Head(down[p]) IN
       /\ ~Refuses(m)
       /\ Reconcile(p, m)
       /\ caps' = [caps EXCEPT ![p] = m.caps]
       /\ up' = IF pending' # NoFrame /\ Writes(p) THEN [up EXCEPT ![p] = Append(@, OnWire(pending'))] ELSE up
  /\ link' = [link EXCEPT ![p] = "ready"]
  /\ down' = [down EXCEPT ![p] = Tail(@)]
  /\ retry' = [retry EXCEPT ![p] = NoFrame]
  /\ UNCHANGED <<received, inside, broken, stray, relayed, bounds, history>>

ReadinessRefused(p) ==
  /\ ReadsReady(p)
  /\ Refuses(Head(down[p]))
  /\ caps' = [caps EXCEPT ![p] = Head(down[p]).caps]
  /\ down' = [down EXCEPT ![p] = Tail(@)]
  /\ broken' = [broken EXCEPT ![p] = IF @ = "" THEN "lost" ELSE @]
  /\ retry' = [retry EXCEPT ![p] = NoFrame]
  /\ UNCHANGED <<durable, link, call, pressed, inside, up, stray, relayed, bounds, history>>

\* handle_wire_message after readiness.  While the client closes its socket, what the
\* peer still sends is read only if it answers the close late.
ReadsFrame(p, t) ==
  /\ link[p] = "ready" \/ (link[p] = "closing" /\ LateReads)
  /\ down[p] # <<>> /\ Head(down[p]).t = t
  /\ down' = [down EXCEPT ![p] = Tail(@)]

\* _accept_outbound: an answer that names another frame ends the connection.
Accepted(p) ==
  /\ ReadsFrame(p, "accepted")
  /\ LET m == Head(down[p]) IN
       IF pending = NoFrame
         THEN UNCHANGED <<outbound, pending, failed, call, pressed, retry, broken>>
       ELSE IF Settles(m)
         THEN /\ Drops(m, p, m.seq, "done")
              /\ pressed' = [pressed EXCEPT ![p] = NoId]
              /\ retry' = [retry EXCEPT ![p] = NoFrame]
              /\ UNCHANGED broken
       ELSE /\ broken' = [broken EXCEPT ![p] = IF @ = "" THEN "lost" ELSE @]
            /\ UNCHANGED <<outbound, pending, failed, call, pressed, retry>>
  /\ UNCHANGED <<received, link, inside, caps, up, stray, relayed, bounds, history>>

\* _handle_backpressure: a control for another frame owns nothing; one retry at a time.
Backpressure(p) ==
  /\ ReadsFrame(p, "backpressure")
  /\ LET m == Head(down[p]) IN
       IF pending # NoFrame /\ pending.id = m.id /\ pending.seq = m.seq
       THEN /\ pressed' = [pressed EXCEPT ![p] = m.id]
            /\ failed' = IF failed = m.id THEN NoId ELSE failed
            /\ retry' = IF retry[p] = NoFrame THEN [retry EXCEPT ![p] = pending] ELSE retry
       ELSE UNCHANGED <<pressed, failed, retry>>
  /\ UNCHANGED <<outbound, pending, received, link, call, inside, caps, up, broken, stray,
                 relayed, bounds, history>>

\* _retry_backpressured_frame after its delay.
Retry(p) ==
  /\ retry[p] # NoFrame
  /\ up' = IF link[p] = "ready" /\ Writes(p) /\ pending = retry[p] /\ Len(up[p]) < MaxWire
           THEN [up EXCEPT ![p] = Append(@, OnWire(pending))] ELSE up
  /\ retry' = [retry EXCEPT ![p] = NoFrame]
  /\ UNCHANGED <<durable, link, call, pressed, inside, caps, down, broken, stray, relayed,
                 bounds, history>>

\* A frame of the phone joins the queue; a dispatcher that returned is started again.
Enqueue(p) ==
  /\ ReadsFrame(p, "inbound")
  /\ queue' = [queue EXCEPT ![p] = Append(@, Head(down[p]).seq)]
  /\ dispatch' = [dispatch EXCEPT ![p] = IF @.at = "dead" THEN Idle ELSE @]
  /\ UNCHANGED <<durable, link, call, pressed, retry, rejections, caps, up, broken, stray,
                 relayed, bounds, history>>

-----------------------------------------------------------------------------
\* _dispatch_inbound_callbacks: the next frame.
Takes(p, n) ==
  /\ dispatch[p].at = "idle" /\ queue[p] # <<>> /\ Head(queue[p]) = n
  /\ queue' = [queue EXCEPT ![p] = Tail(@)]

\* A frame recorded before is only receipted.
Repeated(p, n) ==
  /\ Takes(p, n) /\ n <= received
  /\ up' = IF Writes(p) /\ Len(up[p]) < MaxWire
           THEN [up EXCEPT ![p] = Append(@, Message("receipt", NoId, n))] ELSE up
  /\ dispatch' = [dispatch EXCEPT ![p] = IF link[p] = "closing" THEN [Idle EXCEPT !.at = "dead"] ELSE @]
  /\ UNCHANGED <<durable, link, call, pressed, retry, rejections, caps, down, broken, stray,
                 relayed, bounds, history>>

\* Frames for another host, invalid payloads (with a response, unless the queue for
\* those is full), and host-relay leases that expired in the queue are consumed.
Consumes(p, n) ==
  /\ Takes(p, n) /\ n > received /\ KindOf[n] \in {"foreign", "rejected", "ready"}
  /\ Records(p, n)
  /\ rejections' = IF KindOf[n] = "rejected" /\ rejections[p] < Rejections
                   THEN [rejections EXCEPT ![p] = @ + 1] ELSE rejections
  /\ UNCHANGED <<outbound, pending, failed, link, call, pressed, retry, caps, down, broken, stray,
                 relayed, bounds, delivered, told>>

Delivers(p, n) ==
  /\ Takes(p, n) /\ n > received /\ KindOf[n] \in {"turn", "ready", "request", "unavailable"}
  /\ dispatch' = [dispatch EXCEPT ![p] =
       IF KindOf[n] = "unavailable" THEN [at |-> "answering", n |-> n, says |-> "failed"]
       ELSE [at |-> "calling", n |-> n, says |-> ""]]
  /\ UNCHANGED <<durable, link, call, pressed, retry, rejections, caps, up, down, broken, stray,
                 relayed, bounds, history>>

\* The callback of a turn is answered before the frame is recorded, whatever it did;
\* any other callback is consumed, except that a failed relay.ready replaces the
\* socket and leaves its frame to be sent again.
CallbackEnds(p, n, good) ==
  /\ dispatch[p].at = "calling" /\ dispatch[p].n = n
  /\ KindOf[n] = "turn" \/ KindOf[n] = "request" \/ good
  /\ IF KindOf[n] = "turn"
     THEN /\ dispatch' = [dispatch EXCEPT ![p] = [at |-> "answering", n |-> n,
                                                  says |-> IF good THEN "accepted" ELSE "failed"]]
          /\ UNCHANGED <<received, handled, up>>
     ELSE Records(p, n)
  /\ UNCHANGED <<outbound, pending, failed, link, call, pressed, retry, queue, rejections, caps,
                 down, broken, stray, relayed, bounds, delivered, told>>

ReadyFails(p, n) ==
  /\ dispatch[p].at = "calling" /\ dispatch[p].n = n /\ KindOf[n] = "ready"
  /\ dispatch' = [dispatch EXCEPT ![p] = [Idle EXCEPT !.at = "dead"]]
  /\ link' = Closed(link, p)
  /\ UNCHANGED <<durable, call, pressed, retry, queue, rejections, caps, up, down, broken, stray,
                 relayed, bounds, history>>

-----------------------------------------------------------------------------
\* The connection's life.
Start(p) ==
  /\ link[p] = "stopped"
  /\ link' = [link EXCEPT ![p] = "connecting"]
  /\ UNCHANGED <<durable, call, pressed, retry, inside, caps, up, down, broken, stray, relayed,
                 bounds, history>>

\* The relay accepts the socket, closes the device's other one, and says what it has.
Connect(p) ==
  /\ link[p] = "connecting" /\ sockets < MaxSockets
  /\ link' = [link EXCEPT ![p] = "unready"]
  /\ sockets' = sockets + 1
  /\ broken' = [q \in Procs |-> IF q = p THEN "" ELSE IF Opened(q) /\ broken[q] = "" THEN "replaced" ELSE broken[q]]
  /\ stray' = stray \cup UNION {FramesOf(up[q]) : q \in Procs}
  /\ up' = [q \in Procs |-> <<>>]
  /\ \E c \in SUBSET (Classes \ {"plain"}) :
       down' = [down EXCEPT ![p] = <<[Message("ready", relay.id, relay.seq) EXCEPT !.caps = c]>>]
  /\ cursor' = [cursor EXCEPT ![p] = 0]
  /\ UNCHANGED <<durable, call, pressed, retry, inside, caps, relay, receipted, sent, crashes, history>>

\* The network or the relay ends a socket.
Lose(p, why) ==
  /\ Opened(p) /\ broken[p] = "" /\ why \in {"lost", "denied"}
  /\ broken' = [broken EXCEPT ![p] = why]
  /\ stray' = stray \cup FramesOf(up[p])
  /\ up' = [up EXCEPT ![p] = <<>>]
  /\ UNCHANGED <<durable, link, call, pressed, retry, inside, caps, down, relayed, bounds, history>>

\* What _run's finally clause does, and the cancelled dispatcher: a result it was
\* sending is marked failed; queued frames and rejections are dropped.
Dropped(p) ==
  LET owned == call[p].turn # 0
      cancelled == owned \/ call[p].keep
  IN /\ failed' = IF owned /\ Marks(p) THEN pending.id ELSE failed
     /\ told' = IF cancelled THEN [told EXCEPT ![call[p].id[1]] = "failed"] ELSE told
     /\ queue' = [queue EXCEPT ![p] = <<>>]
     /\ dispatch' = [dispatch EXCEPT ![p] = Idle]
     /\ rejections' = [rejections EXCEPT ![p] = 0]
     /\ retry' = [retry EXCEPT ![p] = NoFrame]
     /\ broken' = [broken EXCEPT ![p] = ""]
     /\ stray' = stray \cup FramesOf(up[p])
     /\ up' = [up EXCEPT ![p] = <<>>] /\ down' = [down EXCEPT ![p] = <<>>]

\* _run notices: denied and replaced connections are not tried again.
Ends(p) ==
  /\ Opened(p) /\ (link[p] = "closing" \/ broken[p] # "")
  /\ Dropped(p)
  /\ link' = [link EXCEPT ![p] = CASE broken[p] = "denied" -> "denied"
                                   [] broken[p] = "replaced" -> "superseded"
                                   [] OTHER -> "connecting"]
  /\ call' = [call EXCEPT ![p] =
       IF @.turn # 0 \/ @.keep THEN NoSend
       ELSE IF broken[p] = "denied" /\ @.future = "open" THEN [@ EXCEPT !.future = "error"] ELSE @]
  /\ UNCHANGED <<outbound, pending, received, pressed, caps, relayed, bounds, delivered, handled>>

\* stop: as when the connection ends; futures that are left are cancelled, and their
\* frames stay pending.
Stop(p) ==
  /\ link[p] # "stopped" /\ link[p] # "denied" /\ link[p] # "superseded"
  /\ Dropped(p)
  /\ link' = [link EXCEPT ![p] = "stopped"]
  /\ call' = [call EXCEPT ![p] =
       IF @.turn # 0 \/ @.keep THEN NoSend
       ELSE IF @.future = "open" THEN [@ EXCEPT !.future = "adrift"] ELSE @]
  /\ UNCHANGED <<outbound, pending, received, pressed, caps, relayed, bounds, delivered, handled>>

Crash(p) ==
  /\ crashes < MaxCrashes /\ link[p] # "stopped"
  /\ crashes' = crashes + 1
  /\ link' = [link EXCEPT ![p] = "stopped"]
  /\ call' = [call EXCEPT ![p] = NoSend]
  /\ pressed' = [pressed EXCEPT ![p] = NoId]
  /\ retry' = [retry EXCEPT ![p] = NoFrame]
  /\ queue' = [queue EXCEPT ![p] = <<>>]
  /\ dispatch' = [dispatch EXCEPT ![p] = Idle]
  /\ rejections' = [rejections EXCEPT ![p] = 0]
  /\ caps' = [caps EXCEPT ![p] = {}]
  /\ broken' = [broken EXCEPT ![p] = ""]
  /\ stray' = stray \cup FramesOf(up[p])
  /\ up' = [up EXCEPT ![p] = <<>>] /\ down' = [down EXCEPT ![p] = <<>>]
  /\ UNCHANGED <<durable, relayed, sent, sockets, history>>

-----------------------------------------------------------------------------
\* The relay.
TakesFrame(f) ==
  /\ relay' = [seq |-> f.seq, id |-> f.id]
  /\ delivered' = [delivered EXCEPT ![f.id[1]] = @ + 1]

RelayReads(p) ==
  /\ up[p] # <<>> /\ broken[p] = ""
  /\ up' = [up EXCEPT ![p] = Tail(@)]
  /\ LET m == Head(up[p])
         answers(t) == down' = [down EXCEPT ![p] = Append(@, Message(t, m.id, m.seq))]
     IN \/ /\ m.t = "receipt" /\ receipted' = receipted \cup {m.seq}
           /\ UNCHANGED <<relay, delivered, down, broken>>
        \/ /\ m.t = "frame" /\ m.seq = relay.seq + 1
           /\ TakesFrame(m) /\ answers("accepted") /\ UNCHANGED <<receipted, broken>>
        \/ /\ m.t = "frame" /\ m.seq = relay.seq + 1
           /\ answers("backpressure") /\ UNCHANGED <<receipted, relay, delivered, broken>>
        \/ /\ m.t = "frame" /\ m.seq = relay.seq /\ m.id = relay.id
           /\ answers("accepted") /\ UNCHANGED <<receipted, relay, delivered, broken>>
        \/ /\ m.t = "frame" /\ m.seq # relay.seq + 1 /\ m.id # relay.id
           /\ broken' = [broken EXCEPT ![p] = "lost"]
           /\ UNCHANGED <<receipted, relay, delivered, down>>
  /\ UNCHANGED <<durable, link, call, pressed, retry, inside, caps, stray, cursor, bounds, told, handled>>

\* A frame of a socket that ended arrives after all, or is lost.
StrayArrives(f) ==
  /\ f \in stray
  /\ stray' = stray \ {f}
  /\ \/ f.seq = relay.seq + 1 /\ TakesFrame(f)
     \/ UNCHANGED <<relay, delivered>>
  /\ UNCHANGED <<durable, link, call, pressed, retry, inside, caps, up, down, broken, receipted,
                 cursor, bounds, told, handled>>

\* The relay sends the phone's frames in order, those without a receipt again on
\* every socket.
Push(p) ==
  /\ Opened(p) /\ broken[p] = "" /\ Len(down[p]) < MaxWire
  /\ \E n \in Inbound \ receipted :
       /\ n > cursor[p]
       /\ \A k \in Inbound \ receipted : k > cursor[p] => n <= k
       /\ down' = [down EXCEPT ![p] = Append(@, Message("inbound", NoId, n))]
       /\ cursor' = [cursor EXCEPT ![p] = n]
  /\ UNCHANGED <<durable, link, call, pressed, retry, inside, caps, up, broken, stray, relay,
                 receipted, bounds, history>>

Sending(p)  == Send(p) \/ SendRejection(p) \/ SendAnswer(p) \/ CallReturns(p) \/ CallFails(p) \/ AnswerGivesUp(p)
Reading(p)  == Readies(p) \/ ReadinessRefused(p) \/ Accepted(p) \/ Backpressure(p) \/ Retry(p) \/ Enqueue(p)
Handling(p) == \E n \in Inbound :
  \/ Repeated(p, n) \/ Consumes(p, n) \/ Delivers(p, n) \/ ReadyFails(p, n)
  \/ \E good \in BOOLEAN : CallbackEnds(p, n, good)
Living(p)   == Start(p) \/ Connect(p) \/ Lose(p, "lost") \/ Lose(p, "denied") \/ Ends(p) \/ Stop(p) \/ Crash(p)
Relaying(p) == RelayReads(p) \/ Push(p)

Next == \/ \E p \in Procs : Sending(p) \/ Reading(p) \/ Handling(p) \/ Living(p) \/ Relaying(p)
        \/ \E f \in stray : StrayArrives(f)

Spec == Init /\ [][Next]_vars

-----------------------------------------------------------------------------
\* However a frame is sent again, sealed again under a new identity, or overtaken by
\* one that was given up, the relay takes a payload once.
DeliveredAtMostOnce == \A k \in Payloads : delivered[k] <= 1

\* A sender that was told its frame was accepted is right, although acceptance may be
\* learnt from another socket, or from the relay's high-water.
AcceptedIsDelivered == \A k \in Payloads : told[k] = "ok" => delivered[k] >= 1

\* No frame of the phone is passed over: when a later one is recorded, whose receipt
\* lets the relay forget it, every earlier one was disposed of.
NothingPassedOver == \A n \in Inbound : n <= received => n \in handled
=============================================================================
