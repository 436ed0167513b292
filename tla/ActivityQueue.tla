----------------------------- MODULE ActivityQueue -----------------------------
(***************************************************************************)
(* The lane on which a session's activity leaves the host:                  *)
(* LinkActivityBroker (activity_bridge.py).  Hooks publish from their own   *)
(* threads into a bounded deque, one callback moves it to the bounded queue *)
(* of the event loop, and one task sends from there, each payload first as  *)
(* it is and then, projected, as an update of the session's Live Activity.  *)
(* The adapter completes the Live Activity itself when it has sent the      *)
(* final message.                                                           *)
(*                                                                          *)
(* One session and its subagents.  A payload has an identity and its kind,  *)
(* no wording; an event of the turn itself is projected like one that       *)
(* changes no roster, and is left out; the loop does not close under a      *)
(* publisher (RuntimeError).                                                *)
(***************************************************************************)
EXTENDS Integers, Sequences, FiniteSets

CONSTANTS
  Children,      \* child sessions of the session
  NoChild,
  QueueSize,     \* maximum_queue_size
  Watched       \* whether a presentation observer takes every payload

CONSTANTS MaxAttaches, MaxFailures, MaxCompletes    \* bounds of the model

QueueAssumption ==
  /\ NoChild \notin Children /\ QueueSize \in Nat \ {0} /\ Watched \in BOOLEAN
  /\ {MaxAttaches, MaxFailures, MaxCompletes} \subseteq Nat

VARIABLES
  lane,          \* the queue attached (0: none) and the number of attachments
  pending,       \* _pending_publications
  wakeup,        \* _publication_wakeup: the queue a flush is scheduled for, or 0
  flushes,       \* the flushes scheduled on the loop, each with the queue of its own
  queue,
  drain,         \* the sending task, and the sender it took before it waited
  roster, hook,  \* running subagents, and how far the hooks of each have come
  signature,     \* of the roster published last, or none
  live,          \* _live_state of the session
  finisher,      \* the complete call of the adapter
  failures, completes,
  ids,           \* history: payloads given to the attached lane, and their disposal:
  gone,          \*   dropped, cleared or failed
  sent,          \*   sent, in order
  over           \* history: the Live Activity was told an outcome

laneVars == <<lane, pending, wakeup, flushes, queue>>
queueVars == <<laneVars, drain, roster, hook, signature, live, finisher, failures, completes,
  ids, gone, sent, over>>

NewLive == [outcome |-> FALSE, ended |-> FALSE, kids |-> {}, settled |-> {}]
Payloads == [id: Nat, type: {"roster", "own", "subagent"}, child: Children \cup {NoChild},
             running: BOOLEAN, kids: SUBSET Children]
NoPayload == [id |-> 0, type |-> "own", child |-> NoChild, running |-> FALSE, kids |-> {}]
IdleDrain(sender) == [at |-> "idle", sender |-> sender, payload |-> NoPayload, phase |-> ""]
Idle == [at |-> "idle", remaining |-> 0, orphan |-> FALSE]

QueueTypeOK ==
  /\ lane \in [queue: 0..MaxAttaches, sender: 0..MaxAttaches]
  /\ {pending, queue, sent} \subseteq Seq(Payloads)
  /\ Len(pending) <= QueueSize /\ Len(queue) <= QueueSize
  /\ wakeup \in 0..MaxAttaches /\ flushes \subseteq 1..MaxAttaches
  /\ drain.at \in {"none", "idle", "sending", "pushing"} /\ (drain.at = "none" <=> lane.queue = 0)
  /\ roster \subseteq Children /\ signature \in SUBSET SUBSET Children /\ Cardinality(signature) <= 1
  /\ hook \in [Children -> {"none", "start", "running", "stop", "gone"}]
  /\ live.kids \cap live.settled = {}
  /\ finisher.at \in {"idle", "sending"}

QueueInit ==
  /\ lane = [queue |-> 0, sender |-> 0]
  /\ pending = <<>> /\ wakeup = 0 /\ flushes = {} /\ queue = <<>>
  /\ drain = [IdleDrain(0) EXCEPT !.at = "none"]
  /\ roster = {} /\ hook = [c \in Children |-> "none"] /\ signature = {}
  /\ live = NewLive /\ finisher = Idle
  /\ failures = 0 /\ completes = 0
  /\ ids = 0 /\ gone = {} /\ sent = <<>> /\ over = FALSE

IdsOf(s) == {s[i].id : i \in 1..Len(s)}

-----------------------------------------------------------------------------
\* attach: a lane of the same loop only gets the new sender, which its task takes
\* before it waits for the next payload.
Attach ==
  /\ lane.sender < MaxAttaches
  /\ LET sender == lane.sender + 1
     IN IF lane.queue # 0
          THEN lane' = [lane EXCEPT !.sender = sender] /\ UNCHANGED <<pending, wakeup, queue, drain>>
          ELSE /\ lane' = [queue |-> sender, sender |-> sender]
               /\ pending' = <<>> /\ wakeup' = 0 /\ queue' = <<>>
               /\ drain' = IdleDrain(sender)
  /\ UNCHANGED <<flushes, roster, hook, signature, live, finisher, failures, completes, ids, gone, sent, over>>

\* detach cancels the task and forgets what belongs to the socket; the roster of
\* running subagents and the flushes on the loop survive it.
Detach ==
  /\ lane.queue # 0
  /\ lane' = [lane EXCEPT !.queue = 0]
  /\ pending' = <<>> /\ wakeup' = 0 /\ queue' = <<>>
  /\ gone' = gone \cup IdsOf(pending) \cup IdsOf(queue)
             \cup (IF drain.at = "sending" THEN {drain.payload.id} ELSE {})
  /\ drain' = [IdleDrain(0) EXCEPT !.at = "none"]
  /\ signature' = {} /\ live' = NewLive /\ over' = FALSE
  /\ finisher' = [finisher EXCEPT !.orphan = finisher.at = "sending"]
  /\ UNCHANGED <<flushes, roster, hook, failures, completes, ids, sent>>

\* publish: the oldest of a full deque goes.
Kept(s) == IF Len(s) <= QueueSize THEN s ELSE SubSeq(s, Len(s) - QueueSize + 1, Len(s))
Wake ==
  IF wakeup = lane.queue
    THEN UNCHANGED <<wakeup, flushes>>
    ELSE wakeup' = lane.queue /\ flushes' = flushes \cup {lane.queue}
Publish(payloads) ==
  IF lane.queue = 0
    THEN UNCHANGED <<laneVars, ids, gone>>
    ELSE LET numbered == [i \in 1..Len(payloads) |-> [payloads[i] EXCEPT !.id = ids + i]]
             all == pending \o numbered
         IN /\ pending' = Kept(all)
            /\ gone' = gone \cup (IdsOf(all) \ IdsOf(Kept(all)))
            /\ ids' = ids + Len(payloads)
            /\ Wake
            /\ UNCHANGED <<lane, queue>>

\* Mutant: a flush of an earlier queue is not told from one of the lane's.
FlushOfAny(g) ==
  /\ g \in flushes /\ flushes' = flushes \ {g}
  /\ LET all == queue \o pending
     IN /\ queue' = (IF g = lane.queue THEN Kept(all) ELSE queue) /\ pending' = <<>> /\ wakeup' = 0
        /\ gone' = IF g = lane.queue THEN gone \cup (IdsOf(all) \ IdsOf(Kept(all))) ELSE gone
  /\ UNCHANGED <<lane, drain, roster, hook, signature, live, finisher, failures, completes, ids, sent, over>>

\* _flush_publications: a callback of an earlier queue does nothing.
Flush(g) ==
  /\ g \in flushes /\ flushes' = flushes \ {g}
  /\ IF g # lane.queue
       THEN UNCHANGED <<pending, wakeup, queue, gone>>
       ELSE LET all == queue \o pending
            IN /\ queue' = Kept(all) /\ pending' = <<>> /\ wakeup' = 0
               /\ gone' = gone \cup (IdsOf(all) \ IdsOf(Kept(all)))
  /\ UNCHANGED <<lane, drain, roster, hook, signature, live, finisher, failures, completes, ids, sent, over>>

-----------------------------------------------------------------------------
\* The hooks: publish_subagent_lifecycle, under its lock, publishes the roster when it
\* changed and the child's own event; then the hook publishes the parent's event.
Event(type, c, running, kids) ==
  [id |-> 0, type |-> type, child |-> c, running |-> running, kids |-> kids]
Lifecycle(c, running, kids) ==
  /\ roster' = kids
  /\ Publish((IF signature = {kids} THEN <<>> ELSE <<Event("roster", NoChild, FALSE, kids)>>)
             \o <<Event("own", c, running, {})>>)
  /\ signature' = IF lane.queue # 0 \/ Watched THEN {kids} ELSE signature
  /\ UNCHANGED <<drain, live, finisher, failures, completes, sent, over>>
SubagentStart(c) ==
  /\ hook[c] = "none" /\ hook' = [hook EXCEPT ![c] = "start"]
  /\ Lifecycle(c, TRUE, roster \cup {c})
SubagentStop(c) ==
  /\ hook[c] = "running" /\ hook' = [hook EXCEPT ![c] = "stop"]
  /\ Lifecycle(c, FALSE, roster \ {c})
ParentEvent(c) ==
  /\ hook[c] \in {"start", "stop"}
  /\ hook' = [hook EXCEPT ![c] = IF @ = "start" THEN "running" ELSE "gone"]
  /\ Publish(<<Event("subagent", c, hook[c] = "start", {})>>)
  /\ UNCHANGED <<drain, roster, signature, live, finisher, failures, completes, sent, over>>

-----------------------------------------------------------------------------
\* _drain
Take ==
  /\ drain.at = "idle" /\ queue # <<>>
  /\ drain' = [drain EXCEPT !.at = "sending", !.payload = Head(queue)]
  /\ queue' = Tail(queue)
  /\ UNCHANGED <<lane, pending, wakeup, flushes, roster, hook, signature, live, finisher,
                 failures, completes, ids, gone, sent, over>>

\* _project_live_activity: what the payload makes of the session's live state, and the
\* phase of the update, none once the Live Activity has ended.  A child's own event
\* belongs to a live state of the child's.
Projected(p) ==
  IF p.type = "subagent" /\ p.running /\ p.child \notin live.settled
    THEN [live EXCEPT !.kids = @ \cup {p.child}]
  ELSE IF p.type = "subagent" /\ ~p.running /\ p.child \in live.kids
    THEN [live EXCEPT !.kids = @ \ {p.child}, !.settled = @ \cup {p.child}]
  ELSE live
Phase(l) == IF ~l.outcome THEN "working" ELSE IF l.kids # {} THEN "delegating" ELSE "completed"
SendPayload ==
  /\ drain.at = "sending" /\ sent' = Append(sent, drain.payload)
  /\ LET p == drain.payload
         next == Projected(p)
     IN IF p.type = "roster" \/ (p.type # "own" /\ live.ended)
          THEN drain' = IdleDrain(lane.sender) /\ UNCHANGED live
          ELSE /\ drain' = [drain EXCEPT !.at = "pushing",
                                         !.phase = IF p.type = "own" THEN "working" ELSE Phase(next)]
               /\ live' = next
  /\ UNCHANGED <<laneVars, roster, hook, signature, finisher, failures, completes, ids, gone, over>>
PushUpdate ==
  /\ drain.at = "pushing" /\ drain' = IdleDrain(lane.sender)
  /\ live' = IF drain.phase = "completed" THEN [live EXCEPT !.ended = TRUE] ELSE live
  /\ over' = (over \/ drain.phase = "completed")
  /\ UNCHANGED <<laneVars, roster, hook, signature, finisher, failures, completes, ids, gone, sent>>
\* A failure of either call is logged and the payload is over.
DrainFails ==
  /\ drain.at \in {"sending", "pushing"} /\ failures < MaxFailures
  /\ failures' = failures + 1
  /\ drain' = IdleDrain(lane.sender)
  /\ gone' = gone \cup {drain.payload.id}
  /\ UNCHANGED <<laneVars, roster, hook, signature, live, finisher, completes, ids, sent, over>>

-----------------------------------------------------------------------------
\* complete: it awaits the sender between reading how many subagents remain and ending.
Complete ==
  /\ finisher.at = "idle" /\ lane.queue # 0 /\ completes < MaxCompletes
  /\ completes' = completes + 1
  /\ IF live.ended
       THEN UNCHANGED <<live, finisher>>
       ELSE /\ live' = [live EXCEPT !.outcome = TRUE]
            /\ finisher' = [at |-> "sending", remaining |-> Cardinality(live.kids), orphan |-> FALSE]
  /\ UNCHANGED <<laneVars, drain, roster, hook, signature, failures, ids, gone, sent, over>>

\* Mutant: complete takes the session for ended though subagents run.
CompletedAnyway ==
  /\ finisher.at = "sending" /\ finisher' = Idle
  /\ live' = [live EXCEPT !.ended = ~finisher.orphan \/ @]
  /\ over' = (over \/ (~finisher.orphan /\ finisher.remaining = 0))
  /\ UNCHANGED <<laneVars, drain, roster, hook, signature, failures, completes, ids, gone, sent>>

Completed ==
  /\ finisher.at = "sending" /\ finisher' = Idle
  /\ IF finisher.orphan
       THEN UNCHANGED <<live, over>>
       ELSE /\ live' = [live EXCEPT !.ended = finisher.remaining = 0]
            /\ over' = (over \/ finisher.remaining = 0)
  /\ UNCHANGED <<laneVars, drain, roster, hook, signature, failures, completes, ids, gone, sent>>
CompleteFails ==
  /\ finisher.at = "sending" /\ failures < MaxFailures
  /\ failures' = failures + 1 /\ finisher' = Idle
  /\ UNCHANGED <<laneVars, drain, roster, hook, signature, live, completes, ids, gone, sent, over>>

QueueNext ==
  \/ Attach \/ Detach \/ \E g \in flushes : Flush(g)
  \/ \E c \in Children : SubagentStart(c) \/ SubagentStop(c) \/ ParentEvent(c)
  \/ Take \/ SendPayload \/ PushUpdate \/ DrainFails
  \/ Complete \/ Completed \/ CompleteFails

\* The loop runs what is scheduled on it, and a hook that has begun returns.
QueueFairness ==
  /\ WF_queueVars(\E g \in flushes : Flush(g))
  /\ WF_queueVars(Take) /\ WF_queueVars(SendPayload) /\ WF_queueVars(PushUpdate) /\ WF_queueVars(Completed)
  /\ \A c \in Children : WF_queueVars(ParentEvent(c))

-----------------------------------------------------------------------------
\* What waits in the deque of an attached lane has a flush coming: publish schedules
\* none while it believes one is (_publication_wakeup), whatever attach, detach and
\* the callbacks of earlier queues did since.
FlushComing == pending # <<>> => lane.queue \in flushes /\ wakeup = lane.queue

\* The bounded lane loses what it says it loses and no more: every payload given to an
\* attached lane is waiting, being sent, sent, or was dropped, cleared or failed; and
\* they are sent in the order of their publication.
Underway == IF drain.at = "none" THEN {} ELSE {drain.payload.id} \ {0}
NothingVanishes ==
  /\ 1..ids = gone \cup IdsOf(sent) \cup IdsOf(queue) \cup IdsOf(pending) \cup Underway
  /\ LET all == sent \o queue \o pending
     IN \A i, j \in 1..Len(all) : i < j => all[i].id < all[j].id

\* Once the turn has its outcome and no subagent runs, the Live Activity is told the
\* outcome, unless a payload or an update of it was lost: the outcome of complete and
\* the end of the last subagent race for who tells it.
EndIsDue == live.outcome /\ roster = {}
EndIsTold == over \/ gone # {} \/ failures > 0
LiveActivityEnds == EndIsDue ~> (EndIsTold \/ ~EndIsDue)
================================================================================
