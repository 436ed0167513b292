----------------------------- MODULE ActivityTurns -----------------------------
(***************************************************************************)
(* The turns of a session as the activity broker follows them               *)
(* (activity_bridge.py): the hooks pre_llm_call, post_llm_call and          *)
(* on_session_end of each turn's own thread, the poll of the context        *)
(* window on the event loop, and attach and detach of the lane.             *)
(*                                                                          *)
(* A context window is the version of what Hermes' gateway holds.  Reading  *)
(* it, recording its signature and publishing it are three steps of the     *)
(* same call, with other threads between.  The phone orders the windows of  *)
(* a turn by updatedAt, a count here: where the code forgets the last one   *)
(* the clock is past it.  The lane itself is ActivityQueue's.               *)
(***************************************************************************)
EXTENDS Integers, FiniteSets

CONSTANTS Turns, Poll, MaxActive    \* maximum_active_turns
CONSTANTS MaxVersion, MaxAttaches   \* bounds of the model

TurnAssumption ==
  /\ Poll \notin Turns /\ MaxActive \in Nat \ {0} /\ {MaxVersion, MaxAttaches} \subseteq Nat

Threads == Turns \cup {Poll}

VARIABLES
  attached, attaches,
  version,       \* of the context window that Hermes holds
  active,        \* turns active on the lane
  started, finished,   \* _turn_started, _finished_turns
  signature,     \* of the window published last for a turn, or none (-1)
  updatedAt,     \* of the last window of a turn, 0 when it has none
  pc,            \* where a turn's thread is in its hooks
  call,          \* the publish_context_window call of each thread
  shown,         \* what the phone shows of a turn: version and updatedAt
  outcomes,      \* history: outcomes published for a turn
  missed         \* history: turns one of whose windows was sent to no lane

turnVars == <<attached, attaches, version, active, started, finished, signature, updatedAt, pc, call,
  shown, outcomes, missed>>

NoCall == [at |-> "idle", turn |-> Poll, force |-> FALSE, seen |-> -1, stamp |-> 0]
NoWindow == [seen |-> -1, stamp |-> 0]

TurnTypeOK ==
  /\ attached \in BOOLEAN /\ attaches \in 0..MaxAttaches /\ version \in 0..MaxVersion
  /\ active \subseteq Turns /\ Cardinality(active) <= MaxActive
  /\ started \subseteq Turns /\ finished \subseteq Turns /\ started \cap finished = {}
  /\ signature \in [Turns -> -1..MaxVersion] /\ updatedAt \in [Turns -> Nat]
  /\ pc \in [Turns -> {"new", "timed", "opening", "running", "closing", "finishing", "failing", "over", "failed"}]
  /\ \A th \in Threads : call[th].at \in {"idle", "reading", "sending"}
  /\ outcomes \in [Turns -> Nat] /\ missed \subseteq Turns

TurnInit ==
  /\ attached = TRUE /\ attaches = 0 /\ version = 0
  /\ active = {} /\ started = {} /\ finished = {}
  /\ signature = [t \in Turns |-> -1] /\ updatedAt = [t \in Turns |-> 0]
  /\ pc = [t \in Turns |-> "new"] /\ call = [th \in Threads |-> NoCall]
  /\ shown = [t \in Turns |-> NoWindow]
  /\ outcomes = [t \in Turns |-> 0] /\ missed = {}

-----------------------------------------------------------------------------
\* detach clears the routing of the socket, not the timing of the turns.
Detach ==
  /\ attached /\ attached' = FALSE
  /\ active' = {} /\ signature' = [t \in Turns |-> -1]
  /\ UNCHANGED <<attaches, version, started, finished, updatedAt, pc, call, shown, outcomes, missed>>
Attach ==
  /\ ~attached /\ attaches < MaxAttaches
  /\ attached' = TRUE /\ attaches' = attaches + 1
  /\ UNCHANGED <<version, active, started, finished, signature, updatedAt, pc, call, shown, outcomes, missed>>

WindowChanges ==
  /\ version < MaxVersion /\ version' = version + 1
  /\ UNCHANGED <<attached, attaches, active, started, finished, signature, updatedAt, pc, call, shown, outcomes, missed>>

-----------------------------------------------------------------------------
\* publish_context_window: nothing for a turn that is not active, or a window already
\* published unless it is forced; the signature is recorded before the window is sent,
\* and updatedAt grows with every window of the turn.
Begins(th, t, force) ==
  [call EXCEPT ![th] = [NoCall EXCEPT !.at = "reading", !.turn = t, !.force = force, !.seen = version]]
Sign(th) ==
  LET c == call[th]
  IN /\ c.at = "reading"
     /\ IF ~c.force /\ signature[c.turn] = c.seen
          THEN call' = [call EXCEPT ![th] = NoCall] /\ UNCHANGED <<signature, updatedAt>>
          ELSE /\ signature' = [signature EXCEPT ![c.turn] = c.seen]
               /\ updatedAt' = [updatedAt EXCEPT ![c.turn] = @ + 1]
               /\ call' = [call EXCEPT ![th].at = "sending", ![th].stamp = updatedAt[c.turn] + 1]
     /\ UNCHANGED <<attached, attaches, version, active, started, finished, pc, shown, outcomes, missed>>
Newer(t, window) == IF window.stamp > shown[t].stamp THEN [shown EXCEPT ![t] = window] ELSE shown
Send(th) ==
  LET c == call[th]
  IN /\ c.at = "sending" /\ call' = [call EXCEPT ![th] = NoCall]
     /\ IF attached
          THEN shown' = Newer(c.turn, [seen |-> c.seen, stamp |-> c.stamp]) /\ UNCHANGED missed
          ELSE missed' = missed \cup {c.turn} /\ UNCHANGED shown
     /\ UNCHANGED <<attached, attaches, version, active, started, finished, signature, updatedAt, pc, outcomes>>

\* _poll_context_windows
PollTurn(t) ==
  /\ attached /\ t \in active /\ call[Poll] = NoCall
  /\ call' = Begins(Poll, t, FALSE)
  /\ UNCHANGED <<attached, attaches, version, active, started, finished, signature, updatedAt, pc, shown, outcomes, missed>>

-----------------------------------------------------------------------------
\* pre_llm_call: a turn that has finished is not started again; activate pushes
\* another turn out when there are too many.
PreTiming(t) ==
  /\ pc[t] \in {"new", "over", "failed"}
  /\ IF t \in finished
       THEN UNCHANGED <<started, pc>>
       ELSE started' = started \cup {t} /\ pc' = [pc EXCEPT ![t] = "timed"]
  /\ UNCHANGED <<attached, attaches, version, active, finished, signature, updatedAt, call, shown, outcomes, missed>>
Activate(t) ==
  /\ pc[t] = "timed" /\ pc' = [pc EXCEPT ![t] = "opening"]
  /\ IF Cardinality(active \cup {t}) <= MaxActive
       THEN active' = active \cup {t}
       ELSE \E oldest \in active \ {t} : active' = (active \cup {t}) \ {oldest}
  /\ call' = Begins(t, t, FALSE)
  /\ UNCHANGED <<attached, attaches, version, started, finished, signature, updatedAt, shown, outcomes, missed>>
\* The turn's thread goes on when its window is out.
Opened(t) ==
  /\ pc[t] = "opening" /\ call[t] = NoCall /\ pc' = [pc EXCEPT ![t] = "running"]
  /\ UNCHANGED <<attached, attaches, version, active, started, finished, signature, updatedAt, call, shown, outcomes, missed>>

\* finish_turn_timing: the first to finish the turn is accepted, whatever the lane did.
Finish(t) == t \notin finished /\ finished' = finished \cup {t} /\ started' = started \ {t}
\* post_llm_call finds the chat by the active turn, or by the session when it is gone,
\* and publishes the window even when it did not change.
Post(t) ==
  /\ pc[t] = "running" /\ Finish(t)
  /\ pc' = [pc EXCEPT ![t] = "closing"]
  /\ call' = IF t \in active THEN Begins(t, t, TRUE) ELSE call
  /\ UNCHANGED <<attached, attaches, version, active, signature, updatedAt, shown, outcomes, missed>>
Outcome(t) == outcomes' = IF attached THEN [outcomes EXCEPT ![t] = @ + 1] ELSE outcomes
Posted(t) ==
  /\ pc[t] = "closing" /\ call[t] = NoCall
  /\ Outcome(t) /\ pc' = [pc EXCEPT ![t] = "finishing"]
  /\ UNCHANGED <<attached, attaches, version, active, started, finished, signature, updatedAt, call, shown, missed>>
\* deactivate
Closed(t) ==
  /\ pc[t] \in {"finishing", "failing"}
  /\ pc' = [pc EXCEPT ![t] = IF @ = "finishing" THEN "over" ELSE "failed"]
  /\ active' = active \ {t} /\ signature' = [signature EXCEPT ![t] = -1]
  /\ UNCHANGED <<attached, attaches, version, started, finished, updatedAt, call, shown, outcomes, missed>>
\* on_session_end (finish_failed_turn_activity) follows every turn, also one that
\* post_llm_call has finished; it publishes for a turn that is still active.
End(t) ==
  /\ pc[t] \in {"running", "over"}
  /\ IF t \in finished
       THEN pc' = [pc EXCEPT ![t] = "failed"] /\ UNCHANGED <<started, finished, outcomes>>
       ELSE /\ Finish(t)
            /\ IF t \in active
                 THEN Outcome(t) /\ pc' = [pc EXCEPT ![t] = "failing"]
                 ELSE pc' = [pc EXCEPT ![t] = "failed"] /\ UNCHANGED outcomes
  /\ UNCHANGED <<attached, attaches, version, active, signature, updatedAt, call, shown, missed>>

TurnNext ==
  \/ Detach \/ Attach \/ WindowChanges
  \/ \E th \in Threads : Sign(th) \/ Send(th)
  \/ \E t \in Turns : \/ PollTurn(t) \/ PreTiming(t) \/ Activate(t) \/ Opened(t)
                      \/ Post(t) \/ Posted(t) \/ Closed(t) \/ End(t)

\* A call that has begun returns, and the poll comes round to every active turn.
TurnFairness ==
  /\ \A th \in Threads : WF_turnVars(Sign(th)) /\ WF_turnVars(Send(th))
  /\ \A t \in Turns : SF_turnVars(PollTurn(t))

-----------------------------------------------------------------------------
\* A turn has one outcome on the lane, whichever of its hooks finishes it and however
\* often they are called, and none of them brings it back to life.
OneOutcome == \A t \in Turns :
  outcomes[t] <= 1 /\ (pc[t] \in {"over", "failed"} => t \notin active)

\* While a turn stays active its phone comes to show the window that Hermes holds: a
\* thread that read an earlier one may publish it later, and the poll finds the
\* signature that it left.  A turn activated while no lane is attached is the exception:
\* its signature stays, and an attachment does not publish its window again.
WindowShown == \A t \in Turns :
  (t \in active) ~> (shown[t].seen = version \/ t \notin active \/ t \in missed)
================================================================================
