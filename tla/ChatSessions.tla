------------------------------- MODULE ChatSessions -------------------------------
(***************************************************************************)
(* What the adapter does with the Hermes session of a chat when a phone     *)
(* asks (adapter.py): the directory its turns run in, and its forks.        *)
(***************************************************************************)
EXTENDS Naturals, Sequences, FiniteSets

-----------------------------------------------------------------------------
(***************************************************************************)
(* Where the turns of a chat run (adapter.py): the directory the phone       *)
(* chooses for a session is kept by the adapter until Hermes has a session,  *)
(* written to Hermes' row once it has, and registered for the tools; a turn  *)
(* first materializes a kept choice and is then dispatched by its behavior.  *)
(*                                                                          *)
(* One chat of one agent.  A lane handles one request at a time (there is    *)
(* one for each transport); Hermes runs turns beside them.  Hermes' own      *)
(* reset of a session is left out.                                          *)
(***************************************************************************)
CONSTANTS Lanes, Cwds, NoCwd
CONSTANTS MaxRequests, MaxFaults     \* bounds of the model

WorkspaceAssumption == NoCwd \notin Cwds /\ {MaxRequests, MaxFaults} \subseteq Nat

VARIABLES
  exists,      \* Hermes has a session
  row,         \* cwd of its row
  override,    \* the tools' environment override
  kept,        \* _link_session_workspaces
  lane,        \* the request each lane handles
  queued,      \* turns that Hermes will run
  running,     \* Hermes runs a turn
  waits,       \* Hermes waits for an approval or a clarification
  chosen,      \* the last choice acknowledged
  settled,     \* nothing was interrupted since
  requests, faults

workspaceVars == <<exists, row, override, kept, lane, queued, running, waits, chosen, settled, requests, faults>>
hermes == <<queued, running, waits>>

Places == Cwds \cup {NoCwd}
Idle == [at |-> "idle", cwd |-> NoCwd, entry |-> FALSE]

WorkspaceTypeOK ==
  /\ exists \in BOOLEAN /\ {row, override, kept, chosen} \subseteq Places
  /\ lane \in [Lanes -> [at: {"idle", "lookup", "store", "register", "begin", "create", "update", "finish",
                              "dispatch", "stop"},
                         cwd: Places, entry: BOOLEAN]]
  /\ queued \in Nat /\ running \in BOOLEAN /\ waits \in BOOLEAN /\ settled \in BOOLEAN
  /\ requests \in 0..MaxRequests /\ faults \in 0..MaxFaults

WorkspaceInit ==
  /\ exists = FALSE /\ row = NoCwd /\ override = NoCwd /\ kept = NoCwd
  /\ lane = [l \in Lanes |-> Idle] /\ queued = 0 /\ running = FALSE /\ waits = FALSE
  /\ chosen = NoCwd /\ settled = TRUE /\ requests = 0 /\ faults = 0

At(l, step) == lane[l].at = step
Moves(l, step) == lane' = [lane EXCEPT ![l].at = step]
Begins(l, request) ==
  /\ lane[l] = Idle /\ requests < MaxRequests /\ requests' = requests + 1
  /\ lane' = [lane EXCEPT ![l] = request]
Acks(l) == /\ chosen' = lane[l].cwd /\ settled' = TRUE
           /\ lane' = [lane EXCEPT ![l] = Idle]

-----------------------------------------------------------------------------
\* _set_link_session_workspace looks the session up,
Choose(l, c) ==
  /\ Begins(l, [Idle EXCEPT !.at = "lookup", !.cwd = c])
  /\ UNCHANGED <<exists, row, override, kept, hermes, chosen, settled, faults>>
Lookup(l) ==
  /\ At(l, "lookup") /\ lane' = [lane EXCEPT ![l].at = "store", ![l].entry = exists]
  /\ UNCHANGED <<exists, row, override, kept, hermes, chosen, settled, requests, faults>>
\* keeps the choice where there was none,
Keep(l) ==
  /\ At(l, "store") /\ ~lane[l].entry
  /\ override' = lane[l].cwd /\ kept' = lane[l].cwd /\ Acks(l)
  /\ UNCHANGED <<exists, row, hermes, requests, faults>>
\* and otherwise updates the row, then registers the override.
Store(l) ==
  /\ At(l, "store") /\ lane[l].entry /\ Moves(l, "register")
  /\ row' = lane[l].cwd
  /\ UNCHANGED <<exists, override, kept, hermes, chosen, settled, requests, faults>>
Register(l) ==
  /\ At(l, "register") /\ override' = lane[l].cwd /\ kept' = NoCwd /\ Acks(l)
  /\ UNCHANGED <<exists, row, hermes, requests, faults>>

\* _dispatch_link_turn: _materialize_pending_link_session_workspace comes first.
Turn(l) ==
  /\ Begins(l, [Idle EXCEPT !.at = "begin"])
  /\ UNCHANGED <<exists, row, override, kept, hermes, chosen, settled, faults>>
Materialize(l) ==
  /\ At(l, "begin")
  /\ lane' = [lane EXCEPT ![l].at = IF kept = NoCwd THEN "dispatch" ELSE "create", ![l].cwd = kept]
  /\ UNCHANGED <<exists, row, override, kept, hermes, chosen, settled, requests, faults>>
Create(l) ==
  /\ At(l, "create") /\ Moves(l, "update") /\ exists' = TRUE
  /\ UNCHANGED <<row, override, kept, hermes, chosen, settled, requests, faults>>
Update(l) ==
  /\ At(l, "update") /\ Moves(l, "finish") /\ row' = lane[l].cwd
  /\ UNCHANGED <<exists, override, kept, hermes, chosen, settled, requests, faults>>
Finish(l) ==
  /\ At(l, "finish") /\ Moves(l, "dispatch")
  /\ override' = lane[l].cwd /\ kept' = IF kept = lane[l].cwd THEN NoCwd ELSE kept
  /\ UNCHANGED <<exists, row, hermes, chosen, settled, requests, faults>>
\* What Hermes waits for, a command of its own or no behavior go the plain way, as does
\* a queued message; a message that steers joins the turn that runs, and one that
\* interrupts stops it first.
Dispatch(l, behavior) ==
  /\ At(l, "dispatch")
  /\ LET plain == waits \/ behavior \in {"none", "queue"} \/ ~running
     IN /\ queued' = IF plain /\ ~waits THEN queued + 1 ELSE queued
        /\ waits' = FALSE
        /\ lane' = [lane EXCEPT ![l] = IF ~plain /\ behavior = "interrupt" THEN [@ EXCEPT !.at = "stop"] ELSE Idle]
  /\ UNCHANGED <<exists, row, override, kept, running, chosen, settled, requests, faults>>
Stop(l) ==
  /\ At(l, "stop") /\ lane' = [lane EXCEPT ![l] = Idle]
  /\ running' = FALSE /\ waits' = FALSE /\ queued' = 1
  /\ UNCHANGED <<exists, row, override, kept, chosen, settled, requests, faults>>

-----------------------------------------------------------------------------
\* _loopdy_runtime_cwd, and _get_link_session_workspace for the phone.
Runs == IF override # NoCwd THEN override ELSE row
Reads == IF exists /\ row # NoCwd THEN row ELSE kept
\* Hermes begins a queued turn: the bridge registers the directory again.
Starts ==
  /\ queued > 0 /\ ~running /\ queued' = queued - 1 /\ running' = TRUE
  /\ exists' = TRUE /\ override' = Runs
  /\ UNCHANGED <<row, kept, lane, waits, chosen, settled, requests, faults>>
Asks ==
  /\ running /\ ~waits /\ waits' = TRUE
  /\ UNCHANGED <<exists, row, override, kept, lane, queued, running, chosen, settled, requests, faults>>
Ends ==
  /\ running /\ running' = FALSE /\ waits' = FALSE
  /\ UNCHANGED <<exists, row, override, kept, lane, queued, chosen, settled, requests, faults>>
\* A request is cancelled or fails where it waits; the choice is not acknowledged.
Cancelled(l) ==
  /\ lane[l] # Idle /\ faults < MaxFaults /\ faults' = faults + 1
  /\ lane' = [lane EXCEPT ![l] = Idle] /\ settled' = FALSE
  /\ UNCHANGED <<exists, row, override, kept, hermes, chosen, requests>>
\* The host restarts: what the adapter and the tools kept is gone.
Restart ==
  /\ faults < MaxFaults /\ faults' = faults + 1
  /\ override' = NoCwd /\ kept' = NoCwd /\ lane' = [l \in Lanes |-> Idle]
  /\ queued' = 0 /\ running' = FALSE /\ waits' = FALSE
  /\ settled' = (settled /\ row = chosen /\ \A l \in Lanes : lane[l] = Idle)
  /\ UNCHANGED <<exists, row, chosen, requests>>

WorkspaceNext ==
  \/ \E l \in Lanes :
       \/ Lookup(l) \/ Keep(l) \/ Store(l) \/ Register(l) \/ Turn(l) \/ Materialize(l) \/ Create(l)
       \/ Update(l) \/ Finish(l) \/ Stop(l) \/ Cancelled(l)
       \/ \E c \in Cwds : Choose(l, c)
       \/ \E behavior \in {"none", "steer", "queue", "interrupt"} : Dispatch(l, behavior)
  \/ Starts \/ Asks \/ Ends \/ Restart

-----------------------------------------------------------------------------
\* With one lane: between requests, what was acknowledged last is where turns run and
\* what the phone reads back, whether the session began before, during or after the
\* choice ("new chats seed the selected CWD before first-turn creation ... while
\* existing chats persist the moved CWD").
ChoiceStands ==
  settled /\ (\A l \in Lanes : lane[l] = Idle) => Runs = chosen /\ Reads = chosen

-----------------------------------------------------------------------------
(***************************************************************************)
(* A chat forked at a checkpoint (adapter.py, _fork_link_session): a phone   *)
(* names a message it saw by its user turn, its author and the digest of its *)
(* text; the transcript up to it is copied into a new session of Hermes.     *)
(* The chat goes on meanwhile, its last turn may be taken back, and a phone  *)
(* that has no answer asks again under the same coordinate.                  *)
(*                                                                          *)
(* One chat, one coordinate for the fork.  An asker has one request at a     *)
(* time.                                                                     *)
(***************************************************************************)
CONSTANTS
  Askers,
  Texts,
  MaxMessages, MaxRewinds, MaxAsks, MaxCrashes     \* bounds of the model

ForkAssumption == {MaxMessages, MaxRewinds, MaxAsks, MaxCrashes} \subseteq Nat

VARIABLES
  source,    \* transcript of the chat
  fork,      \* transcript of the fork
  forkRow,   \* Hermes' row of the fork: none, there, titled
  busy,      \* a turn runs in the fork
  ask,       \* the request each lane runs
  ready,     \* forks answered as completed, as the phone had seen them
  asks, rewinds, crashes

forkVars == <<source, fork, forkRow, busy, ask, ready, asks, rewinds, crashes>>

Messages == [role: {"user", "assistant"}, text: Texts]
Checkpoint(turn, role, text) == [turn |-> turn, role |-> role, text |-> text]
Unasked == [at |-> "idle", point |-> Checkpoint(0, "user", CHOOSE t \in Texts : TRUE), seen |-> <<>>,
         prefix |-> <<>>, rewinds |-> 0]

ForkTypeOK ==
  /\ {source, fork} \subseteq Seq(Messages) /\ forkRow \in {"none", "there", "titled"} /\ busy \in BOOLEAN
  /\ \A l \in Askers : /\ ask[l].at \in {"idle", "load", "target", "existing", "rewrite", "row", "title", "reply"}
                      /\ {ask[l].seen, ask[l].prefix} \subseteq Seq(Messages)
  /\ \A r \in ready : {r.seen, r.held} \subseteq Seq(Messages)
  /\ asks \in 0..MaxAsks /\ rewinds \in 0..MaxRewinds /\ crashes \in 0..MaxCrashes

ForkInit ==
  /\ source = <<>> /\ fork = <<>> /\ forkRow = "none" /\ busy = FALSE
  /\ ask = [l \in Askers |-> Unasked] /\ ready = {} /\ asks = 0 /\ rewinds = 0 /\ crashes = 0

-----------------------------------------------------------------------------
\* verified_fork_prefix: up to the message of the turn, or the last assistant's within it.
OfTurn(history, i) == Cardinality({j \in 1..i : history[j].role = "user"})
AtTurn(history, turn, role) == {i \in DOMAIN history : OfTurn(history, i) = turn /\ history[i].role = role}
Last(S) == CHOOSE i \in S : \A j \in S : j <= i
Verified(history, p) ==
  LET there == AtTurn(history, p.turn, p.role)
  IN there # {} /\ history[Last(there)].text = p.text
Prefix(history, p) == SubSeq(history, 1, Last(AtTurn(history, p.turn, p.role)))
\* The checkpoints a phone that shows a transcript may name.
Points(history) ==
  {Checkpoint(OfTurn(history, i), history[i].role, history[i].text) :
     i \in {k \in DOMAIN history : k = Last(AtTurn(history, OfTurn(history, k), history[k].role))}}

Extends(new, old) == \A i \in DOMAIN old : i \in DOMAIN new /\ new[i] = old[i]

AskAt(l, step) == ask[l].at = step
AskMoves(l, step) == ask' = [ask EXCEPT ![l].at = step]
AskEnds(l) == ask' = [ask EXCEPT ![l] = Unasked]

\* The chat: its owner writes, the agent answers; its last turn is taken back.
Say(m) ==
  /\ Len(source) < MaxMessages /\ (source = <<>> => m.role = "user") /\ source' = Append(source, m)
  /\ UNCHANGED <<fork, forkRow, busy, ask, ready, asks, rewinds, crashes>>
Rewind ==
  /\ source # <<>> /\ rewinds < MaxRewinds /\ rewinds' = rewinds + 1
  /\ source' = SubSeq(source, 1, Last({i \in DOMAIN source : source[i].role = "user"}) - 1)
  /\ UNCHANGED <<fork, forkRow, busy, ask, ready, asks, crashes>>
\* Who was told that the fork is ready may write in it.
ForkTurn ==
  /\ ready # {} /\ ~busy /\ Len(fork) < MaxMessages /\ busy' = TRUE
  /\ fork' = Append(fork, [role |-> "user", text |-> CHOOSE t \in Texts : TRUE])
  /\ UNCHANGED <<source, forkRow, ask, ready, asks, rewinds, crashes>>
ForkTurnEnds ==
  /\ busy /\ busy' = FALSE
  /\ UNCHANGED <<source, fork, forkRow, ask, ready, asks, rewinds, crashes>>

-----------------------------------------------------------------------------
\* A phone asks for a fork at a message it sees.
Ask(l, p) ==
  /\ ask[l] = Unasked /\ asks < MaxAsks /\ asks' = asks + 1
  /\ ask' = [ask EXCEPT ![l] = [at |-> "load", point |-> p, seen |-> Prefix(source, p), prefix |-> <<>>,
                                rewinds |-> rewinds]]
  /\ UNCHANGED <<source, fork, forkRow, busy, ready, rewinds, crashes>>
\* The chat's transcript is read, and the checkpoint verified in it.
Load(l) ==
  /\ AskAt(l, "load")
  /\ IF Verified(source, ask[l].point)
     THEN ask' = [ask EXCEPT ![l].at = "target", ![l].prefix = Prefix(source, ask[l].point)]
     ELSE AskEnds(l)
  /\ UNCHANGED <<source, fork, forkRow, busy, ready, asks, rewinds, crashes>>
\* The session of the fork, and that nothing is in it.
Target(l) ==
  /\ AskAt(l, "target") /\ AskMoves(l, "existing")
  /\ UNCHANGED <<source, fork, forkRow, busy, ready, asks, rewinds, crashes>>

\* Mutant: a fork that has messages already is written again.
ExistingOrNot(l) ==
  /\ AskAt(l, "existing") /\ AskMoves(l, "rewrite")
  /\ UNCHANGED <<source, fork, forkRow, busy, ready, asks, rewinds, crashes>>

Existing(l) ==
  /\ AskAt(l, "existing") /\ IF fork = <<>> THEN AskMoves(l, "rewrite") ELSE AskEnds(l)
  /\ UNCHANGED <<source, fork, forkRow, busy, ready, asks, rewinds, crashes>>
\* Hermes does not rewrite under a running turn.
Rewrite(l) ==
  /\ AskAt(l, "rewrite")
  /\ IF busy THEN AskEnds(l) /\ UNCHANGED fork ELSE fork' = ask[l].prefix /\ AskMoves(l, "row")
  /\ UNCHANGED <<source, forkRow, busy, ready, asks, rewinds, crashes>>
Row(l) ==
  /\ AskAt(l, "row") /\ AskMoves(l, "title") /\ forkRow' = IF forkRow = "none" THEN "there" ELSE forkRow
  /\ UNCHANGED <<source, fork, busy, ready, asks, rewinds, crashes>>
Title(l) ==
  /\ AskAt(l, "title") /\ forkRow' = "titled" /\ AskMoves(l, "reply")
  /\ UNCHANGED <<source, fork, busy, ready, asks, rewinds, crashes>>
\* The answer, which may be lost.
Reply(l, lost) ==
  /\ AskAt(l, "reply") /\ AskEnds(l)
  /\ ready' = IF lost THEN ready
              ELSE ready \cup {[seen |-> ask[l].seen, held |-> ask[l].prefix, steady |-> ask[l].rewinds = rewinds]}
  /\ UNCHANGED <<source, fork, forkRow, busy, asks, rewinds, crashes>>
\* A step raises, or Hermes dies: what was done stays.
Fails(l) ==
  /\ ask[l] # Unasked /\ crashes < MaxCrashes /\ crashes' = crashes + 1 /\ AskEnds(l)
  /\ UNCHANGED <<source, fork, forkRow, busy, ready, asks, rewinds>>
Dies ==
  /\ crashes < MaxCrashes /\ crashes' = crashes + 1 /\ busy' = FALSE /\ ask' = [l \in Askers |-> Unasked]
  /\ UNCHANGED <<source, fork, forkRow, ready, asks, rewinds>>

ForkNext ==
  \/ \E m \in Messages : Say(m)
  \/ Rewind \/ ForkTurn \/ ForkTurnEnds \/ Dies
  \/ \E l \in Askers :
       \/ \E p \in Points(source) : Ask(l, p)
       \/ Load(l) \/ Target(l) \/ Existing(l) \/ Rewrite(l) \/ Row(l) \/ Title(l) \/ Fails(l)
       \/ \E lost \in BOOLEAN : Reply(l, lost)

-----------------------------------------------------------------------------
\* A phone told that its fork is ready has in it the chat it saw up to the message it chose,
\* and whatever was said in the fork since; unless a turn of the chat was taken back
\* meanwhile.  It always ends with the message chosen (the agent may say the same twice in
\* one turn, and then the fork ends with the second).
ForkHoldsWhatWasSeen ==
  \A r \in ready :
    /\ r.steady => Extends(r.held, r.seen)
    /\ r.held[Len(r.held)] = r.seen[Len(r.seen)]
    /\ Extends(fork, r.held)

\* Asking again never takes back what the fork holds.
ForkLosesNothing == [][Extends(fork', fork)]_forkVars
================================================================================
