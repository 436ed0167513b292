---------------------------- MODULE AdapterLifecycle ----------------------------
(***************************************************************************)
(* How the platform adapter comes up and goes down (adapter.py, connect and  *)
(* disconnect; direct_runtime.py and direct_server.py, start and stop).      *)
(* Hermes connects and disconnects one adapter, one call at a time; the Link *)
(* client, a task that starts the Direct runtime, and each runtime's own     *)
(* refresh loop run beside that call on one event loop, each to its next     *)
(* await.  A runtime is made for one presentation hub and never reused.      *)
(***************************************************************************)
EXTENDS Naturals

CONSTANTS
  Owners, Mine,  \* pairings the configuration file may hold; the Link client keeps Mine
  NarrowRace,    \* a reconnection may stop a runtime in the turns in which it binds its port
  MaxRuntimes, MaxCalls, MaxChanges     \* bounds of the model

LifecycleAssumption ==
  /\ Mine \in Owners /\ NarrowRace \in BOOLEAN /\ {MaxRuntimes, MaxCalls, MaxChanges} \subseteq Nat

VARIABLES
  call,       \* Hermes' connect or disconnect: its await, the runtime it awaits, what follows
  last,       \* how the last call ended
  starter,    \* _direct_start_task: its await and its runtime
  direct,     \* direct_runtime, 0 when there is none
  runtime,    \* every runtime made so far
  hub,        \* generation of _presentation_hub
  open,       \* _session_presentation is there
  link,       \* the Link client
  shown,      \* Hermes shows the platform as connected
  disk,       \* owner in the configuration file
  enabled,    \* Direct settings
  calls, changes

lifecycleVars == <<call, last, starter, direct, runtime, hub, open, link, shown, disk, enabled, calls, changes>>
world == <<disk, enabled, calls, changes>>

Runtimes == 1..MaxRuntimes
Unborn == [at |-> "unborn", hub |-> 0, retired |-> FALSE, closed |-> FALSE, started |-> FALSE,
           listening |-> FALSE, loop |-> FALSE]
Out == [at |-> "out", on |-> 0, next |-> "out"]
Over == [at |-> "over", on |-> 0]

LifecycleTypeOK ==
  /\ call \in [at: {"out", "prepare", "starter", "runtime", "link", "old", "wait"}, on: 0..MaxRuntimes,
               next: {"out", "prepare"}]
  /\ last \in {"none", "connected", "disconnected"}
  /\ starter \in [at: {"over", "new", "fetch", "bind"}, on: 0..MaxRuntimes]
  /\ direct \in 0..MaxRuntimes /\ hub \in Nat /\ {open, shown, enabled} \subseteq BOOLEAN
  /\ runtime \in [Runtimes -> [at: {"unborn", "made", "cancelling", "closing", "gone"}, hub: Nat,
                               retired: BOOLEAN, closed: BOOLEAN, started: BOOLEAN,
                               listening: BOOLEAN, loop: BOOLEAN]]
  /\ link \in {"off", "down", "up", "refused", "superseded"} /\ disk \in Owners
  /\ calls \in 0..MaxCalls /\ changes \in 0..MaxChanges

LifecycleInit ==
  /\ call = Out /\ last = "none" /\ starter = Over /\ direct = 0 /\ runtime = [r \in Runtimes |-> Unborn]
  /\ hub = 0 /\ open = FALSE /\ link = "off" /\ shown = FALSE
  /\ disk = Mine /\ enabled = TRUE /\ calls = 0 /\ changes = 0

-----------------------------------------------------------------------------
\* _check_owner retires a runtime whose configuration changed.
Checked(rt, r) == [rt EXCEPT ![r].retired = @ \/ disk # Mine \/ ~enabled]
\* DirectRuntime.available.
Available(rt, r) == r # 0 /\ LET c == Checked(rt, r)[r] IN c.started /\ ~c.retired
\* DirectRuntime.stop up to its first await; a second call returns at once.
Stopped(rt, r) ==
  IF rt[r].closed THEN rt
  ELSE [rt EXCEPT ![r] = [@ EXCEPT !.closed = TRUE, !.retired = TRUE, !.started = FALSE,
                            !.at = IF rt[r].loop THEN "cancelling" ELSE "gone"]]
\* _on_direct_status: only the adapter's own runtime is heard.
Notifies(rt, r) ==
  IF direct # r THEN UNCHANGED <<shown, open>>
  ELSE /\ shown' = (Available(rt, r) \/ link = "up")
       /\ open' = (open /\ (rt[r].retired => disk = Mine))

\* DirectRuntime.stop: the cancelled loop is over and the server closes; then its sockets are.
StopLoop(r) ==
  /\ runtime[r].at = "cancelling"
  /\ runtime' = [runtime EXCEPT ![r].at = "closing", ![r].loop = FALSE, ![r].listening = FALSE]
  /\ UNCHANGED <<call, last, starter, direct, hub, open, link, shown, world>>
StopEnds(r) ==
  /\ runtime[r].at = "closing" /\ runtime' = [runtime EXCEPT ![r].at = "gone", ![r].loop = FALSE]
  /\ Notifies(runtime, r)
  /\ UNCHANGED <<call, last, starter, direct, hub, link, world>>

-----------------------------------------------------------------------------
\* _start_direct: what it reads before its first await,
Unused == {r \in Runtimes : runtime[r] = Unborn}
StartReads ==
  /\ starter.at = "new"
  /\ IF ~enabled \/ ~open \/ disk # Mine
     THEN /\ starter' = Over /\ open' = (open /\ (enabled => disk = Mine)) /\ UNCHANGED <<direct, runtime>>
     ELSE \E r \in Unused :
            /\ \A q \in Unused : r <= q
            /\ runtime' = [runtime EXCEPT ![r].at = "made", ![r].hub = hub]
            /\ direct' = r /\ starter' = [at |-> "fetch", on |-> r] /\ UNCHANGED open
  /\ UNCHANGED <<call, last, hub, link, shown, world>>
\* the catalog, the socket, the loop; a start that fails stops its runtime.
Undo(rt, r) ==
  /\ runtime' = Stopped(rt, r) /\ starter' = Over /\ direct' = IF direct = r THEN 0 ELSE direct
  /\ Notifies(Stopped(rt, r), r)
StartFetches(ok) ==
  LET r == starter.on
      rt == Checked(runtime, r)
  IN /\ starter.at = "fetch" /\ call.at # "starter"
     /\ IF ok /\ ~rt[r].retired
        THEN /\ runtime' = rt /\ starter' = [starter EXCEPT !.at = "bind"]
             /\ UNCHANGED <<direct, shown, open>>
        ELSE Undo(rt, r)
     /\ UNCHANGED <<call, last, hub, link, world>>
StartBinds ==
  LET r == starter.on
      rt == [runtime EXCEPT ![r].listening = TRUE, ![r].started = TRUE, ![r].loop = TRUE]
  IN /\ starter.at = "bind" /\ call.at # "starter"
     /\ IF \E q \in Runtimes : runtime[q].listening
        THEN Undo(runtime, r)
        ELSE runtime' = Checked(rt, r) /\ starter' = Over /\ Notifies(rt, r) /\ UNCHANGED direct
     /\ UNCHANGED <<call, last, hub, link, world>>

\* Mutant: the loop of a retired runtime returns and leaves its server listening.
LoopReturns(r, refused) ==
  LET seen == Checked([runtime EXCEPT ![r].retired = @ \/ refused], r)
  IN /\ runtime[r].loop /\ runtime[r].at \notin {"cancelling", "closing"}
     /\ runtime' = IF seen[r].retired THEN [seen EXCEPT ![r].loop = FALSE] ELSE seen
     /\ Notifies(seen, r)
     /\ UNCHANGED <<call, last, starter, direct, hub, link, world>>

\* _refresh_loop: a second, perhaps a catalog that retires the host.
LoopTurns(r, refused) ==
  LET seen == Checked([runtime EXCEPT ![r].retired = @ \/ refused], r)
  IN /\ runtime[r].loop /\ runtime[r].at \notin {"cancelling", "closing"}
     /\ runtime' = IF ~seen[r].retired THEN seen
                   ELSE IF seen[r].closed THEN [seen EXCEPT ![r].loop = FALSE]
                   ELSE [Stopped(seen, r) EXCEPT ![r].at = "closing", ![r].listening = FALSE]
     /\ Notifies(seen, r)
     /\ UNCHANGED <<call, last, starter, direct, hub, link, world>>

-----------------------------------------------------------------------------
\* disconnect: the start task is cancelled and awaited,
Leaves(next) ==
  /\ call' = [Out EXCEPT !.at = "starter", !.next = next]
  /\ starter' = IF starter.at = "new" THEN Over ELSE starter
\* the runtime is taken, the presentation closed, the runtime stopped,
AfterStarter ==
  LET undone == starter.at # "over"
      rt == IF undone THEN Stopped(runtime, starter.on) ELSE runtime
      left == IF undone /\ direct = starter.on THEN 0 ELSE direct
  IN /\ call.at = "starter" /\ starter' = Over /\ direct' = 0 /\ open' = FALSE
     /\ runtime' = IF left = 0 THEN rt ELSE Stopped(rt, left)
     /\ call' = [call EXCEPT !.at = "runtime", !.on = IF left = 0 \/ rt[left].closed THEN 0 ELSE left]
     /\ UNCHANGED <<last, hub, link, shown, world>>
AfterRuntime ==
  /\ call.at = "runtime" /\ (call.on # 0 => runtime[call.on].at = "gone")
  /\ call' = [call EXCEPT !.at = "link", !.on = 0]
  /\ UNCHANGED <<last, starter, direct, runtime, hub, open, link, shown, world>>
\* the Link client stopped.
AfterLink ==
  /\ call.at = "link" /\ call' = [Out EXCEPT !.at = call.next]
  /\ link' = IF link \in {"up", "down"} THEN "off" ELSE link
  /\ shown' = FALSE /\ last' = "disconnected"
  /\ UNCHANGED <<starter, direct, runtime, hub, open, world>>

\* connect disconnects first, unless it reconnects;
Connect(again) ==
  /\ call = Out /\ calls < MaxCalls /\ calls' = calls + 1
  /\ IF (direct # 0 \/ starter.at # "over") /\ ~again THEN Leaves("prepare")
     ELSE call' = [Out EXCEPT !.at = "prepare"] /\ UNCHANGED starter
  /\ UNCHANGED <<last, direct, runtime, hub, open, link, shown, disk, enabled, changes>>
\* opens the presentation and stops a runtime that no longer fits;
Prepare ==
  LET used == IF open THEN hub ELSE hub + 1
      unfit == direct # 0 /\ (runtime[direct].retired \/ runtime[direct].hub # used)
  IN /\ call.at = "prepare" /\ (NarrowRace \/ ~(unfit /\ starter.at = "bind"))
     /\ open' = TRUE /\ hub' = used
     /\ runtime' = IF unfit THEN Stopped(runtime, direct) ELSE runtime
     /\ call' = [call EXCEPT !.at = "old", !.on = IF unfit /\ ~runtime[direct].closed THEN direct ELSE 0]
     /\ direct' = IF unfit /\ runtime[direct].closed THEN 0 ELSE direct
     /\ UNCHANGED <<last, starter, link, shown, world>>
\* starts Direct and Link and waits for one of them.
AfterOld ==
  LET left == IF call.on # 0 THEN 0 ELSE direct
  IN /\ call.at = "old" /\ (call.on # 0 => runtime[call.on].at = "gone")
     /\ direct' = left /\ call' = [Out EXCEPT !.at = "wait"]
     /\ starter' = IF left = 0 /\ starter.at = "over" THEN [at |-> "new", on |-> 0] ELSE starter
     /\ link' = IF link = "off" THEN "down" ELSE link
     /\ UNCHANGED <<last, runtime, hub, open, shown, world>>
Waited ==
  /\ call.at = "wait" /\ (link = "up" \/ Available(runtime, direct))
  /\ call' = Out /\ last' = "connected" /\ shown' = TRUE
  /\ UNCHANGED <<starter, direct, runtime, hub, open, link, world>>
\* Not usable within 20 seconds, or cancelled by Hermes' own limit.
GivesUp(cancelled) ==
  /\ call.at = "wait"
  /\ cancelled \/ (link # "up" /\ starter.at = "over" /\ ~Available(runtime, direct))
  /\ Leaves("out") /\ shown' = (shown /\ cancelled)
  /\ UNCHANGED <<last, direct, runtime, hub, open, link, world>>
Disconnect ==
  /\ call = Out /\ calls < MaxCalls /\ calls' = calls + 1 /\ Leaves("out")
  /\ UNCHANGED <<last, direct, runtime, hub, open, link, shown, disk, enabled, changes>>

-----------------------------------------------------------------------------
\* _on_link_status, for what LinkClient._run notifies: it records a supersession
\* and notifies a disconnection.
LinkUp ==
  /\ link = "down" /\ link' = "up" /\ shown' = TRUE
  /\ UNCHANGED <<call, last, starter, direct, runtime, hub, open, world>>
LinkDown(superseded) ==
  /\ link \in {"up", "down"} /\ changes < MaxChanges /\ changes' = changes + 1
  /\ link' = IF superseded THEN "superseded" ELSE "down"
  /\ shown' = Available(runtime, direct)
  /\ UNCHANGED <<call, last, starter, direct, runtime, hub, open, disk, enabled, calls>>
LinkRefused ==
  /\ link \in {"up", "down"} /\ changes < MaxChanges /\ changes' = changes + 1
  /\ link' = "refused" /\ open' = FALSE
  /\ IF direct = 0 THEN UNCHANGED <<runtime, shown>>
     ELSE runtime' = [runtime EXCEPT ![direct].retired = TRUE] /\ shown' = FALSE
  /\ UNCHANGED <<call, last, starter, direct, hub, disk, enabled, calls>>
\* The configuration file is rewritten.
Configure(owner, on) ==
  /\ <<owner, on>> # <<disk, enabled>> /\ changes < MaxChanges /\ changes' = changes + 1
  /\ disk' = owner /\ enabled' = on
  /\ UNCHANGED <<call, last, starter, direct, runtime, hub, open, link, shown, calls>>

-----------------------------------------------------------------------------
RuntimeStep(r) == StopLoop(r) \/ StopEnds(r) \/ \E refused \in BOOLEAN : LoopTurns(r, refused)
StarterStep == StartReads \/ StartBinds \/ \E ok \in BOOLEAN : StartFetches(ok)
CallStep == AfterStarter \/ AfterRuntime \/ AfterLink \/ Prepare \/ AfterOld \/ Waited \/ GivesUp(FALSE)

LifecycleNext ==
  \/ \E again \in BOOLEAN : Connect(again)
  \/ Disconnect \/ CallStep \/ GivesUp(TRUE) \/ StarterStep
  \/ \E r \in Runtimes : RuntimeStep(r)
  \/ LinkUp \/ LinkRefused
  \/ \E superseded \in BOOLEAN : LinkDown(superseded)
  \/ \E owner \in Owners, on \in BOOLEAN : Configure(owner, on)

\* The event loop runs every task that is ready.
LifecycleFairness ==
  /\ WF_lifecycleVars(CallStep) /\ WF_lifecycleVars(StarterStep)
  /\ \A r \in Runtimes : WF_lifecycleVars(RuntimeStep(r))

-----------------------------------------------------------------------------
\* At most one runtime holds the port, and one that does is the adapter's own or is on its way
\* out, its loop still running or its stop under way: none is left behind with its socket open.
NoneLeftListening ==
  \A r \in Runtimes : runtime[r].listening =>
    /\ \A q \in Runtimes : runtime[q].listening => q = r
    /\ r = direct \/ runtime[r].at = "cancelling"

\* A disconnection that is over left nothing that could come back: no start task, no runtime
\* of its own, no presentation, no Link connection; and Hermes does not show it connected.
DisconnectedIsQuiet ==
  call = Out /\ last = "disconnected" =>
    starter = Over /\ direct = 0 /\ ~open /\ link \notin {"up", "down"} /\ ~shown

\* What phones read through an available runtime is the presentation the adapter writes to.
ServesWhatIsPublished ==
  Available(runtime, direct) => open /\ runtime[direct].hub = hub

\* Every call of Hermes ends, and a runtime that was retired gives up its port.
CallsReturn == call # Out ~> call = Out
RetiredCloses == \A r \in Runtimes : runtime[r].retired /\ runtime[r].listening ~> ~runtime[r].listening
===============================================================================
