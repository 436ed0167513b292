------------------------------- MODULE MCSessions -------------------------------
(***************************************************************************)
(* What the adapter does beside Hermes' turns, one component at a time: a   *)
(* run's first state chooses whose steps it takes (focus).  The activity    *)
(* bridge's queue, turns, routes and goals and the adapter's connections    *)
(* share none of the state below, nor does the native phone channel.        *)
(***************************************************************************)
EXTENDS Naturals, Sequences

CONSTANTS NoReader, Poller, NoChild, a, b, x, y

VARIABLES
  focus,
  \* ActivityQueue
  lane, unsent, wakeup, flushes, queue, drain, roster, hook, signature, live, finisher, failures,
  completes, ids, gone, sent, over,
  \* ActivityTurns
  attached, attaches, version, active, started, finished, signed, updatedAt, pc, call, shown,
  outcomes, missed,
  \* SessionLane: routes
  routes, usage, handoffs, binds, detaches, reported, begun, returned,
  \* SessionLane: goals
  joined, joins, goal, holder, reading, snapshot, due, carried, lastStamp, losses, phone,
  \* AdapterLifecycle
  hermes, last, starter, direct, runtime, hub, open, link, connected, disk, enabled, calls, changes,
  \* NativeDeviceTools
  moment, channels, requests, executions, handset

Q == INSTANCE ActivityQueue WITH
       Children <- {a}, QueueSize <- 2, Watched <- TRUE,
       MaxAttaches <- 2, MaxFailures <- 1, MaxCompletes <- 1, pending <- unsent
T == INSTANCE ActivityTurns WITH
       Turns <- {a}, Poll <- Poller, MaxActive <- 1, MaxVersion <- 2, MaxAttaches <- 1, signature <- signed
S == INSTANCE SessionLane WITH
       Sessions <- {a, b}, Chats <- {x, y}, Requests <- {1, 2, 3},
       SessionOf <- [r \in {1, 2, 3} |-> IF r = 3 THEN b ELSE a],
       Processes <- {a}, Bound <- 1, MaxBinds <- 3, MaxDetaches <- 1,
       Readers <- {a, b}, MaxVersion <- 2, MaxLosses <- 1, MaxAttaches <- 1,
       attached <- joined, attaches <- joins, lane <- carried
L == INSTANCE AdapterLifecycle WITH
       Owners <- {"mine", "other"}, Mine <- "mine", NarrowRace <- FALSE,
       MaxRuntimes <- 3, MaxCalls <- 3, MaxChanges <- 2, call <- hermes, shown <- connected


\* A channel with a queue of one, and loops that lag: two executions of one tool call, or of
\* two, that may be cancelled.
N == INSTANCE NativeDeviceTools WITH
       Channels <- {a}, Sessions <- {b}, Calls <- {x, y}, Executions <- {1, 2},
       SessionOf <- [o \in {a, 1, 2} |-> b], CallOf <- [e \in {1, 2} |-> x],
       WorkOf <- [e \in {1, 2} |-> "work"], NoChannel <- NoChild, LeaseSeconds <- 2,
       MaxChannels <- 1, MaxQueue <- 1, MaxCompleted <- 1, MaxPollItems <- 1, Cancels <- TRUE,
       LoopLags <- TRUE, MaxTime <- 1,
       now <- moment, calls <- executions, phone <- handset
O == INSTANCE NativeDeviceTools WITH
       Channels <- {a}, Sessions <- {b}, Calls <- {x, y}, Executions <- {1, 3},
       SessionOf <- [o \in {a, 1, 3} |-> b], CallOf <- [e \in {1, 3} |-> IF e = 3 THEN y ELSE x],
       WorkOf <- [e \in {1, 3} |-> "work"], NoChannel <- NoChild, LeaseSeconds <- 2,
       MaxChannels <- 1, MaxQueue <- 1, MaxCompleted <- 1, MaxPollItems <- 1, Cancels <- TRUE,
       LoopLags <- TRUE, MaxTime <- 1,
       now <- moment, calls <- executions, phone <- handset
queueVars == <<lane, unsent, wakeup, flushes, queue, drain, roster, hook, signature, live, finisher,
  failures, completes, ids, gone, sent, over>>
turnVars == <<attached, attaches, version, active, started, finished, signed, updatedAt, pc, call,
  shown, outcomes, missed>>
routeVars == <<routes, usage, handoffs, binds, detaches, reported, begun, returned>>
goalVars == <<joined, joins, goal, holder, reading, snapshot, due, carried, lastStamp, losses, phone>>
lifecycleVars == <<hermes, last, starter, direct, runtime, hub, open, link, connected, disk, enabled,
  calls, changes>>
bridgeVars == <<queueVars, turnVars, routeVars, goalVars>>
nativeVars == <<moment, channels, requests, executions, handset>>
allVars == <<focus, bridgeVars, lifecycleVars, nativeVars>>

ASSUME /\ Q!QueueAssumption /\ T!TurnAssumption /\ S!RouteAssumption /\ S!GoalAssumption
       /\ L!LifecycleAssumption /\ N!HubAssumption /\ O!HubAssumption

-----------------------------------------------------------------------------
Begins ==
  /\ focus \in {"queue", "turns", "routes", "goals", "lifecycle", "repeated", "different"}
  /\ Q!QueueInit /\ T!TurnInit /\ S!RouteInit /\ S!GoalInit /\ L!LifecycleInit
  /\ IF focus = "different" THEN O!Init ELSE N!Init

Bridge ==
  \/ focus = "queue" /\ Q!QueueNext /\ UNCHANGED <<turnVars, routeVars, goalVars>>
  \/ focus = "turns" /\ T!TurnNext /\ UNCHANGED <<queueVars, routeVars, goalVars>>
  \/ focus = "routes" /\ S!RouteNext /\ UNCHANGED <<queueVars, turnVars, goalVars>>
  \/ focus = "goals" /\ S!GoalNext /\ UNCHANGED <<queueVars, turnVars, routeVars>>
Native ==
  \/ focus = "repeated" /\ N!Next
  \/ focus = "different" /\ O!Next
Step ==
  /\ UNCHANGED focus
  /\ \/ Bridge /\ UNCHANGED <<lifecycleVars, nativeVars>>
     \/ focus = "lifecycle" /\ L!LifecycleNext /\ UNCHANGED <<bridgeVars, nativeVars>>
     \/ Native /\ UNCHANGED <<bridgeVars, lifecycleVars>>

\* Each component's fairness, where its steps are taken.  One turn needs no strong
\* fairness of its poll, and of the goal's readers only b, the poll, must come
\* round; a, a hook, releases the lock.
At(component, A) == focus = component /\ A
BridgeFairness ==
  /\ WF_queueVars(At("queue", \E g \in flushes : Q!Flush(g)))
  /\ WF_queueVars(At("queue", Q!Take)) /\ WF_queueVars(At("queue", Q!SendPayload))
  /\ WF_queueVars(At("queue", Q!PushUpdate)) /\ WF_queueVars(At("queue", Q!Completed))
  /\ WF_queueVars(At("queue", Q!ParentEvent(a)))
  /\ \A th \in {a, Poller} : WF_turnVars(At("turns", T!Sign(th))) /\ WF_turnVars(At("turns", T!Send(th)))
  /\ WF_turnVars(At("turns", T!PollTurn(a)))
  /\ SF_goalVars(At("goals", S!Read(b)))
  /\ SF_goalVars(At("goals", \E force \in BOOLEAN : S!Stamp(b, TRUE, force)))
  /\ WF_goalVars(At("goals", \E publishes, force \in BOOLEAN : S!Stamp(a, publishes, force)))
  /\ WF_goalVars(At("goals", S!Interval)) /\ WF_goalVars(At("goals", \E s \in carried : S!Deliver(s)))
AdapterFairness ==
  /\ WF_lifecycleVars(At("lifecycle", L!CallStep)) /\ WF_lifecycleVars(At("lifecycle", L!StarterStep))
  /\ \A r \in 1..3 : WF_lifecycleVars(At("lifecycle", L!RuntimeStep(r)))
NativeFairness ==
  /\ WF_nativeVars(At("repeated", N!Tick)) /\ WF_nativeVars(At("different", O!Tick))
  /\ \A e \in {1, 2} : WF_nativeVars(At("repeated", N!Wakes(e)))
  /\ \A e \in {1, 3} : WF_nativeVars(At("different", O!Wakes(e)))
Runs == Begins /\ [][Step]_allVars /\ BridgeFairness /\ AdapterFairness /\ NativeFairness

-----------------------------------------------------------------------------
\* The properties include the types of the components' variables.

\* The activity bridge: what waits in the queue has a flush coming and none of it vanishes,
\* a turn has one outcome, a later stamp was read later, and usage and replies of handed
\* over work go to the chat they belong to.
LaneKept ==
  /\ Q!QueueTypeOK /\ Q!FlushComing /\ Q!NothingVanishes
  /\ T!TurnTypeOK /\ T!OneOutcome
  /\ S!RouteTypeOK /\ S!UsageOfTheChat /\ S!ReturnedOnce
  /\ S!GoalTypeOK /\ S!StampedAsRead

\* The activity bridge: Live Activities end, and phones come to show the context window and
\* the goal that Hermes has (LiveActivityEnds, WindowShown and GoalHeals: as the focus never
\* changes, one formula says all three); a route that was replaced is not taken back.
LaneHeals ==
  /\ S!NotTakenBack
  /\ (At("queue", Q!EndIsDue) \/ At("turns", a \in active) \/ At("goals", joined)) ~>
       \/ At("queue", Q!EndIsTold \/ ~Q!EndIsDue)
       \/ At("turns", shown[a].seen = version \/ a \notin active \/ a \in missed)
       \/ At("goals", phone.version = goal \/ ~joined)

\* AdapterLifecycle: no runtime is left behind on its port, a disconnected adapter does
\* nothing, phones read what the adapter writes, and every connect and disconnect returns.
AdapterKept ==
  /\ [](L!LifecycleTypeOK /\ L!NoneLeftListening /\ L!DisconnectedIsQuiet /\ L!ServesWhatIsPublished)
  /\ L!CallsReturn /\ L!RetiredCloses

\* NativeDeviceTools: every tool call that found a phone ends (each execution runs once, so
\* a moment comes when none is under way).
CallsEnd ==
  (\E e \in DOMAIN executions : executions[e].phase = "matched") ~>
    \A e \in DOMAIN executions : executions[e].phase \in {"idle", "done"}
================================================================================
