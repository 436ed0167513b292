----------------------------- MODULE MCDeviceLinks -----------------------------
(***************************************************************************)
(* The ways a running turn reaches the phone, one component at a time: a    *)
(* run's first state chooses whose steps it takes (focus).  The components  *)
(* meet in the adapter and share none of the state below.                   *)
(***************************************************************************)
EXTENDS DeviceToolBridge, TurnReplies, TLC

CONSTANTS e1, e2, e3, t1, t2, d1, NoProc, NoChannel

\* e1 and e2 execute one request over the Link, e3 another over a direct connection.
Asked  == [e \in Calls |-> IF e = e3 THEN t2 ELSE t1]
Alike  == [e \in Calls |-> 1]
Routes == [t \in Requests |-> IF t = t2 THEN d1 ELSE Link]

CONSTANTS c1, c2, x1, x2, x3, k1, k2, s1, m1, m2, Procs

\* TurnReplies: two messages of one session.
OneSession == [m \in {m1, m2} |-> s1]

Symmetry == Permutations({c1, c2}) \cup Permutations({x1, x2})

VARIABLES
  focus,
  \* NativeDeviceTools
  clock, channels, requests, executions, phone,
  \* LinkTransport
  outbound, unacked, failed, received, link, call, pressed, retry, queue, dispatch, rejections,
  caps, socketUp, down, socketEnd, stray, relay, receipted, cursor, posted, sockets, crashes, taken,
  reported, handled

\* One session, two phones in turn, two executions that repeat one tool call; and one phone
\* with a queue of one, three executions of two calls, that may be cancelled, and loops that
\* lag.
N == INSTANCE NativeDeviceTools WITH
       Channels <- {c1, c2}, Sessions <- {s1}, Calls <- {k1, k2}, Executions <- {x1, x2},
       SessionOf <- [o \in {c1, c2, x1, x2} |-> s1], CallOf <- [o \in {x1, x2} |-> k1],
       WorkOf <- [o \in {x1, x2} |-> "w"], LeaseSeconds <- 2, MaxChannels <- 2, MaxQueue <- 2,
       MaxCompleted <- 2, MaxPollItems <- 1, Cancels <- FALSE, LoopLags <- FALSE, MaxTime <- 2,
       now <- clock, calls <- executions
E == INSTANCE NativeDeviceTools WITH
       Channels <- {c1}, Sessions <- {s1}, Calls <- {k1, k2}, Executions <- {x1, x2, x3},
       SessionOf <- [o \in {c1, x1, x2, x3} |-> s1],
       CallOf <- [o \in {x1, x2, x3} |-> IF o = x3 THEN k2 ELSE k1],
       WorkOf <- [o \in {x1, x2, x3} |-> "w"], LeaseSeconds <- 2, MaxChannels <- 1, MaxQueue <- 1,
       MaxCompleted <- 1, MaxPollItems <- 1, Cancels <- TRUE, LoopLags <- TRUE, MaxTime <- 1,
       now <- clock, calls <- executions

\* Two sends over three sockets; and one send, of frames the phone may not take, with
\* a crash.
L == INSTANCE LinkTransport WITH
       Classes <- {"plain"}, MaxSends <- 2, MaxSockets <- 3, MaxCrashes <- 0, MaxWire <- 1,
       KindOf <- <<"ready", "rejected", "turn">>, LateReads <- FALSE, Rejections <- 1,
       pending <- unacked, sent <- posted, broken <- socketEnd, told <- reported, up <- socketUp, delivered <- taken
K == INSTANCE LinkTransport WITH
       Classes <- {"plain", "presentation"}, MaxSends <- 1, MaxSockets <- 2, MaxCrashes <- 1,
       MaxWire <- 1, KindOf <- <<"ready", "rejected", "turn">>, LateReads <- FALSE,
       Rejections <- 1, pending <- unacked, sent <- posted, broken <- socketEnd, told <- reported, up <- socketUp,
       delivered <- taken

nativeVars == <<clock, channels, requests, executions, phone>>
linkVars == <<outbound, unacked, failed, received, link, call, pressed, retry, queue, dispatch,
  rejections, caps, socketUp, down, socketEnd, stray, relay, receipted, cursor, posted, sockets, crashes,
  taken, reported, handled>>
allVars == <<focus, vars, nativeVars, linkVars, replyVars>>

ASSUME LinksAssumption ==
  /\ N!HubAssumption /\ E!HubAssumption /\ L!LinkAssumption /\ K!LinkAssumption /\ TurnRepliesAssumption

-----------------------------------------------------------------------------
Begins ==
  /\ focus \in {"native", "overflow", "link", "refusals", "tools", "replies"}
  /\ Init /\ RepliesInit
  /\ IF focus = "overflow" THEN E!Init ELSE N!Init
  /\ IF focus = "refusals" THEN K!Init ELSE L!Init

Step ==
  \/ focus = "native" /\ N!Next /\ UNCHANGED <<focus, vars, linkVars, replyVars>>
  \/ focus = "overflow" /\ E!Next /\ UNCHANGED <<focus, vars, linkVars, replyVars>>
  \/ focus = "link" /\ L!Next /\ UNCHANGED <<focus, vars, nativeVars, replyVars>>
  \/ focus = "refusals" /\ K!Next /\ UNCHANGED <<focus, vars, nativeVars, replyVars>>
  \/ focus = "tools" /\ Next /\ UNCHANGED <<focus, nativeVars, linkVars, replyVars>>
  \/ focus = "replies" /\ RepliesNext /\ UNCHANGED <<focus, vars, nativeVars, linkVars>>
Behaviours == Begins /\ [][Step]_allVars

-----------------------------------------------------------------------------
\* The properties of the instances include the types of their variables; MutationSentOnce
\* and RepliesToTheAsker are checked as their modules state them.

\* NativeDeviceTools: what a phone's accepted result says reaches the turn, and no call is
\* given to a phone again after it was settled; however long the queue grows and whatever
\* answer is lost, the phone sees the sequence without a hole.
ResultsKept ==
  IF focus = "overflow" THEN E!TypeOK /\ E!FeedHasNoHoles
  ELSE N!TypeOK /\ N!AcceptedIsDelivered /\ N!NotReplayed /\ N!FeedHasNoHoles
\* LinkTransport: the relay takes a payload once, whatever is sent again; a sender told
\* "accepted" is right; and no frame of the phone is passed over.
FramesKept ==
  IF focus = "refusals"
  THEN K!TypeOK /\ K!DeliveredAtMostOnce /\ K!AcceptedIsDelivered /\ K!NothingPassedOver
  ELSE L!TypeOK /\ L!DeliveredAtMostOnce /\ L!AcceptedIsDelivered /\ L!NothingPassedOver
===============================================================================
