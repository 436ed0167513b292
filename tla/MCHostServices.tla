---------------------------- MODULE MCHostServices ----------------------------
(***************************************************************************)
(* What the host's service pushes and serves, one component at a time: a    *)
(* run's first state chooses whose steps it takes (focus), with its own     *)
(* bounds.  The components meet in LoopdyService and DirectServer but share *)
(* none of this state; the counter of settings serves whichever runs.       *)
(***************************************************************************)
EXTENDS DirectAuthority, EventDelivery, LiveActivityPush, SessionStreams, RoomActivity

CONSTANTS Senders, Admins, Providers, NoProvider, MaxSends, MaxLeaseChanges

VARIABLES
  focus,
  installed, identity, inflight, replaced, signals, closing, sender, admin, sends, broken

G == INSTANCE ProviderLeases WITH
       MaxChanges <- MaxLeaseChanges, changes <- settings, retired <- replaced, events <- signals

alertVars == <<device, event, row, queue, thread, approval, now, enqueues, crashes, rounds, accepted>>
leaseVars == <<installed, identity, inflight, replaced, signals, closing, sender, admin, sends, broken>>
pushedVars == <<settings, alertVars, pushVars, leaseVars>>
servedVars == <<streamVars, roomVars, authorityVars>>
allVars == <<focus, pushedVars, servedVars>>

ASSUME /\ DeliveryAssumption /\ PushAssumption /\ G!LeaseAssumption
       /\ StreamAssumption /\ RoomAssumption /\ AuthorityAssumption

Start ==
  /\ focus \in {"alerts", "approvals", "activities", "leases", "sessions", "rooms", "authority"}
  /\ DeliveryInit /\ PushInit /\ G!LeasesInit /\ StreamsInit /\ RoomInit /\ AuthorityInit
  /\ focus \in {"alerts", "approvals"} \/ \A d \in Devices : device[d].provider = "direct"

Pushing(component) ==
  \/ component = "alerts" /\ DeliveryNext /\ UNCHANGED <<approval, now, pushVars, leaseVars>>
  \/ component = "approvals" /\ DeliveryNext /\ UNCHANGED <<enqueues, pushVars, leaseVars>>
  \/ component = "activities" /\ PushNext /\ UNCHANGED <<settings, alertVars, leaseVars>>
  \/ component = "leases" /\ G!LeasesNext /\ UNCHANGED <<alertVars, pushVars>>
Serving(component) ==
  \/ component = "sessions" /\ StreamsNext /\ UNCHANGED <<roomVars, authorityVars>>
  \/ component = "rooms" /\ RoomNext /\ UNCHANGED <<streamVars, authorityVars>>
  \/ component = "authority" /\ AuthorityNext /\ UNCHANGED <<streamVars, roomVars>>
Step ==
  /\ UNCHANGED focus
  /\ \/ Pushing(focus) /\ UNCHANGED servedVars
     \/ Serving(focus) /\ UNCHANGED pushedVars
Runs == Start /\ [][Step]_allVars /\ G!Fairness

-----------------------------------------------------------------------------
\* The properties include the types of the components' variables; those of DirectAuthority
\* are proved.  WithdrawnStaysOut is checked as that module states it.

\* EventDelivery and LiveActivityPush: a device is alerted to an event at most once, and
\* Hermes is told what the dashboard chose; nothing is pushed after a registration's end,
\* and nothing but its own end ends it.
PushesKept ==
  /\ DeliveryTypeOK /\ AlertedOnce /\ AnsweredAsChosen
  /\ PushTypeOK /\ NothingAfterTheEnd /\ EndedForItself

\* ProviderLeases: a provider is closed once and unused, and whoever retires it gets through.
RetirementsEnd == [](G!LeasesTypeOK /\ G!ClosedOnceUnused) /\ G!RetirementEnds

\* SessionStreams: a subscription that has something to send is awake or will be, and a
\* view that has caught up shows what the host has.  Like RoomActivity, it implements
\* the ordered feed: each reader gets a prefix of what was published to it, without
\* holes, until its feed ends.
FeedsConverge ==
  [](StreamsTypeOK /\ RoomTypeOK /\ NoLostWakeUp /\ ViewsConverge) /\ ImplementsFeed /\ ImplementsRoomFeed
===============================================================================
