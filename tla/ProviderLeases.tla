----------------------------- MODULE ProviderLeases -----------------------------
(***************************************************************************)
(* The push providers of LoopdyService (service.py): a send holds a lease   *)
(* of the provider it uses; a change of mode or the end of the service      *)
(* retires a provider, waits for its leases and closes it once.  An object  *)
(* that was closed may come back as another provider with the same id.      *)
(*                                                                          *)
(* Threads run in parallel; what happens under _provider_lock is one        *)
(* action.                                                                  *)
(***************************************************************************)
EXTENDS Integers, FiniteSets

CONSTANTS
  Senders, Admins,     \* threads that send, and threads that change the mode
  Providers, NoProvider,   \* identities of provider objects
  MaxSends, MaxChanges     \* bounds of the model

LeaseAssumption ==
  /\ NoProvider \notin Providers /\ Senders \cap Admins = {} /\ IsFiniteSet(Senders)
  /\ {MaxSends, MaxChanges} \subseteq Nat

VARIABLES
  installed,     \* _providers["direct"]
  identity,      \* _provider_identity: the objects the bookkeeping knows
  inflight,      \* _provider_inflight
  retired,       \* _provider_retired
  events,        \* _provider_close_events that are not set yet
  closing,       \* _provider_closed
  sender,        \* the provider of a sender's lease
  admin,         \* what a thread that retires a provider waits for
  sends, changes,
  broken         \* history: a provider was closed under a lease, or twice

leaseVars == <<installed, identity, inflight, retired, events, closing, sender, admin, sends, changes, broken>>

Idle == [at |-> "idle", provider |-> NoProvider]

LeasesTypeOK ==
  /\ installed \in Providers \cup {NoProvider}
  /\ identity \subseteq Providers /\ retired \subseteq Providers
  /\ events \subseteq Providers /\ closing \subseteq Providers
  /\ inflight \in [Providers -> 0..Cardinality(Senders)]
  /\ sender \in [Senders -> Providers \cup {NoProvider}]
  /\ admin \in [Admins \cup Senders -> [at: {"idle", "retire", "wait", "close", "shut"},
                                        provider: Providers \cup {NoProvider}]]

LeasesInit ==
  /\ installed = NoProvider /\ identity = {}
  /\ inflight = [p \in Providers |-> 0]
  /\ retired = {} /\ events = {} /\ closing = {}
  /\ sender = [s \in Senders |-> NoProvider]
  /\ admin = [a \in Admins \cup Senders |-> Idle]
  /\ sends = 0 /\ changes = 0 /\ broken = FALSE

Installable == Providers \ identity     \* what Python may allocate: no object it still has

-----------------------------------------------------------------------------
\* _provider: the configured provider is made when it is first asked for.
Make(p) ==
  /\ installed = NoProvider /\ p \in Installable /\ changes < MaxChanges
  /\ changes' = changes + 1
  /\ installed' = p /\ identity' = identity \cup {p}
  /\ inflight' = [inflight EXCEPT ![p] = 0]
  /\ retired' = retired \ {p} /\ events' = events \ {p} /\ closing' = closing \ {p}
  /\ UNCHANGED <<sender, admin, sends, broken>>

\* _provider_lease and _provider_lease_for
MayLease(p) == p # NoProvider /\ p \in identity /\ p \notin closing /\ p \notin retired
Lease(s) ==
  /\ sender[s] = NoProvider /\ admin[s] = Idle /\ sends < MaxSends
  /\ MayLease(installed)
  /\ sends' = sends + 1
  /\ inflight' = [inflight EXCEPT ![installed] = @ + 1]
  /\ sender' = [sender EXCEPT ![s] = installed]
  /\ UNCHANGED <<installed, identity, retired, events, closing, admin, changes, broken>>

LastMiscounted(p) == inflight[p] < 1     \* an off-by-one
Last(p) == inflight[p] <= 1
\* _release_provider: the last lease wakes whoever waits, or closes a provider that
\* was retired and that nobody waits for.
Release(s) ==
  /\ sender[s] # NoProvider
  /\ LET p == sender[s]
         last == Last(p)
     IN /\ inflight' = [inflight EXCEPT ![p] = IF last THEN 0 ELSE @ - 1]
        /\ events' = IF last THEN events \ {p} ELSE events
        /\ admin' = IF last /\ p \notin events /\ p \in retired
                      THEN [admin EXCEPT ![s] = [at |-> "close", provider |-> p]] ELSE admin
  /\ sender' = [sender EXCEPT ![s] = NoProvider]
  /\ UNCHANGED <<installed, identity, retired, closing, sends, changes, broken>>

\* set_provider_mode, remove_relay_configuration and close take the provider out.
Replace(a, p) ==
  /\ admin[a] = Idle /\ installed # NoProvider /\ changes < MaxChanges
  /\ p = NoProvider \/ p \in Installable
  /\ changes' = changes + 1
  /\ installed' = p
  /\ identity' = IF p = NoProvider THEN identity ELSE identity \cup {p}
  /\ inflight' = IF p = NoProvider THEN inflight ELSE [inflight EXCEPT ![p] = 0]
  /\ retired' = retired \ {p} /\ events' = events \ {p} /\ closing' = closing \ {p}
  /\ admin' = [admin EXCEPT ![a] = [at |-> "retire", provider |-> installed]]
  /\ UNCHANGED <<sender, sends, broken>>

MustWait(p) == inflight[p] > 0
\* _retire_provider, under its lock: the provider leases no more.
Retire(a) ==
  /\ admin[a].at = "retire"
  /\ LET p == admin[a].provider
     IN IF p \notin identity \/ p \in closing \/ p \in retired
          THEN admin' = [admin EXCEPT ![a] = Idle] /\ UNCHANGED <<retired, events>>
          ELSE /\ retired' = retired \cup {p}
               /\ events' = IF MustWait(p) THEN events \cup {p} ELSE events
               /\ admin' = [admin EXCEPT ![a].at = IF MustWait(p) THEN "wait" ELSE "close"]
  /\ UNCHANGED <<installed, identity, inflight, closing, sender, sends, changes, broken>>

Woken(a) ==
  /\ admin[a].at = "wait" /\ admin[a].provider \notin events
  /\ admin' = [admin EXCEPT ![a].at = "close"]
  /\ UNCHANGED <<installed, identity, inflight, retired, events, closing, sender, sends, changes, broken>>

\* _close_provider: one thread marks it, closes it outside the lock and forgets it.
Close(a) ==
  /\ admin[a].at = "close"
  /\ LET p == admin[a].provider
     IN IF p \notin identity \/ p \in closing
          THEN admin' = [admin EXCEPT ![a] = Idle] /\ UNCHANGED <<closing, broken>>
          ELSE /\ closing' = closing \cup {p}
               /\ broken' = (broken \/ \E s \in Senders : sender[s] = p)
               /\ admin' = [admin EXCEPT ![a].at = "shut"]
  /\ UNCHANGED <<installed, identity, inflight, retired, events, sender, sends, changes>>
Shut(a) ==
  /\ admin[a].at = "shut"
  /\ LET p == admin[a].provider
     IN /\ inflight' = [inflight EXCEPT ![p] = 0]
        /\ events' = events \ {p} /\ retired' = retired \ {p}
        /\ closing' = closing \ {p} /\ identity' = identity \ {p}
        /\ broken' = (broken \/ p \notin closing)
  /\ admin' = [admin EXCEPT ![a] = Idle]
  /\ UNCHANGED <<installed, sender, sends, changes>>

LeasesNext ==
  \/ \E p \in Providers : Make(p)
  \/ \E s \in Senders : Lease(s) \/ Release(s)
  \/ \E a \in Admins, p \in Providers \cup {NoProvider} : Replace(a, p)
  \/ \E a \in Admins \cup Senders : Retire(a) \/ Woken(a) \/ Close(a) \/ Shut(a)

\* Sends end, and threads run.
Fairness == /\ \A s \in Senders : WF_leaseVars(Release(s))
            /\ \A a \in Admins \cup Senders : WF_leaseVars(Retire(a) \/ Woken(a) \/ Close(a) \/ Shut(a))
LeasesSpec == LeasesInit /\ [][LeasesNext]_leaseVars /\ Fairness

-----------------------------------------------------------------------------
\* No provider is closed while a send holds it, and none is closed twice, by the
\* thread that retired it and by the last send (the comment in _release_provider).
ClosedOnceUnused == ~broken

\* Whoever retires a provider gets through: the last lease wakes it, however the
\* release and the retirement interleave.
RetirementEnds == \A a \in Admins : admin[a].at \in {"retire", "wait", "close"} ~> admin[a].at = "idle"
=============================================================================
