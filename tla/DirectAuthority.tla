--------------------------- MODULE DirectAuthority ---------------------------
(***************************************************************************)
(* Who may use the direct connection: DirectConnectionAuthority of         *)
(* loopdy_plugin/direct_connection.py under DirectRuntime of               *)
(* direct_runtime.py, with the handshake and the watchdog of DirectServer  *)
(* (direct_server.py).  Phones enroll through Link at an authorization     *)
(* epoch; the account service lists which devices are active; the host     *)
(* remembers every withdrawal it was told of, durably, and serves nobody   *)
(* once its copy of the list is too old.                                   *)
(*                                                                         *)
(* Keys, signatures and nonces are taken as perfect: a proof is given by   *)
(* the device it names.                                                    *)
(***************************************************************************)
EXTENDS Naturals, FiniteSets

CONSTANTS
  Phones, Host, MaxEpoch,
  Conns,             \* sockets of the listener
  PerPeer,           \* _MAX_AUTHENTICATED_PER_PEER
  Lifetime,          \* _LIFECYCLE_TTL, in ticks
  MaxChanges, MaxRestarts, MaxCommands    \* bounds of the model

AuthorityAssumption ==
  /\ Host \notin Phones
  /\ MaxEpoch \in Nat \ {0} /\ PerPeer \in Nat /\ Lifetime \in Nat
  /\ MaxChanges \in Nat /\ MaxRestarts \in Nat /\ MaxCommands \in Nat

VARIABLES
  registry,   \* what the account service knows of each device (external)
  past,       \* catalogs it may still answer with (external)
  fetched,    \* the catalog a refresh has got and not yet installed, if any
  bindings,   \* enrolled epoch of each phone (durable), 0: none
  denied,     \* _denied_through
  stored,     \* _denied_through as persisted (durable)
  dirty,      \* _fences_dirty
  devices,    \* _lifecycle_devices
  fresh,      \* ticks left of the authority's and of the runtime's copy
  retired,    \* DirectRuntime._retired
  conn,       \* sockets: phase and claimed peer
  changes, restarts,
  known,      \* history: withdrawals this host was told of
  commands    \* history: commands admitted, by peer

authorityVars == <<registry, past, fetched, bindings, denied, stored, dirty, devices, fresh,
                   retired, conn, changes, restarts, known, commands>>

-----------------------------------------------------------------------------
Members == Phones \cup {Host}
Epochs == 1 .. MaxEpoch
Listing == [active : BOOLEAN, epoch : Epochs]
Unlisted == [active |-> FALSE, epoch |-> 1]
Peers == Phones \X Epochs
Closed == [phase |-> "closed", phone |-> Host, epoch |-> 1]
Larger(a, b) == IF a > b THEN a ELSE b

ActiveAt(d, e) == devices[d].active /\ devices[d].epoch = e
HostServes ==
  /\ ~retired /\ fresh.runtime > 0 /\ fresh.authority > 0
  /\ denied[Host] = 0 /\ ActiveAt(Host, 1)

(* _require_current_peer                                                    *)
CurrentPeer(d, e) ==
  /\ HostServes
  /\ e > denied[d] /\ ActiveAt(d, e) /\ bindings[d] = e

-----------------------------------------------------------------------------
(* What a catalog withdraws from a device the host knows at an epoch.       *)
KnownEpoch(d) == IF d = Host THEN 1 ELSE bindings[d]

Floor(catalog, d) ==
  IF KnownEpoch(d) = 0 THEN denied[d]
  ELSE LET told == IF ~catalog[d].active THEN Larger(KnownEpoch(d), catalog[d].epoch)
                   ELSE IF catalog[d].epoch > KnownEpoch(d) THEN catalog[d].epoch - 1
                   ELSE denied[d]
       IN Larger(told, denied[d])

Floors(catalog) == [d \in Members |-> Floor(catalog, d)]

RollsBack(catalog, floors) ==
  \E d \in Members : KnownEpoch(d) # 0 /\ catalog[d].active /\ catalog[d].epoch <= floors[d]

Fetch(catalog) ==
  /\ fetched = {} /\ ~retired
  /\ catalog \in past \cup {registry}
  /\ fetched' = {catalog}
  /\ UNCHANGED <<registry, past, bindings, denied, stored, dirty, devices, fresh, retired,
                 conn, changes, restarts, known, commands>>

(* The service refuses the host itself: the runtime retires.                *)
FetchRefused ==
  /\ fetched = {} /\ ~retired /\ ~registry[Host].active
  /\ retired' = TRUE /\ fresh' = [fresh EXCEPT !.runtime = 0]
  /\ UNCHANGED <<registry, past, fetched, bindings, denied, stored, dirty, devices, conn,
                 changes, restarts, known, commands>>

Learnt(floors) ==
  known' = known \cup {p \in Peers : p[2] <= floors[p[1]]}

\* Mutant: the denial is published once it is persisted.
PublishLate(floors) == denied' = denied /\ dirty' = dirty

(* Denial is published in memory before it is persisted.                    *)
Publish(floors) ==
  /\ denied' = floors
  /\ dirty' = (dirty \/ floors # denied)

(* _refresh_lifecycle_catalog when the fences cannot be persisted: the host *)
(* stops serving at once, and remembers that it owes the write.             *)
InstallFails ==
  /\ fetched' = {}
  /\ \E catalog \in fetched : LET floors == Floors(catalog) IN
     /\ dirty \/ floors # denied
     /\ Publish(floors) /\ Learnt(floors)
  /\ fresh' = [authority |-> 0, runtime |-> 0]
  /\ UNCHANGED <<registry, past, bindings, stored, devices, retired, conn, changes, restarts,
                 commands>>

(* ... and when they can.  A catalog that takes back a withdrawal is        *)
(* refused after the fences are safe.                                       *)
Install ==
  /\ ~retired /\ fetched' = {}
  /\ \E catalog \in fetched :
       LET floors == Floors(catalog) IN
       /\ denied' = floors /\ Learnt(floors)
       /\ stored' = IF dirty \/ floors # denied THEN floors ELSE stored
       /\ dirty' = FALSE
       /\ IF RollsBack(catalog, floors)
          THEN /\ fresh' = [authority |-> 0, runtime |-> 0]
               /\ UNCHANGED <<devices, retired>>
          ELSE /\ devices' = catalog
               /\ retired' = ~(catalog[Host].active /\ catalog[Host].epoch = 1)
               /\ fresh' = [authority |-> Lifetime,
                            runtime |-> IF retired' THEN 0 ELSE Lifetime]
  /\ UNCHANGED <<registry, past, bindings, conn, changes, restarts, commands>>

(* The owner, the settings or the configuration revision changed.           *)
RetireRuntime ==
  /\ ~retired /\ retired' = TRUE
  /\ UNCHANGED <<registry, past, fetched, bindings, denied, stored, dirty, devices, fresh,
                 conn, changes, restarts, known, commands>>

-----------------------------------------------------------------------------
(* enroll refreshes first; the binding is persisted, then published.  The   *)
(* sender of the Link frame is the phone, at the epoch it was authorized.   *)
Enroll(d, e) ==
  /\ fetched = {} /\ HostServes
  /\ ActiveAt(d, e) /\ e > denied[d] /\ e > bindings[d]
  /\ bindings' = [bindings EXCEPT ![d] = e]
  /\ UNCHANGED <<registry, past, fetched, denied, stored, dirty, devices, fresh, retired,
                 conn, changes, restarts, known, commands>>

-----------------------------------------------------------------------------
(* direct.hello, direct.challenge                                           *)
Challenge(c, d, e) ==
  /\ conn[c].phase = "closed" /\ CurrentPeer(d, e)
  /\ conn' = [conn EXCEPT ![c] = [phase |-> "challenged", phone |-> d, epoch |-> e]]
  /\ UNCHANGED <<registry, past, fetched, bindings, denied, stored, dirty, devices, fresh,
                 retired, changes, restarts, known, commands>>

Authenticated(d, e) ==
  {c \in Conns : conn[c].phase = "ready" /\ conn[c].phone = d /\ conn[c].epoch = e}

(* direct.proof: the peer is checked again when its proof arrives.          *)
Prove(c) ==
  LET d == conn[c].phone  e == conn[c].epoch IN
  /\ conn[c].phase = "challenged" /\ CurrentPeer(d, e)
  /\ Cardinality(Authenticated(d, e)) < PerPeer
  /\ conn' = [conn EXCEPT ![c].phase = "ready"]
  /\ UNCHANGED <<registry, past, fetched, bindings, denied, stored, dirty, devices, fresh,
                 retired, changes, restarts, known, commands>>

(* _require_peer: the peer is validated again for every message.            *)
Admissible(d, e) == CurrentPeer(d, e)

Command(c) ==
  LET d == conn[c].phone  e == conn[c].epoch IN
  /\ conn[c].phase = "ready" /\ Admissible(d, e)
  /\ commands[<<d, e>>] < MaxCommands
  /\ commands' = [commands EXCEPT ![<<d, e>>] = @ + 1]
  /\ UNCHANGED <<registry, past, fetched, bindings, denied, stored, dirty, devices, fresh,
                 retired, conn, changes, restarts, known>>

(* The watchdog closes a socket whose peer is no longer current, a retired  *)
(* runtime closes all of them, a handshake times out, a phone hangs up.     *)
HangUp(c) ==
  /\ conn[c].phase # "closed"
  /\ conn' = [conn EXCEPT ![c] = Closed]
  /\ UNCHANGED <<registry, past, fetched, bindings, denied, stored, dirty, devices, fresh,
                 retired, changes, restarts, known, commands>>

-----------------------------------------------------------------------------
(* The account service revokes a device, or authorizes it at a new epoch.   *)
Change(d, row) ==
  /\ changes < MaxChanges /\ changes' = changes + 1
  /\ IF row.active THEN row.epoch > registry[d].epoch
     ELSE registry[d].active /\ row.epoch = registry[d].epoch
  /\ past' = past \cup {registry}
  /\ registry' = [registry EXCEPT ![d] = row]
  /\ UNCHANGED <<fetched, bindings, denied, stored, dirty, devices, fresh, retired, conn,
                 restarts, known, commands>>

Age ==
  /\ fresh.authority > 0
  /\ fresh' = [authority |-> fresh.authority - 1,
               runtime |-> IF fresh.runtime > 0 THEN fresh.runtime - 1 ELSE 0]
  /\ UNCHANGED <<registry, past, fetched, bindings, denied, stored, dirty, devices, retired,
                 conn, changes, restarts, known, commands>>

(* A new runtime of the adapter, or of a new process: it loads what was     *)
(* persisted and serves nobody before its first refresh.                    *)
Restart ==
  /\ restarts < MaxRestarts /\ restarts' = restarts + 1
  /\ denied' = stored /\ dirty' = FALSE
  /\ devices' = [d \in Members |-> Unlisted]
  /\ fresh' = [authority |-> 0, runtime |-> 0]
  /\ retired' = FALSE /\ fetched' = {}
  /\ conn' = [c \in Conns |-> Closed]
  /\ known' = {p \in known : p[2] <= stored[p[1]]}
  /\ UNCHANGED <<registry, past, bindings, stored, changes, commands>>

-----------------------------------------------------------------------------
AuthorityInit ==
  /\ registry = [d \in Members |-> [active |-> TRUE, epoch |-> 1]]
  /\ past = {} /\ fetched = {}
  /\ bindings = [d \in Phones |-> 0]
  /\ denied = [d \in Members |-> 0] /\ stored = [d \in Members |-> 0] /\ dirty = FALSE
  /\ devices = [d \in Members |-> Unlisted]
  /\ fresh = [authority |-> 0, runtime |-> 0]
  /\ retired = FALSE /\ conn = [c \in Conns |-> Closed]
  /\ changes = 0 /\ restarts = 0 /\ known = {} /\ commands = [p \in Peers |-> 0]

RefreshStep ==
  \/ \E catalog \in past \cup {registry} : Fetch(catalog)
  \/ FetchRefused \/ Install \/ InstallFails \/ RetireRuntime \/ Age \/ Restart

PeerStep ==
  \/ \E d \in Phones, e \in Epochs : Enroll(d, e) \/ \E c \in Conns : Challenge(c, d, e)
  \/ \E c \in Conns : Prove(c) \/ Command(c) \/ HangUp(c)

AuthorityNext ==
  \/ RefreshStep
  \/ PeerStep
  \/ \E d \in Members, row \in Listing : Change(d, row)

AuthoritySpec == AuthorityInit /\ [][AuthorityNext]_authorityVars

-----------------------------------------------------------------------------
(* Type invariant. *)
AuthorityTypeOK ==
  /\ registry \in [Members -> Listing] /\ past \subseteq [Members -> Listing]
  /\ fetched \subseteq [Members -> Listing] /\ Cardinality(fetched) <= 1
  /\ bindings \in [Phones -> 0 .. MaxEpoch]
  /\ denied \in [Members -> 0 .. MaxEpoch] /\ stored \in [Members -> 0 .. MaxEpoch]
  /\ dirty \in BOOLEAN
  /\ devices \in [Members -> Listing]
  /\ fresh \in [authority : 0 .. Lifetime, runtime : 0 .. Lifetime]
  /\ retired \in BOOLEAN
  /\ conn \in [Conns -> [phase : {"closed", "challenged", "ready"}, phone : Members,
                         epoch : Epochs]]
  /\ changes \in 0 .. MaxChanges /\ restarts \in 0 .. MaxRestarts
  /\ known \subseteq Peers /\ commands \in [Peers -> 0 .. MaxCommands]

(* A phone the host was told is withdrawn commands nothing any more at that *)
(* epoch: not over the socket it has open, not when the withdrawal could    *)
(* not be persisted, not when the service answers with an older catalog,    *)
(* and, once it was persisted, not after a restart.                         *)
WithdrawnStaysOut ==
  [][\A p \in known : commands'[p] = commands[p]]_authorityVars
================================================================================
