------------------------------ MODULE LiveCalls ------------------------------
(***************************************************************************)
(* LiveVoiceRuntime of loopdy_plugin/live_voice_runtime.py with the        *)
(* provider transport of live_voice_provider.py below it: one-use offers,  *)
(* the setup of a provider session, the results spoken into the call, and  *)
(* the many ways a call ends while something is being awaited.             *)
(*                                                                         *)
(* A request is one delegation item of the provider; requests with the     *)
(* same brief share a job, whose primary is the request that created it.   *)
(* What becomes of the job is in VoiceJobs; how the runtime decides that   *)
(* it is over, in the second part.                                         *)
(***************************************************************************)
EXTENDS Naturals, Sequences, FiniteSets

CONSTANTS
  Voices, Owners, OwnerOf,       \* voiceId, VoiceJobOwner, [Voices -> Owners]
  Requests, Briefs, VoiceOf, BriefOf, NoRequest,
  Sideband,      \* voices whose provider may speak once it is attached
  Capacity,      \* open calls
  MaxClaims,     \* rows of the offers table
  Workers,       \* flushes that may run at a time
  MaxLosses      \* bound: owners, routes and processes lost

LiveCallsAssumption ==
  /\ OwnerOf \in [Voices -> Owners] /\ VoiceOf \in [Requests -> Voices]
  /\ BriefOf \in [Requests -> Briefs] /\ NoRequest \notin Requests
  /\ Sideband \subseteq Voices
  /\ {Capacity, MaxClaims, MaxLosses} \subseteq Nat

VARIABLES
  current,   \* owners for which _current holds
  routed,    \* voices whose original reply route is still current
  claimed,   \* rows of the offers table (durable)
  call,      \* self.calls: "none", "open" or "closed"
  offer,     \* the offer request: "none", "waiting", "answered" or "refused"
  ready,     \* calls the provider may be spoken to
  provider,  \* state of the provider transport
  setup,     \* the task running provider.create
  cleanup,   \* call.close_task
  job,       \* the job a primary request stands for
  primary,   \* delegation_aliases
  results,   \* call.results, by primary request
  appended,  \* call.appended
  left,      \* by voice and worker: what its snapshot still holds
  sending,   \* by voice and worker: the append it awaits
  losses,
  allocated, \* history: how often a session was posted for
  over,      \* history: voices whose close was answered
  spoken     \* history: how often a result was handed to the provider

callVars == <<call, offer, ready, cleanup>>
workVars == <<job, primary, results, appended, left, sending, spoken>>
providerVars == <<provider, setup, allocated>>
liveVars == <<current, routed, claimed, callVars, providerVars, workVars, losses, over>>

-----------------------------------------------------------------------------
Open(v) == call[v] = "open"
Current(v) == OwnerOf[v] \in current
RequestsOf(v) == {r \in Requests : VoiceOf[r] = v}
CanAppend(v) == provider[v] = "started" \/ (provider[v] = "attached" /\ v \in Sideband)
Listening(v) == provider[v] \in {"attached", "started"}

(* _close: the call forgets everything and one cleanup task is started.     *)
CloseCall(v) ==
  /\ call' = [call EXCEPT ![v] = "closed"]
  /\ ready' = ready \ {v}
  /\ cleanup' = [cleanup EXCEPT ![v] = IF @ = "none" THEN "asked" ELSE @]

Forget(v) ==
  /\ results' = [results EXCEPT ![v] = {}]
  /\ primary' = [r \in Requests |-> IF VoiceOf[r] = v THEN NoRequest ELSE primary[r]]

Consume(v) == claimed' = claimed \cup {v}

-----------------------------------------------------------------------------
(* _scope succeeded for a request of the owner of v: it is authorized now.  *)
Scoped(v) == current' = current \cup {OwnerOf[v]}

Refused(v) ==
  \/ Cardinality({u \in Voices : Open(u)}) >= Capacity
  \/ \E u \in Voices : Open(u) /\ OwnerOf[u] = OwnerOf[v]
  \/ v \in claimed
  \/ Cardinality(claimed) >= MaxClaims

(* voice.live.offer: the claim is committed before the provider exists.     *)
Offer(v) ==
  /\ v \in routed /\ Scoped(v) /\ ~Refused(v)
  /\ claimed' = claimed \cup {v}
  /\ call' = [call EXCEPT ![v] = "open"]
  /\ offer' = [offer EXCEPT ![v] = "waiting"]
  /\ provider' = [provider EXCEPT ![v] = "new"]
  /\ setup' = [setup EXCEPT ![v] = "running"]
  /\ UNCHANGED <<routed, ready, cleanup, allocated, workVars, losses, over>>

(* The provider cannot be constructed: the claim stays, the call is closed. *)
FactoryFails(v) ==
  /\ v \in routed /\ Scoped(v) /\ ~Refused(v)
  /\ claimed' = claimed \cup {v}
  /\ offer' = [offer EXCEPT ![v] = "refused"]
  /\ CloseCall(v)
  /\ UNCHANGED <<routed, providerVars, workVars, losses, over>>

(* voice.live.close of a voice nobody offered yet, or a row already there.  *)
CloseUnknown(v) ==
  /\ Scoped(v) /\ v \notin claimed /\ Cardinality(claimed) < MaxClaims
  /\ Consume(v)
  /\ over' = over \cup {v}
  /\ UNCHANGED <<routed, callVars, providerVars, workVars, losses>>

CloseKnown(v) ==
  /\ Scoped(v) /\ Open(v)
  /\ CloseCall(v) /\ Forget(v)
  /\ UNCHANGED <<routed, claimed, offer, providerVars, job, appended, left, sending,
                 spoken, losses, over>>

(* The close request is answered when the cleanup task ends.                *)
CloseAnswered(v) ==
  /\ v \in claimed /\ call[v] \in {"none", "closed"} /\ v \notin over
  /\ (call[v] = "none" \/ cleanup[v] = "done")
  /\ over' = over \cup {v}
  /\ UNCHANGED <<current, routed, claimed, callVars, providerVars, workVars, losses>>

(* The offer resumes after shield(setup): what it knew may have changed.    *)
Resume(v) ==
  /\ offer[v] = "waiting" /\ setup[v] = "done"
  /\ v \in routed /\ Open(v) /\ Current(v)
  /\ offer' = [offer EXCEPT ![v] = "answered"]
  /\ UNCHANGED <<current, routed, claimed, call, ready, cleanup, providerVars, workVars,
                 losses, over>>

(* Setup failed, the request was cancelled, or the call ended meanwhile.    *)
GiveUp(v) ==
  /\ offer[v] = "waiting"
  /\ offer' = [offer EXCEPT ![v] = "refused"]
  /\ CloseCall(v) /\ Forget(v)
  /\ UNCHANGED <<current, routed, claimed, providerVars, job, appended, left, sending,
                 spoken, losses, over>>

-----------------------------------------------------------------------------
(* provider.create *)
Post(v) ==
  /\ setup[v] = "running" /\ provider[v] = "new"
  /\ provider' = [provider EXCEPT ![v] = "allocating"]
  /\ allocated' = [allocated EXCEPT ![v] = @ + 1]
  /\ UNCHANGED <<current, routed, claimed, callVars, setup, workVars, losses, over>>

Attach(v) ==
  /\ setup[v] = "running" /\ provider[v] = "allocating"
  /\ provider' = [provider EXCEPT ![v] = "attached"]
  /\ UNCHANGED <<current, routed, claimed, callVars, setup, allocated, workVars, losses, over>>

Created(v) ==
  /\ setup[v] = "running" /\ Listening(v)
  /\ setup' = [setup EXCEPT ![v] = "done"]
  /\ UNCHANGED <<current, routed, claimed, callVars, provider, allocated, workVars, losses, over>>

(* Any failure of create shuts the transport down before it is reported; a  *)
(* create that finds the transport used or closing is refused.              *)
CreateFails(v) ==
  /\ setup[v] = "running"
  /\ setup' = [setup EXCEPT ![v] = "failed"]
  /\ provider' = [provider EXCEPT ![v] = IF @ = "closed" THEN @ ELSE "closing"]
  /\ UNCHANGED <<current, routed, claimed, callVars, allocated, workVars, losses, over>>

(* The reader fails, the lease expires or the provider hangs up.            *)
ProviderEnds(v) ==
  /\ Listening(v)
  /\ provider' = [provider EXCEPT ![v] = "closing"]
  /\ UNCHANGED <<current, routed, claimed, callVars, setup, allocated, workVars, losses, over>>

ProviderClosed(v) ==
  /\ provider[v] = "closing"
  /\ provider' = [provider EXCEPT ![v] = "closed"]
  /\ UNCHANGED <<current, routed, claimed, callVars, setup, allocated, workVars, losses, over>>

\* Mutant: closing a provider leaves the task that sets it up alone.
ShutSocketOnly(v) ==
  /\ provider' = [provider EXCEPT ![v] = IF setup[v] = "running" \/ @ = "none"
                                           THEN @ ELSE "closing"]
  /\ UNCHANGED setup

(* provider.close: a setup that runs is cancelled and waited for.           *)
ShutProvider(v) ==
  /\ provider' = [provider EXCEPT ![v] = IF @ \in {"none", "closed"} THEN @ ELSE "closing"]
  /\ setup' = [setup EXCEPT ![v] = IF @ = "running" THEN "failed" ELSE @]

CloseProvider(v) ==
  /\ cleanup[v] = "asked"
  /\ ShutProvider(v)
  /\ cleanup' = [cleanup EXCEPT ![v] = "closing"]
  /\ UNCHANGED <<current, routed, claimed, call, offer, ready, allocated, workVars, losses, over>>

(* The cleanup task returns once the provider is closed.                    *)
CleanedUp(v) ==
  /\ cleanup[v] = "closing" /\ provider[v] \in {"none", "closed"}
  /\ cleanup' = [cleanup EXCEPT ![v] = "done"]
  /\ UNCHANGED <<current, routed, claimed, call, offer, ready, providerVars, workVars, losses, over>>

-----------------------------------------------------------------------------
(* _flush_results takes a snapshot: every result, under every alias of it.  *)
Snapshot(v, res, prim) == {r \in RequestsOf(v) : prim[r] \in res}
Idle(v) == {w \in Workers : left[v][w] = {} /\ sending[v][w] = NoRequest}

Flush(v, res, prim, isReady) ==
  \/ /\ isReady /\ Open(v) /\ Current(v)
     /\ \E w \in Idle(v) :
          left' = [left EXCEPT ![v] = [left[v] EXCEPT ![w] = Snapshot(v, res, prim)]]
  \/ /\ ~(isReady /\ Open(v) /\ Current(v))
     /\ left' = left

(* _provider_event: "started", and "sideband_attached" of the public API.   *)
Started(v) ==
  /\ provider[v] = "attached" /\ Open(v) /\ Current(v)
  /\ provider' = [provider EXCEPT ![v] = "started"]
  /\ ready' = ready \cup {v}
  /\ Flush(v, results[v], primary, TRUE)
  /\ UNCHANGED <<current, routed, claimed, call, offer, cleanup, setup, allocated, job, primary,
                 results, appended, sending, spoken, losses, over>>

SidebandAttached(v) ==
  /\ v \in Sideband \ ready /\ provider[v] = "attached" /\ Open(v) /\ Current(v)
  /\ ready' = ready \cup {v}
  /\ Flush(v, results[v], primary, TRUE)
  /\ UNCHANGED <<current, routed, claimed, call, offer, cleanup, providerVars, job, primary,
                 results, appended, sending, spoken, losses, over>>

(* A request joins the live job of the same brief, else it starts its own.  *)
Joinable(r) ==
  {p \in RequestsOf(VoiceOf[r]) :
     primary[p] = p /\ job[p] = "live" /\ BriefOf[p] = BriefOf[r]}

Joined(r) ==
  IF primary[r] # NoRequest THEN primary[r]
  ELSE IF Joinable(r) # {} THEN CHOOSE p \in Joinable(r) : TRUE
  ELSE r

Delegation(r) ==
  LET v == VoiceOf[r]
      p == Joined(r)
      now == IF job[p] = "none" THEN "live" ELSE job[p]
  IN /\ Listening(v) /\ Open(v) /\ Current(v) /\ v \in routed
     /\ job' = [job EXCEPT ![p] = now]
     /\ primary' = [primary EXCEPT ![r] = p]
     /\ results' = [results EXCEPT ![v] = IF now = "ended" THEN @ \cup {p} ELSE @]
     /\ IF now = "ended" THEN Flush(v, results'[v], primary', v \in ready) ELSE left' = left
     /\ UNCHANGED <<current, routed, claimed, callVars, providerVars, appended, sending,
                    spoken, losses, over>>

(* The job of r ends or comes in doubt; the end is published into the call. *)
JobEnds(r) ==
  LET v == VoiceOf[r] IN
  /\ job[r] = "live"
  /\ job' = [job EXCEPT ![r] = "ended"]
  /\ IF Open(v) /\ Current(v)
     THEN /\ results' = [results EXCEPT ![v] = @ \cup {r}]
          /\ Flush(v, results[v] \cup {r}, primary, v \in ready)
     ELSE UNCHANGED <<results, left>>
  /\ UNCHANGED <<current, routed, claimed, callVars, providerVars, primary, appended, sending,
                 spoken, losses, over>>

JobInDoubt(r) ==
  /\ job[r] = "live" /\ job' = [job EXCEPT ![r] = "doubt"]
  /\ UNCHANGED <<current, routed, claimed, callVars, providerVars, primary, results, appended,
                 left, sending, spoken, losses, over>>

-----------------------------------------------------------------------------

(* The key is added before the await: an uncertain send is never replayed.  *)
Mark(v, r) == appended' = appended \cup {r}

AppendResult(v, w, r) ==
  /\ sending[v][w] = NoRequest /\ r \in left[v][w] \ appended
  /\ v \in routed /\ CanAppend(v)
  /\ Mark(v, r)
  /\ sending' = [sending EXCEPT ![v] = [sending[v] EXCEPT ![w] = r]]
  /\ left' = [left EXCEPT ![v] = [left[v] EXCEPT ![w] = @ \ {r}]]
  /\ spoken' = [spoken EXCEPT ![r] = @ + 1]
  /\ UNCHANGED <<current, routed, claimed, callVars, providerVars, job, primary, results,
                 losses, over>>

(* The provider took the frames; the key is (already) in appended.          *)
Taken(v, w) ==
  /\ sending[v][w] # NoRequest /\ Listening(v)
  /\ sending' = [sending EXCEPT ![v] = [sending[v] EXCEPT ![w] = NoRequest]]
  /\ appended' = appended \cup {sending[v][w]}
  /\ UNCHANGED <<current, routed, claimed, callVars, providerVars, job, primary, results,
                 left, spoken, losses, over>>

(* A send that fails, or that finds its route or provider gone, closes.     *)
FlushFails(v, w) ==
  /\ \/ sending[v][w] # NoRequest
     \/ left[v][w] \ appended # {} /\ (v \notin routed \/ ~CanAppend(v))
  /\ sending' = [sending EXCEPT ![v] = [sending[v] EXCEPT ![w] = NoRequest]]
  /\ left' = [left EXCEPT ![v] = [left[v] EXCEPT ![w] = {}]]
  /\ CloseCall(v) /\ Forget(v)
  /\ UNCHANGED <<current, routed, claimed, offer, providerVars, job, appended, spoken,
                 losses, over>>

FlushEnds(v, w) ==
  /\ sending[v][w] = NoRequest /\ left[v][w] # {} /\ left[v][w] \subseteq appended
  /\ left' = [left EXCEPT ![v] = [left[v] EXCEPT ![w] = {}]]
  /\ UNCHANGED <<current, routed, claimed, callVars, providerVars, job, primary, results,
                 appended, sending, spoken, losses, over>>

-----------------------------------------------------------------------------
Quit(v) ==
  /\ CloseCall(v) /\ Forget(v)
  /\ UNCHANGED <<current, routed, claimed, offer, providerVars, job, appended, left, sending,
                 spoken, losses, over>>

(* _watch, every second.                                                    *)
Watch(v) == Open(v) /\ (v \notin routed \/ ~Current(v)) /\ Quit(v)

(* transport_closed and fatal provider errors spawn a close; so does an     *)
(* event the route could not carry.                                         *)
Fatal(v) == Open(v) /\ Current(v) /\ provider[v] \in {"closing", "closed"} /\ Quit(v)
EventFails(v) == Open(v) /\ Current(v) /\ Listening(v) /\ Quit(v)

LoseRoute(v) ==
  /\ v \in routed /\ losses < MaxLosses /\ losses' = losses + 1
  /\ routed' = routed \ {v}
  /\ UNCHANGED <<current, claimed, callVars, providerVars, workVars, over>>

(* The pairing, the epoch or the transport generation moves on.             *)
LoseOwner(o) ==
  /\ o \in current /\ losses < MaxLosses /\ losses' = losses + 1
  /\ current' = current \ {o}
  /\ UNCHANGED <<routed, claimed, callVars, providerVars, workVars, over>>

(* A new process knows only the offers table: sockets and tasks are gone,   *)
(* and the ledger put every live job in doubt.                              *)
Restart ==
  /\ losses < MaxLosses /\ losses' = losses + 1
  /\ current' = {}
  /\ call' = [v \in Voices |-> "none"] /\ offer' = [v \in Voices |-> "none"]
  /\ ready' = {} /\ cleanup' = [v \in Voices |-> "none"]
  /\ provider' = [v \in Voices |-> "none"] /\ setup' = [v \in Voices |-> "none"]
  /\ job' = [r \in Requests |-> IF job[r] = "live" THEN "doubt" ELSE job[r]]
  /\ primary' = [r \in Requests |-> NoRequest]
  /\ results' = [v \in Voices |-> {}]
  /\ left' = [v \in Voices |-> [w \in Workers |-> {}]]
  /\ sending' = [v \in Voices |-> [w \in Workers |-> NoRequest]]
  /\ UNCHANGED <<routed, claimed, allocated, appended, spoken, over>>

-----------------------------------------------------------------------------
LiveCallsInit ==
  /\ current = {} /\ routed = Voices /\ claimed = {}
  /\ call = [v \in Voices |-> "none"] /\ offer = [v \in Voices |-> "none"]
  /\ ready = {} /\ cleanup = [v \in Voices |-> "none"]
  /\ provider = [v \in Voices |-> "none"] /\ setup = [v \in Voices |-> "none"]
  /\ job = [r \in Requests |-> "none"] /\ primary = [r \in Requests |-> NoRequest]
  /\ results = [v \in Voices |-> {}] /\ appended = {}
  /\ left = [v \in Voices |-> [w \in Workers |-> {}]]
  /\ sending = [v \in Voices |-> [w \in Workers |-> NoRequest]]
  /\ losses = 0 /\ allocated = [v \in Voices |-> 0]
  /\ over = {} /\ spoken = [r \in Requests |-> 0]

RequestStep(v) ==
  \/ Offer(v) \/ FactoryFails(v) \/ CloseUnknown(v) \/ CloseKnown(v) \/ CloseAnswered(v)
  \/ Resume(v) \/ GiveUp(v)

ProviderStep(v) ==
  \/ Post(v) \/ Attach(v) \/ Created(v) \/ CreateFails(v)
  \/ ProviderEnds(v) \/ ProviderClosed(v) \/ CloseProvider(v) \/ CleanedUp(v)

CallStep(v) ==
  \/ Started(v) \/ SidebandAttached(v)
  \/ \E w \in Workers :
       \/ \E r \in RequestsOf(v) : AppendResult(v, w, r)
       \/ Taken(v, w) \/ FlushFails(v, w) \/ FlushEnds(v, w)
  \/ Watch(v) \/ Fatal(v) \/ EventFails(v)

LiveCallsNext ==
  \/ \E v \in Voices : RequestStep(v) \/ ProviderStep(v) \/ CallStep(v) \/ LoseRoute(v)
  \/ \E r \in Requests : Delegation(r) \/ JobEnds(r) \/ JobInDoubt(r)
  \/ \E o \in Owners : LoseOwner(o)
  \/ Restart

(* The event loop runs the watcher every second, a cleanup task once it is  *)
(* started, and the bounded steps of a shutdown.                            *)
LiveCallsFairness ==
  \A v \in Voices :
    /\ WF_liveVars(Watch(v)) /\ WF_liveVars(Fatal(v))
    /\ WF_liveVars(CloseProvider(v)) /\ WF_liveVars(ProviderClosed(v))
    /\ WF_liveVars(CreateFails(v) /\ provider[v] \in {"closing", "closed"})

LiveCallsSpec == LiveCallsInit /\ [][LiveCallsNext]_liveVars /\ LiveCallsFairness

-----------------------------------------------------------------------------
(* Type invariant. *)
LiveCallsTypeOK ==
  /\ current \subseteq Owners /\ {routed \cup claimed, ready \cup over} \subseteq SUBSET Voices
  /\ call \in [Voices -> {"none", "open", "closed"}]
  /\ offer \in [Voices -> {"none", "waiting", "answered", "refused"}]
  /\ provider \in [Voices -> {"none", "new", "allocating", "attached", "started",
                              "closing", "closed"}]
  /\ setup \in [Voices -> {"none", "running", "done", "failed"}]
  /\ cleanup \in [Voices -> {"none", "asked", "closing", "done"}]
  /\ job \in [Requests -> {"none", "live", "doubt", "ended"}]
  /\ primary \in [Requests -> Requests \cup {NoRequest}]
  /\ results \in [Voices -> SUBSET Requests] /\ appended \subseteq Requests
  /\ left \in [Voices -> [Workers -> SUBSET Requests]]
  /\ sending \in [Voices -> [Workers -> Requests \cup {NoRequest}]]
  /\ allocated \in [Voices -> Nat] /\ spoken \in [Requests -> Nat] /\ losses \in 0 .. MaxLosses

(* A result is spoken at most once into a call, although several flushes    *)
(* run at once and a send whose outcome is unknown is never repeated.       *)
SpokenOnce == \A r \in Requests : spoken[r] <= 1

(* A conversation whose close was answered allocates nothing any more: not  *)
(* by the offer its close overtook, nor by a setup still under way, nor by  *)
(* the same offer replayed to a new process.                                *)
NothingAfterClose == [][\A v \in over : allocated'[v] = allocated[v]]_liveVars

(* A call that was closed, or whose route is gone, ends with its provider   *)
(* closed, whatever its setup was awaiting at that moment.                  *)
TornDown ==
  \A v \in Voices :
    (call[v] # "none" /\ (call[v] = "closed" \/ v \notin routed)) ~>
       (provider[v] \in {"none", "closed"} /\ call[v] # "open")

-----------------------------------------------------------------------------
(***************************************************************************)
(* How the runtime decides that a delegated job is over.  A job is carried *)
(* by the turn it was submitted as and by every turn its controls add: the *)
(* binding tracks them, Hermes runs them, one after the other or several   *)
(* in one chain, and the job ends when each tracked turn has an outcome.   *)
(*                                                                         *)
(* One job is followed; the records of the ledger are in VoiceLedger.      *)
(***************************************************************************)
CONSTANTS
  First,         \* the message the job was submitted as
  Controls,      \* requests that control the job
  ActionOf       \* [Controls -> {"queue", "steer", "cancel"}]

VoiceTurnsAssumption ==
  /\ First \notin Controls
  /\ ActionOf \in [Controls -> {"queue", "steer", "cancel"}]

VARIABLES
  state,      \* binding.job.state
  tracked,    \* keys of binding.turns, in insertion order
  bound,      \* tracked turns whose generation is known
  outcomes,   \* binding.outcomes
  control,    \* receipts of the controls
  authorized, \* _current(owner)
  hermes      \* what Hermes does with a message (external)

turnVars == <<state, tracked, bound, outcomes, control, authorized, hermes>>

-----------------------------------------------------------------------------
Messages == {First} \cup Controls
Ends == {"completed", "failed", "cancelled"}
Outcomes == {"success", "failure", "cancelled"}
Tracked == {tracked[i] : i \in DOMAIN tracked}
Adds(c) == ActionOf[c] \in {"queue", "steer"}
Doubted == IF state \in Ends THEN state ELSE "uncertain"
Sent == SelectSeq(tracked, LAMBDA m : hermes[m] = "sent")

(* _finish_if_complete, for the turns and outcomes of the next state.       *)
Verdict(out) ==
  LET seen == {out[m] : m \in Messages} \ {"none"}
  IN IF "failure" \in seen THEN "failed"
     ELSE IF "cancelled" \in seen THEN "cancelled" ELSE "completed"

Finished(turns, out) ==
  IF /\ state \notin Ends
     /\ \A i \in DOMAIN turns : out[turns[i]] # "none"
  THEN IF state = "uncertain" THEN state ELSE Verdict(out)
  ELSE state

-----------------------------------------------------------------------------
(* _submit: the turn is tracked before it is handed to the adapter.         *)
Submit ==
  /\ state = "dispatching" /\ hermes[First] = "none" /\ authorized
  /\ tracked' = <<First>>
  /\ hermes' = [hermes EXCEPT ![First] = "sent"]
  /\ UNCHANGED <<state, bound, outcomes, control, authorized>>

Submitted ==
  /\ state = "dispatching" /\ First \in Tracked
  /\ state' = "running"
  /\ UNCHANGED <<tracked, bound, outcomes, control, authorized, hermes>>

SubmitFails ==
  /\ state = "dispatching"
  /\ state' = "uncertain"
  /\ UNCHANGED <<tracked, bound, outcomes, control, authorized, hermes>>

(* _admit_control adds the turn in the same step as the admission.          *)
Track(c) == tracked' = IF Adds(c) THEN Append(tracked, c) ELSE tracked

AdmitControl(c) ==
  /\ control[c] = "none" /\ state = "running"
  /\ \A d \in Controls : control[d] # "admitted"
  /\ control' = [control EXCEPT ![c] = "admitted"]
  /\ state' = IF ActionOf[c] = "cancel" THEN "cancel_requested" ELSE state
  /\ Track(c)
  /\ UNCHANGED <<bound, outcomes, authorized, hermes>>

(* _control: the turn reaches Hermes as a message of its own,               *)
SendControl(c) ==
  /\ control[c] = "admitted" /\ hermes[c] = "none"
  /\ authorized /\ state \notin Ends /\ Adds(c)
  /\ tracked' = IF c \in Tracked THEN tracked ELSE Append(tracked, c)
  /\ hermes' = [hermes EXCEPT ![c] = "sent"]
  /\ UNCHANGED <<state, bound, outcomes, control, authorized>>

(* or a steer is consumed inline and is no turn at all,                     *)
SteerInline(c) ==
  /\ control[c] = "admitted" /\ hermes[c] = "none"
  /\ authorized /\ state \notin Ends /\ ActionOf[c] = "steer"
  /\ hermes' = [hermes EXCEPT ![c] = "steered"]
  /\ tracked' = SelectSeq(tracked, LAMBDA m : m # c)
  /\ state' = IF \E m \in Messages : outcomes[m] # "none"
              THEN Finished(tracked', outcomes) ELSE state
  /\ UNCHANGED <<bound, outcomes, control, authorized>>

(* or /stop cancels what runs and what waits.                               *)
Stop(c) ==
  /\ control[c] = "admitted" /\ hermes[c] = "none"
  /\ authorized /\ state \notin Ends /\ ActionOf[c] = "cancel"
  /\ hermes' = [m \in Messages |->
                  IF m = c THEN "steered"
                  ELSE IF hermes[m] = "sent" /\ m \notin bound THEN "dropped" ELSE hermes[m]]
  /\ UNCHANGED <<state, tracked, bound, outcomes, control, authorized>>

ControlAccepted(c) ==
  /\ control[c] = "admitted" /\ hermes[c] # "none"
  /\ control' = [control EXCEPT ![c] = "accepted"]
  /\ UNCHANGED <<state, tracked, bound, outcomes, authorized, hermes>>

ControlFails(c) ==
  /\ control[c] = "admitted"
  /\ control' = [control EXCEPT ![c] = "uncertain"]
  /\ state' = Doubted
  /\ UNCHANGED <<tracked, bound, outcomes, authorized, hermes>>

-----------------------------------------------------------------------------
(* observe: what Hermes reports counts for a live job of a current owner.   *)
Observed(m) == m \in Tracked /\ state \notin Ends /\ authorized

ProcessingStart(m) ==
  /\ hermes[m] = "sent" /\ Sent[1] = m
  /\ \A n \in Messages : hermes[n] # "running"
  /\ hermes' = [hermes EXCEPT ![m] = "running"]
  /\ IF Observed(m)
     THEN /\ bound' = bound \cup {m}
          /\ state' = IF state = "dispatching" THEN "running" ELSE state
     ELSE UNCHANGED <<bound, state>>
  /\ UNCHANGED <<tracked, outcomes, control, authorized>>

(* Turns up to the terminal coordinate that never started on their own.     *)
Chained(t) ==
  {tracked[i] : i \in {j \in DOMAIN tracked :
     /\ tracked[j] \notin bound
     /\ \E k \in DOMAIN tracked : tracked[k] = t /\ j <= k}}

Consumed(t) == Chained(t)

(* The turn ends with `outcome`; the first n waiting messages were consumed *)
(* by the same chain, which names the last of them.                         *)
ProcessingComplete(m, n, outcome) ==
  LET t == IF n = 0 THEN m ELSE Sent[n]
      gone == {Sent[i] : i \in 1 .. n}
      closed == {m} \cup (IF t \in Tracked THEN Consumed(t) ELSE {})
      out == [x \in Messages |-> IF x \in closed THEN outcome ELSE outcomes[x]]
  IN /\ hermes[m] = "running" /\ n <= Len(Sent)
     /\ hermes' = [x \in Messages |-> IF x = m \/ x \in gone THEN "ended" ELSE hermes[x]]
     /\ IF Observed(m) /\ m \in bound
        THEN /\ outcomes' = out
             /\ state' = Finished(tracked, out)
        ELSE UNCHANGED <<outcomes, state>>
     /\ UNCHANGED <<tracked, bound, control, authorized>>

(* The pairing or transport moves on, is revoked, or the host shuts down.   *)
LoseJobOwner ==
  /\ authorized /\ authorized' = FALSE
  /\ state' \in {state, Doubted}
  /\ UNCHANGED <<tracked, bound, outcomes, control, hermes>>

JobOwnerReturns ==
  /\ ~authorized /\ authorized' = TRUE
  /\ UNCHANGED <<state, tracked, bound, outcomes, control, hermes>>

-----------------------------------------------------------------------------
TurnsInit ==
  /\ state = "dispatching" /\ tracked = <<>> /\ bound = {}
  /\ outcomes = [m \in Messages |-> "none"]
  /\ control = [c \in Controls |-> "none"]
  /\ authorized = TRUE
  /\ hermes = [m \in Messages |-> "none"]

ControlStep(c) ==
  \/ AdmitControl(c) \/ SendControl(c) \/ SteerInline(c) \/ Stop(c)
  \/ ControlAccepted(c) \/ ControlFails(c)

TurnsNext ==
  \/ Submit \/ Submitted \/ SubmitFails
  \/ \E c \in Controls : ControlStep(c)
  \/ \E m \in Messages :
       \/ ProcessingStart(m)
       \/ \E n \in 0 .. Len(tracked), o \in Outcomes : ProcessingComplete(m, n, o)
  \/ LoseJobOwner \/ JobOwnerReturns

TurnsSpec == TurnsInit /\ [][TurnsNext]_turnVars

-----------------------------------------------------------------------------
(* Type invariant. *)
TurnsTypeOK ==
  /\ state \in Ends \cup {"dispatching", "running", "cancel_requested", "uncertain"}
  /\ tracked \in Seq(Messages) /\ bound \subseteq Messages
  /\ outcomes \in [Messages -> Outcomes \cup {"none"}]
  /\ control \in [Controls -> {"none", "admitted", "accepted", "uncertain"}]
  /\ authorized \in BOOLEAN
  /\ hermes \in [Messages -> {"none", "sent", "running", "ended", "steered", "dropped"}]

(* A turn the user was promised and Hermes has not come to yet.             *)
Outstanding(m) ==
  \/ hermes[m] \in {"sent", "running"}
  \/ m \in Controls /\ control[m] = "admitted" /\ Adds(m) /\ hermes[m] = "none"

(* A job is reported completed only when nothing it was given is still to   *)
(* run: no turn that waits in Hermes, none that runs, and no control that   *)
(* was admitted while the last turn ended.                                  *)
EndIsWhole == state = "completed" => \A m \in Messages : ~Outstanding(m)
================================================================================
