--------------------------- MODULE PluginUpdateProofs ---------------------------
(***************************************************************************)
(* Proofs about PluginUpdate, for any operations, restart choices, faults  *)
(* and bounds: types, one restart per operation, no false completion,      *)
(* the finality of ends, and the installation kept behind its lock and its *)
(* copies.                                                                 *)
(***************************************************************************)
EXTENDS PluginUpdate, TLAPS

Phases == {"absent"} \cup Terminal \cup Observing \cup Working
Places == Idle \cup DOMAIN Announcements \cup
  {"begin", "resolve", "verify", "scan", "copy", "install", "choose", "ask", "restart", "wait"}
Worker == [at : Places, target : Nat]

(* Places a worker can be at once its operation has restarted the gateway   *)
(* without a trace of it in the journal.                                    *)
Past == {"await", "observe", "wait", "done", "dead", "lock", "begin"}

Restarted(o) ==
  /\ operations[o].phase = "absent" =>
       ~operations[o].asked /\ workers[o].at = "none" /\ starters[o] = "none"
  /\ workers[o].at \in {"ask", "restart"} => o \in Restarting /\ restarts[o] = 0
  /\ At(o, "restart") => operations[o].asked \/ operations[o].phase \in Terminal
  /\ restarts[o] # 0 =>
       /\ restarts[o] = 1 /\ o \in Restarting
       /\ operations[o].asked \/ (operations[o].phase \in Terminal /\ workers[o].at \in Past)

Evidence(o) ==
  /\ operations[o].started <= runtime.id
  /\ operations[o].phase = "complete" =>
       \E g \in DOMAIN gateways :
         g > operations[o].started /\ gateways[g] = operations[o].target

RuntimeLoaded == runtime.id # 0 => runtime.revision = gateways[runtime.id]

-----------------------------------------------------------------------------
(* The places that only write a phase write one that ends nothing but an    *)
(* update without a restart, and never lead to a place of consequence.      *)
LEMMA AnnouncedPhases ==
  ASSUME NEW a \in DOMAIN Announcements
  PROVE  /\ Announcements[a][1] \in Phases \ {"absent", "complete"}
         /\ Announcements[a][2] \in Places \ {"ask", "restart"}
         /\ a \in Past => Announcements[a][2] \in Past
BY DEF Announcements, Phases, Places, Idle, Terminal, Observing, Working, Past

LEMMA MovedType ==
  ASSUME NEW o \in Operations, operations \in [Operations -> Operation],
         NEW phase \in Phases
  PROVE  Moved(o, phase) \in Operation
BY DEF Moved, Operation, Phases

LEMMA OperationUpdates ==
  ASSUME NEW op \in Operation, NEW n \in Nat, NEW phase \in Phases
  PROVE  /\ [op EXCEPT !.link = n] \in Operation
         /\ [op EXCEPT !.phase = phase] \in Operation
         /\ [op EXCEPT !.phase = phase, !.target = n] \in Operation
         /\ [op EXCEPT !.phase = phase, !.asked = TRUE] \in Operation
<1> DEFINE P == {"absent"} \cup Terminal \cup Observing \cup Working
<1>1. op \in [phase : P, target : Nat, started : Nat, asked : BOOLEAN, link : Nat] /\ phase \in P
  BY DEF Operation, Phases
<1>2. Operation = [phase : P, target : Nat, started : Nat, asked : BOOLEAN, link : Nat]
  BY DEF Operation
<1> HIDE DEF P
<1> QED BY <1>1, <1>2

LEMMA ReconciledType ==
  ASSUME NEW op \in Operation
  PROVE  Reconciled(op) \in Operation
BY DEF Reconciled, Operation, Terminal

-----------------------------------------------------------------------------
(* Types.                                                                   *)
LEMMA TypingInit == ASSUME UpdateAssumption, Init PROVE TypeOK
BY DEF UpdateAssumption, Init, TypeOK, Operation, Installation, NoBackup, Idle, Revisions

LEMMA TypingStep ==
  ASSUME UpdateAssumption, TypeOK, [Next]_vars
  PROVE  TypeOK'
<1> USE UpdateAssumption
<1>0. /\ operations \in [Operations -> Operation]
      /\ runtime \in [revision : Nat, id : Nat] /\ runtime.id <= Len(gateways)
      /\ starters \in [Operations -> {"none", "launching", "refused", "done"}]
      /\ workers \in [Operations -> Worker]
      /\ installed \in Installation /\ backups \in [Operations -> Installation]
      /\ gateways \in Seq(Nat) /\ gateways # <<>> /\ head \in Nat \ {0}
      /\ restarts \in [Operations -> Nat] /\ faults \in Nat /\ edits \in Nat
  BY DEF TypeOK, Worker, Places
<1>l. /\ Len(gateways) \in Nat /\ gateways[Len(gateways)] \in Nat
      /\ runtime.id \in Nat
  BY <1>0
<1>a. ASSUME Load PROVE gateways' \in Seq(Nat) /\ gateways' # <<>> /\ Len(gateways') = Len(gateways) + 1
  BY <1>a DEF TypeOK, Load, Installation
<1>g. ASSUME NEW o \in Operations, NEW p \in Places, Goes(o, p)
      PROVE  workers' \in [Operations -> Worker]
  BY <1>g DEF TypeOK, Goes, Places, Worker
<1>m. ASSUME NEW o \in Operations, NEW phase \in Phases, Journal(o, Moved(o, phase))
      PROVE  operations' \in [Operations -> Operation]
  BY <1>m, MovedType DEF TypeOK, Journal
<1>c. ASSUME NEW o \in Operations, CutShort(o) PROVE installed' \in Installation
  BY <1>c DEF TypeOK, CutShort, Installation
<1>t. TypeOK' <=>
        /\ operations' \in [Operations -> Operation]
        /\ runtime' \in [revision : Nat, id : Nat] /\ runtime'.id <= Len(gateways')
        /\ starters' \in [Operations -> {"none", "launching", "refused", "done"}]
        /\ workers' \in [Operations -> Worker]
        /\ installed' \in Installation /\ backups' \in [Operations -> Installation]
        /\ gateways' \in Seq(Nat) /\ gateways' # <<>> /\ head' \in Nat \ {0}
        /\ restarts' \in [Operations -> Nat] /\ faults' \in Nat /\ edits' \in Nat
  BY DEF TypeOK, Worker, Places
<1>1. CASE UNCHANGED vars
  BY <1>1, <1>0, <1>t DEF vars
<1>2. CASE RestartedByHost
  BY <1>2, <1>a, <1>l, <1>0, <1>t DEF RestartedByHost
<1>3. CASE RecordRuntimeLoaded
  BY <1>3, <1>l, <1>0, <1>t DEF RecordRuntimeLoaded
<1>4. CASE Push \/ Edit
  <2>1. installed' \in Installation
    BY <1>4, <1>0 DEF Push, Edit, Installation
  <2>2. head' \in Nat \ {0} /\ edits' \in Nat /\ faults' \in Nat
    <3>1. head \in Nat \ {0} /\ edits \in Nat /\ faults \in Nat
      BY <1>0
    <3>2. head' = head \/ head' = head + 1
      BY <1>4 DEF Push, Edit
    <3>3. edits' = edits \/ edits' = edits + 1
      BY <1>4 DEF Push, Edit
    <3>4. faults' = faults \/ faults' = faults + 1
      BY <1>4 DEF Push, Edit
    <3> QED BY <3>1, <3>2, <3>3, <3>4
  <2>3. UNCHANGED <<operations, runtime, starters, workers, backups, gateways, restarts>>
    BY <1>4 DEF Push, Edit
  <2> QED BY <2>1, <2>2, <2>3, <1>0, <1>t
<1>5. ASSUME NEW o \in Operations, RecordLinkResponse(o) \/ Status(o) PROVE TypeOK'
  <2>1. [operations[o] EXCEPT !.link = runtime.id] \in Operation
    <3>1. operations[o] \in Operation /\ "absent" \in Phases
      BY <1>0 DEF Phases
    <3> QED BY <3>1, <1>l, OperationUpdates
  <2>2. operations' \in [Operations -> Operation]
    <3>1. operations[o] \in Operation
      BY <1>0
    <3>2. CASE RecordLinkResponse(o)
      <4>1. Reconciled([operations[o] EXCEPT !.link = runtime.id]) \in Operation
        BY <2>1, ReconciledType
      <4> QED BY <3>2, <4>1, <1>0 DEF RecordLinkResponse, Journal
    <3>3. CASE Status(o)
      <4>1. Reconciled(operations[o]) \in Operation
        BY <3>1, ReconciledType
      <4> QED BY <3>3, <4>1, <1>0 DEF Status, Journal
    <3> QED BY <1>5, <3>2, <3>3
  <2> QED BY <1>5, <2>2, <1>0, <1>t DEF RecordLinkResponse, Status
<1>6. ASSUME NEW o \in Operations, Start(o) \/ StarterStep(o) \/ StarterDies(o) PROVE TypeOK'
  <2>1. CASE Start(o)
    <3>1. operations' \in [Operations -> Operation]
      BY <2>1, <1>l, <1>0 DEF Start, Journal, Operation, Working
    <3> QED BY <2>1, <3>1, <1>0, <1>t DEF Start
  <2>2. CASE Launch(o)
    <3>1. workers' \in [Operations -> Worker]
      <4>1. [at |-> "lock", target |-> 0] \in Worker
        BY DEF Worker, Places, Idle
      <4>2. workers' = workers \/ workers' = [workers EXCEPT ![o] = [at |-> "lock", target |-> 0]]
        BY <2>2 DEF Launch, Launched
      <4> QED BY <4>1, <4>2, <1>0
    <3>2. starters' \in [Operations -> {"none", "launching", "refused", "done"}]
      BY <2>2, <1>0 DEF Launch
    <3> QED BY <2>2, <3>1, <3>2, <1>0, <1>t DEF Launch
  <2>3. CASE LaunchFailed(o)
    <3>1. operations' \in [Operations -> Operation]
      <4>1. operations[o] \in Operation /\ "blocked" \in Phases /\ 0 \in Nat
        BY <1>0 DEF Phases, Terminal
      <4>2. [operations[o] EXCEPT !.phase = "blocked"] \in Operation
        BY <4>1, OperationUpdates
      <4> QED BY <2>3, <1>0, <4>1, <4>2 DEF LaunchFailed, Journal
    <3> QED BY <2>3, <3>1, <1>0, <1>t DEF LaunchFailed
  <2>4. CASE StarterDies(o)
    BY <2>4, <1>0, <1>t DEF StarterDies
  <2> QED BY <1>6, <2>1, <2>2, <2>3, <2>4 DEF StarterStep
<1>7. ASSUME NEW o \in Operations, WorkerStep(o) PROVE TypeOK'
  <2>1. CASE AcquireInstallLock(o)
    <3>1. workers' \in [Operations -> Worker]
      BY <2>1, <1>g DEF AcquireInstallLock, Places, Idle
    <3>2. operations' \in [Operations -> Operation]
      BY <2>1, <1>m DEF AcquireInstallLock, Phases, Terminal, TypeOK
    <3> QED BY <2>1, <3>1, <3>2, <1>0, <1>t DEF AcquireInstallLock
  <2>2. CASE Begin(o)
    <3>1. workers' \in [Operations -> Worker]
      BY <2>2, <1>0 DEF Begin, Worker, Places, Idle, Announcements, Operation
    <3> QED BY <2>2, <3>1, <1>0, <1>t DEF Begin
  <2>3. CASE Announce(o)
    <3>1. workers' \in [Operations -> Worker] /\ operations' \in [Operations -> Operation]
      BY <2>3, AnnouncedPhases, <1>g, <1>m DEF Announce
    <3> QED BY <2>3, <3>1, <1>0, <1>t DEF Announce
  <2>4. CASE Resolve(o)
    <3>1. workers' \in [Operations -> Worker]
      BY <2>4, <1>0 DEF Resolve, Worker, Places
    <3>2. operations' \in [Operations -> Operation]
      <4>1. operations[o] \in Operation /\ "resolved" \in Phases /\ head \in Nat
        BY <1>0 DEF Phases, Working
      <4>2. [operations[o] EXCEPT !.phase = "resolved", !.target = head] \in Operation
        BY <4>1, OperationUpdates
      <4> QED BY <2>4, <1>0, <4>1, <4>2 DEF Resolve, Journal
    <3> QED BY <2>4, <3>1, <3>2, <1>0, <1>t DEF Resolve
  <2>5. CASE Verify(o)
    <3>1. workers' \in [Operations -> Worker]
      BY <2>5, <1>g DEF Verify, Places, Idle, Announcements
    <3>2. Reconciled(operations[o]) \in Operation /\ Moved(o, "blocked") \in Operation
          /\ Moved(o, "up_to_date") \in Operation
      BY MovedType, ReconciledType DEF TypeOK, Phases, Terminal
    <3>3. operations' \in [Operations -> Operation]
      BY <2>5, <3>2 DEF Verify, Journal, TypeOK
    <3> QED BY <2>5, <3>1, <3>3, <1>0, <1>t DEF Verify
  <2>6. CASE Scan(o) \/ Choose(o)
    <3>1. workers' \in [Operations -> Worker]
      BY <2>6, <1>g DEF Scan, Choose, Places, Announcements
    <3> QED BY <2>6, <3>1, <1>0, <1>t DEF Scan, Choose
  <2>7. CASE Copy(o) \/ Install(o)
    <3>1. workers' \in [Operations -> Worker]
      BY <2>7, <1>g DEF Copy, Install, Places, Announcements
    <3>2. installed' \in Installation
      <4>1. workers[o].target \in Nat
        BY <1>0 DEF Worker
      <4>2. CASE Copy(o)
        BY <4>2, <1>0 DEF Copy
      <4>3. CASE Install(o)
        BY <4>3, <4>1 DEF Install, Installation
      <4> QED BY <2>7, <4>2, <4>3
    <3>3. backups' \in [Operations -> Installation]
      BY <2>7, <1>0 DEF Copy, Install
    <3> QED BY <2>7, <3>1, <3>2, <3>3, <1>0, <1>t DEF Copy, Install
  <2>8. CASE Ask(o)
    <3>1. workers' \in [Operations -> Worker]
      BY <2>8, <1>g DEF Ask, Places
    <3>2. operations' \in [Operations -> Operation]
      <4>1. operations[o] \in Operation /\ "restart_requested" \in Phases /\ 0 \in Nat
        BY <1>0 DEF Phases, Observing
      <4>2. [operations[o] EXCEPT !.phase = "restart_requested", !.asked = TRUE] \in Operation
        BY <4>1, OperationUpdates
      <4> QED BY <2>8, <1>0, <4>1, <4>2 DEF Ask, Journal
    <3> QED BY <2>8, <3>1, <3>2, <1>0, <1>t DEF Ask
  <2>9. CASE RestartGateway(o)
    <3>1. workers' \in [Operations -> Worker]
      BY <2>9, <1>g DEF RestartGateway, Places, Announcements
    <3>2. /\ gateways' \in Seq(Nat) /\ gateways' # <<>>
          /\ Len(gateways') = Len(gateways) \/ Len(gateways') = Len(gateways) + 1
      BY <2>9, <1>a, <1>0 DEF RestartGateway
    <3>3. restarts' \in [Operations -> Nat]
      BY <2>9, <1>0 DEF RestartGateway
    <3>4. runtime' = runtime /\ runtime.id <= Len(gateways')
      BY <2>9, <3>2, <1>0, <1>l DEF RestartGateway
    <3> QED BY <2>9, <3>1, <3>2, <3>3, <3>4, <1>0, <1>t DEF RestartGateway
  <2>10. CASE WaitForActivation(o)
    <3>1. workers' \in [Operations -> Worker]
      BY <2>10, <1>g DEF WaitForActivation, Places, Idle
    <3>2. Reconciled(operations[o]) \in Operation /\ Moved(o, "timed_out") \in Operation
      BY MovedType, ReconciledType DEF TypeOK, Phases, Observing
    <3>3. operations' \in [Operations -> Operation]
      BY <2>10, <3>2 DEF WaitForActivation, Journal, TypeOK
    <3> QED BY <2>10, <3>1, <3>3, <1>0, <1>t DEF WaitForActivation
  <2>11. CASE Relaunch(o)
    <3>1. workers' \in [Operations -> Worker]
      BY <2>11, <1>0 DEF Relaunch, Launched, Worker, Places, Idle
    <3> QED BY <2>11, <3>1, <1>0, <1>t DEF Relaunch
  <2> QED BY <1>7, <2>1, <2>2, <2>3, <2>4, <2>5, <2>6, <2>7, <2>8, <2>9, <2>10, <2>11 DEF WorkerStep
<1>8. ASSUME NEW o \in Operations, Fail(o) \/ WorkerDies(o) PROVE TypeOK'
  <2>1. workers' \in [Operations -> Worker]
    BY <1>8, <1>g DEF Fail, WorkerDies, Places, Idle
  <2>2. operations' \in [Operations -> Operation]
    BY <1>8, <1>m DEF Fail, WorkerDies, Phases, Terminal, TypeOK
  <2> QED BY <1>8, <2>1, <2>2, <1>c, <1>0, <1>t DEF Fail, WorkerDies
<1> QED BY <1>1, <1>2, <1>3, <1>4, <1>5, <1>6, <1>7, <1>8 DEF Next

(* Type correctness of the journal, the workers and the installation.       *)
THEOREM Typing == ASSUME UpdateAssumption PROVE Spec => []TypeOK
BY TypingInit, TypingStep, PTL DEF Spec

-----------------------------------------------------------------------------
(* What every step keeps of an operation in the journal.                    *)
Keeps(o) ==
  /\ operations[o].asked => operations'[o].asked
  /\ operations[o].phase \in Terminal =>
       operations'[o].phase = operations[o].phase /\ operations'[o].target = operations[o].target
  /\ operations'[o].phase = "absent" =>
       operations[o].phase = "absent" /\ operations'[o].asked = operations[o].asked
  /\ operations'[o].started = operations[o].started

(* An operation becomes complete on the evidence of the recorded gateway.   *)
Completes(o) ==
  operations'[o].phase = "complete" /\ operations[o].phase # "complete" =>
    /\ runtime.id # 0 /\ runtime.id # operations'[o].started
    /\ runtime.revision = operations'[o].target
    /\ runtime' = runtime /\ gateways' = gateways

LEMMA StepKeeps ==
  ASSUME TypeOK, Next, NEW o \in Operations
  PROVE  Start(o) \/ (Keeps(o) /\ Completes(o))
<1>t. operations \in [Operations -> Operation]
  BY DEF TypeOK
<1>u. ASSUME operations'[o] = operations[o] PROVE Keeps(o) /\ Completes(o)
  BY <1>u DEF Keeps, Completes
<1>e. ASSUME NEW p \in Operations, NEW op, Journal(p, op), p # o PROVE operations'[o] = operations[o]
  BY <1>e, <1>t DEF Journal
<1>j. ASSUME NEW op, Journal(o, op) PROVE operations'[o] = op
  BY <1>j, <1>t DEF Journal
<1>m. ASSUME NEW p \in Operations, NEW phase \in Phases \ {"absent", "complete"},
             Journal(p, Moved(p, phase))
      PROVE  Keeps(o) /\ Completes(o)
  <2>1. CASE p # o
    BY <2>1, <1>m, <1>e, <1>u
  <2>2. CASE p = o
    <3>1. operations'[o] = Moved(o, phase)
      BY <2>2, <1>m, <1>j
    <3>2. CASE operations[o].phase \in Terminal
      BY <3>1, <3>2, <1>u DEF Moved
    <3>3. CASE operations[o].phase \notin Terminal
      <4>1. operations'[o] = [operations[o] EXCEPT !.phase = phase]
        BY <3>1, <3>3 DEF Moved
      <4> QED BY <4>1, <3>3, <1>t, <1>m DEF Keeps, Completes, Operation
    <3> QED BY <3>2, <3>3
  <2> QED BY <2>1, <2>2
<1>r. ASSUME NEW p \in Operations, NEW op \in Operation, Journal(p, Reconciled(op)),
             op = operations[p] \/ op = [operations[p] EXCEPT !.link = runtime.id],
             operations[p].phase # "absent" \/ op = operations[p],
             UNCHANGED <<runtime, gateways>>
      PROVE  Keeps(o) /\ Completes(o)
  <2>1. CASE p # o
    BY <2>1, <1>r, <1>e, <1>u
  <2>2. CASE p = o
    <3>1. operations'[o] = Reconciled(op)
      BY <2>2, <1>r, <1>j
    <3>2. op.phase = operations[o].phase /\ op.target = operations[o].target
          /\ op.started = operations[o].started /\ op.asked = operations[o].asked
      BY <2>2, <1>r, <1>t DEF Operation
    <3>3. CASE Reconciled(op) = op
      BY <3>1, <3>2, <3>3 DEF Keeps, Completes
    <3>4. CASE Reconciled(op) # op
      <4>1. /\ op.phase \in Observing /\ runtime.revision = op.target
            /\ runtime.id \notin {0, op.started} /\ operations'[o] = [op EXCEPT !.phase = "complete"]
        BY <3>1, <3>4 DEF Reconciled
      <4>2. op.phase \notin Terminal
        BY <4>1 DEF Observing, Terminal
      <4> QED BY <4>1, <4>2, <3>2, <1>r DEF Keeps, Completes, Operation
    <3> QED BY <3>3, <3>4
  <2> QED BY <2>1, <2>2
<1>1. CASE RestartedByHost \/ RecordRuntimeLoaded \/ Push \/ Edit
  BY <1>1, <1>u DEF RestartedByHost, RecordRuntimeLoaded, Push, Edit
<1>2. ASSUME NEW p \in Operations, Start(p) PROVE Start(o) \/ (Keeps(o) /\ Completes(o))
  BY <1>2, <1>e, <1>u DEF Start
<1>3. ASSUME NEW p \in Operations, RecordLinkResponse(p) \/ Status(p) PROVE Keeps(o) /\ Completes(o)
  <2>1. operations[p] \in Operation /\ "absent" \in Phases /\ runtime.id \in Nat
    BY <1>t DEF Phases, TypeOK
  <2>2. [operations[p] EXCEPT !.link = runtime.id] \in Operation
    BY <2>1, OperationUpdates
  <2> QED BY <1>3, <2>1, <2>2, <1>r DEF RecordLinkResponse, Status
<1>4. ASSUME NEW p \in Operations, StarterStep(p) \/ StarterDies(p) PROVE Keeps(o) /\ Completes(o)
  <2>1. CASE Launch(p) \/ StarterDies(p)
    BY <2>1, <1>u DEF Launch, StarterDies
  <2>2. CASE LaunchFailed(p)
    <3>1. Journal(p, Moved(p, "blocked")) \/ operations'[o] = operations[o]
      BY <2>2, <1>t, <1>j, <1>e DEF LaunchFailed, Moved, Terminal
    <3> QED BY <3>1, <1>m, <1>u DEF Phases, Terminal
  <2> QED BY <1>4, <2>1, <2>2 DEF StarterStep
<1>5. ASSUME NEW p \in Operations, WorkerStep(p) PROVE Keeps(o) /\ Completes(o)
  <2>w. {"blocked", "up_to_date", "timed_out", "resolved", "restart_requested"}
          \subseteq Phases \ {"absent", "complete"}
    BY DEF Phases, Terminal, Observing, Working
  <2>o. operations[p] \in Operation
    BY <1>t
  <2>r. ASSUME Journal(p, Reconciled(operations[p])), UNCHANGED <<runtime, gateways>>
        PROVE  Keeps(o) /\ Completes(o)
    BY <2>r, <2>o, <1>r
  <2>1. CASE AcquireInstallLock(p)
    BY <2>1, <2>w, <1>m, <1>u DEF AcquireInstallLock
  <2>2. CASE Begin(p) \/ Scan(p) \/ Copy(p) \/ Install(p) \/ Choose(p) \/ RestartGateway(p) \/ Relaunch(p)
    BY <2>2, <1>u DEF Begin, Scan, Copy, Install, Choose, RestartGateway, Relaunch
  <2>3. CASE Announce(p)
    BY <2>3, <1>m, AnnouncedPhases DEF Announce
  <2>4. CASE Resolve(p) \/ Ask(p)
    <3>1. CASE p # o
      BY <2>4, <3>1, <1>e, <1>u DEF Resolve, Ask
    <3>2. CASE p = o /\ operations[o].phase \in Terminal
      BY <2>4, <3>2, <1>j, <1>u DEF Resolve, Ask
    <3>3. CASE p = o /\ operations[o].phase \notin Terminal
      <4>1. \/ operations'[o] = [operations[o] EXCEPT !.phase = "resolved", !.target = head]
            \/ operations'[o] = [operations[o] EXCEPT !.phase = "restart_requested", !.asked = TRUE]
        BY <2>4, <3>3, <1>j DEF Resolve, Ask
      <4> QED BY <4>1, <3>3, <1>t DEF Keeps, Completes, Operation
    <3> QED BY <3>1, <3>2, <3>3
  <2>5. CASE Verify(p)
    BY <2>5, <2>w, <2>r, <1>m DEF Verify
  <2>6. CASE WaitForActivation(p)
    BY <2>6, <2>w, <2>r, <1>m DEF WaitForActivation
  <2> QED BY <1>5, <2>1, <2>2, <2>3, <2>4, <2>5, <2>6 DEF WorkerStep
<1>6. ASSUME NEW p \in Operations, Fail(p) \/ WorkerDies(p) PROVE Keeps(o) /\ Completes(o)
  BY <1>6, <1>m, <1>u DEF Fail, WorkerDies, Phases, Terminal
<1> QED BY <1>1, <1>2, <1>3, <1>4, <1>5, <1>6 DEF Next

(* What a client was told is the end of an update stays its end: neither a  *)
(* late worker nor late evidence moves it.                                  *)
THEOREM EndsAreFinal == ASSUME UpdateAssumption PROVE Spec => EndIsFinal
<1>1. ASSUME TypeOK, [Next]_vars
      PROVE  [\A o \in Operations : operations[o].phase \in Terminal =>
                operations'[o].phase = operations[o].phase]_vars
  <2>1. ASSUME Next, NEW o \in Operations, operations[o].phase \in Terminal
        PROVE  operations'[o].phase = operations[o].phase
    <3>1. ~Start(o)
      BY <2>1 DEF Start, Terminal
    <3> QED BY <1>1, <2>1, <3>1, StepKeeps DEF Keeps
  <2> QED BY <1>1, <2>1
<1> QED BY <1>1, Typing, PTL DEF Spec, EndIsFinal

-----------------------------------------------------------------------------
(* One restart.                                                             *)
LEMMA RestartedInit == ASSUME UpdateAssumption, Init, NEW o \in Operations PROVE Restarted(o)
BY DEF Init, Restarted, At, Terminal

LEMMA RestartedStep ==
  ASSUME TypeOK, Next, NEW o \in Operations, Restarted(o)
  PROVE  Restarted(o)'
<1>t. /\ operations \in [Operations -> Operation] /\ workers \in [Operations -> Worker]
      /\ starters \in [Operations -> {"none", "launching", "refused", "done"}]
      /\ restarts \in [Operations -> Nat]
  BY DEF TypeOK, Worker, Places
<1>k. ASSUME Keeps(o), workers'[o] = workers[o], starters'[o] = starters[o], restarts'[o] = restarts[o]
      PROVE  Restarted(o)'
  BY <1>k DEF Keeps, Restarted, At
<1>p. ASSUME Keeps(o), workers[o].at # "none", workers'[o].at \notin {"none", "ask", "restart"},
             restarts'[o] = restarts[o],
             \/ operations[o].asked \/ restarts[o] = 0
             \/ workers[o].at \in Past => workers'[o].at \in Past
      PROVE  Restarted(o)'
  BY <1>p DEF Keeps, Restarted, At
<1>g. ASSUME NEW p \in Operations, NEW place, Goes(p, place)
      PROVE  IF p = o THEN workers'[o].at = place ELSE workers'[o] = workers[o]
  BY <1>g, <1>t DEF Goes
<1>1. CASE RestartedByHost \/ RecordRuntimeLoaded \/ Push \/ Edit
  <2>1. Keeps(o)
    BY <1>1 DEF Keeps, RestartedByHost, RecordRuntimeLoaded, Push, Edit
  <2> QED BY <1>1, <2>1, <1>k DEF RestartedByHost, RecordRuntimeLoaded, Push, Edit
<1>2. ASSUME NEW p \in Operations, Start(p) PROVE Restarted(o)'
  <2>1. CASE p = o
    BY <1>2, <2>1, <1>t DEF Start, Restarted, Journal, At, Terminal
  <2>2. CASE p # o
    BY <1>2, <2>2, <1>t DEF Start, Restarted, Journal, At
  <2> QED BY <2>1, <2>2
<1> SUFFICES ASSUME ~Start(o) PROVE Restarted(o)'
  BY <1>2
<1>k1. Keeps(o)
  BY StepKeeps
<1>3. ASSUME NEW p \in Operations, RecordLinkResponse(p) \/ Status(p) PROVE Restarted(o)'
  BY <1>3, <1>k1, <1>k DEF RecordLinkResponse, Status
<1>4. ASSUME NEW p \in Operations, StarterStep(p) \/ StarterDies(p) PROVE Restarted(o)'
  <2>1. CASE p # o
    BY <1>4, <2>1, <1>t, <1>k1, <1>k DEF StarterStep, StarterDies, Launch, Launched, LaunchFailed
  <2>2. CASE p = o
    <3>1. operations[o].phase # "absent" /\ operations'[o].phase # "absent"
      BY <1>4, <2>2, <1>k1 DEF StarterStep, StarterDies, Launch, LaunchFailed, Restarted, Keeps
    <3>2. workers'[o] = workers[o] \/ workers'[o].at = "lock"
      BY <1>4, <2>2, <1>t DEF StarterStep, StarterDies, Launch, Launched, LaunchFailed
    <3>3. restarts' = restarts
      BY <1>4 DEF StarterStep, StarterDies, Launch, LaunchFailed
    <3> QED BY <3>1, <3>2, <3>3, <1>k1 DEF Restarted, Keeps, At, Past
  <2> QED BY <2>1, <2>2
<1>5. ASSUME NEW p \in Operations, WorkerStep(p) \/ Fail(p) \/ WorkerDies(p), p # o PROVE Restarted(o)'
  <2>1. starters' = starters
    BY <1>5 DEF WorkerStep, AcquireInstallLock, Begin, Announce, Resolve, Verify, Scan, Copy, Install,
         Choose, Ask, RestartGateway, WaitForActivation, Relaunch, Fail, WorkerDies
  <2>2. workers'[o] = workers[o]
    BY <1>5, <1>t DEF WorkerStep, AcquireInstallLock, Begin, Announce, Resolve, Verify, Scan, Copy, Install,
         Choose, Ask, RestartGateway, WaitForActivation, Relaunch, Fail, WorkerDies, Goes, Launched
  <2>3. restarts'[o] = restarts[o]
    BY <1>5, <1>t DEF WorkerStep, AcquireInstallLock, Begin, Announce, Resolve, Verify, Scan, Copy, Install,
         Choose, Ask, RestartGateway, WaitForActivation, Relaunch, Fail, WorkerDies
  <2> QED BY <2>1, <2>2, <2>3, <1>k1, <1>k
<1>6. ASSUME WorkerStep(o) PROVE Restarted(o)'
  <2>1. CASE AcquireInstallLock(o)
    BY <2>1, <1>g, <1>k1, <1>p DEF AcquireInstallLock, At, Past
  <2>2. CASE Begin(o)
    <3>1. /\ operations' = operations /\ restarts' = restarts /\ workers[o].at = "begin"
          /\ workers'[o].at \in {"done", "resolving", "verify"}
          /\ operations[o].phase \in Terminal => workers'[o].at = "done"
      BY <2>2, <1>t DEF Begin, At
    <3> QED BY <3>1 DEF Restarted, At, Past
  <2>3. CASE Announce(o)
    <3>1. /\ workers[o].at \in DOMAIN Announcements /\ restarts' = restarts
          /\ workers'[o].at = Announcements[workers[o].at][2]
      BY <2>3, <1>g DEF Announce
    <3>2. workers[o].at # "none" /\ "none" # workers'[o].at
      BY <3>1 DEF Announcements
    <3> QED BY <3>1, <3>2, AnnouncedPhases, <1>k1, <1>p
  <2>4. CASE Resolve(o)
    <3>1. workers[o].at = "resolve" /\ workers'[o].at = "verify" /\ restarts' = restarts
      BY <2>4, <1>t DEF Resolve, At
    <3> QED BY <3>1, <1>k1, <1>p DEF Past
  <2>5. CASE Verify(o) \/ Scan(o) \/ Copy(o) \/ Install(o)
    <3>1. /\ workers[o].at \in {"verify", "scan", "copy", "install"} /\ restarts' = restarts
          /\ workers'[o].at \in {"done", "choose", "validate", "back_up", "announce", "confirm"}
      BY <2>5, <1>g DEF Verify, Scan, Copy, Install, At
    <3> QED BY <3>1, <1>k1, <1>p DEF Past
  <2>6. CASE Choose(o)
    <3>1. /\ workers[o].at = "choose" /\ restarts' = restarts /\ operations' = operations
          /\ workers'[o].at \in {"unasked", "observe", "ask"}
          /\ workers'[o].at = "ask" => o \in Restarting /\ ~operations[o].asked
      BY <2>6, <1>g DEF Choose, At
    <3> QED BY <3>1 DEF Restarted, At, Past
  <2>7. CASE Ask(o)
    <3>1. /\ workers[o].at = "ask" /\ restarts' = restarts /\ workers'[o].at = "restart"
          /\ operations'[o].asked \/ operations'[o].phase \in Terminal
      BY <2>7, <1>g, <1>t DEF Ask, At, Journal, Operation
    <3> QED BY <3>1, <1>k1 DEF Restarted, Keeps, At
  <2>8. CASE RestartGateway(o)
    <3>1. /\ workers[o].at = "restart" /\ restarts'[o] = restarts[o] + 1 /\ operations' = operations
          /\ workers'[o].at \in {"await", "observe"}
      BY <2>8, <1>g, <1>t DEF RestartGateway, At
    <3> QED BY <3>1 DEF Restarted, At, Past
  <2>9. CASE WaitForActivation(o)
    <3>1. workers[o].at = "wait" /\ workers'[o].at = "done" /\ restarts' = restarts
      BY <2>9, <1>g DEF WaitForActivation, At
    <3> QED BY <3>1, <1>k1, <1>p DEF Past
  <2>10. CASE Relaunch(o)
    <3>1. workers[o].at = "dead" /\ workers'[o].at = "lock" /\ restarts' = restarts
      BY <2>10, <1>t DEF Relaunch, Launched, At
    <3> QED BY <3>1, <1>k1, <1>p DEF Past
  <2> QED BY <1>6, <2>1, <2>2, <2>3, <2>4, <2>5, <2>6, <2>7, <2>8, <2>9, <2>10 DEF WorkerStep
<1>7. ASSUME Fail(o) \/ WorkerDies(o) PROVE Restarted(o)'
  <2>1. workers[o].at # "none" /\ workers'[o].at \in {"done", "dead"} /\ restarts' = restarts
    BY <1>7, <1>g DEF Fail, WorkerDies
  <2> QED BY <2>1, <1>k1, <1>p DEF Past
<1> QED BY <1>1, <1>2, <1>3, <1>4, <1>5, <1>6, <1>7 DEF Next

(* An operation restarts the gateway at most once, and only if it was asked *)
(* to, through deaths and relaunches of its worker.                         *)
THEOREM RestartsOnce == ASSUME UpdateAssumption PROVE Spec => []OneRestart
<1> DEFINE AllRestarted == \A o \in Operations : Restarted(o)
<1>1. Init => AllRestarted
  BY RestartedInit
<1>2. TypeOK /\ AllRestarted /\ [Next]_vars => AllRestarted'
  <2>1. ASSUME TypeOK, AllRestarted, Next PROVE AllRestarted'
    BY <2>1, RestartedStep
  <2>2. ASSUME AllRestarted, UNCHANGED vars PROVE AllRestarted'
    BY <2>2 DEF vars, Restarted, At
  <2> QED BY <2>1, <2>2
<1>3. TypeOK /\ AllRestarted => OneRestart
  <2> SUFFICES ASSUME TypeOK, AllRestarted, NEW o \in Operations
               PROVE  restarts[o] <= (IF o \in Restarting THEN 1 ELSE 0)
    BY DEF OneRestart
  <2>1. restarts[o] \in Nat /\ (restarts[o] # 0 => restarts[o] = 1 /\ o \in Restarting)
    BY DEF TypeOK, Restarted
  <2> QED BY <2>1
<1> QED BY <1>1, <1>2, <1>3, Typing, PTL DEF Spec

-----------------------------------------------------------------------------
(* Completion.                                                              *)
\* Gateways are only ever added, and only an adapter that connects changes the recorded runtime.
LEMMA GatewaysGrow ==
  ASSUME Next
  PROVE  /\ Load \/ gateways' = gateways
         /\ \/ runtime' = runtime
            \/ runtime' = [revision |-> gateways[Len(gateways)], id |-> Len(gateways)] /\ gateways' = gateways
<1>1. CASE RestartedByHost \/ Push \/ Edit
  BY <1>1 DEF RestartedByHost, Push, Edit
<1>2. CASE RecordRuntimeLoaded
  BY <1>2 DEF RecordRuntimeLoaded
<1>3. ASSUME NEW o \in Operations,
             Start(o) \/ Launch(o) \/ LaunchFailed(o) \/ StarterDies(o) \/ RecordLinkResponse(o) \/ Status(o)
      PROVE  gateways' = gateways /\ runtime' = runtime
  BY <1>3 DEF Start, Launch, LaunchFailed, StarterDies, RecordLinkResponse, Status
<1>4. ASSUME NEW o \in Operations,
             AcquireInstallLock(o) \/ Begin(o) \/ Announce(o) \/ Resolve(o) \/ Verify(o) \/ Scan(o)
      PROVE  gateways' = gateways /\ runtime' = runtime
  BY <1>4 DEF AcquireInstallLock, Begin, Announce, Resolve, Verify, Scan
<1>5. ASSUME NEW o \in Operations,
             Copy(o) \/ Install(o) \/ Choose(o) \/ Ask(o) \/ WaitForActivation(o) \/ Relaunch(o)
      PROVE  gateways' = gateways /\ runtime' = runtime
  BY <1>5 DEF Copy, Install, Choose, Ask, WaitForActivation, Relaunch
<1>6. ASSUME NEW o \in Operations, RestartGateway(o)
      PROVE  (Load \/ gateways' = gateways) /\ runtime' = runtime
  BY <1>6 DEF RestartGateway
<1>7. ASSUME NEW o \in Operations, Fail(o) \/ WorkerDies(o)
      PROVE  gateways' = gateways /\ runtime' = runtime
  BY <1>7 DEF Fail, WorkerDies
<1> QED BY <1>1, <1>2, <1>3, <1>4, <1>5, <1>6, <1>7 DEF Next, StarterStep, WorkerStep

LEMMA EvidenceStep ==
  ASSUME TypeOK, Next, RuntimeLoaded, \A o \in Operations : Evidence(o)
  PROVE  RuntimeLoaded' /\ \A o \in Operations : Evidence(o)'
<1>t. /\ operations \in [Operations -> Operation] /\ gateways \in Seq(Nat) /\ gateways # <<>>
      /\ runtime \in [revision : Nat, id : Nat] /\ runtime.id <= Len(gateways)
      /\ installed.revision \in Nat
  BY DEF TypeOK, Installation
<1>g. /\ DOMAIN gateways \subseteq DOMAIN gateways'
      /\ \A g \in DOMAIN gateways : gateways'[g] = gateways[g]
  <2>1. CASE Load
    BY <2>1, <1>t DEF Load
  <2>2. CASE gateways' = gateways
    BY <2>2
  <2>3. Load \/ gateways' = gateways
    BY GatewaysGrow
  <2> QED BY <2>1, <2>2, <2>3
<1>r. \/ runtime' = runtime
      \/ runtime' = [revision |-> gateways[Len(gateways)], id |-> Len(gateways)] /\ gateways' = gateways
  BY GatewaysGrow
<1>1. RuntimeLoaded' /\ runtime'.id \in Nat /\ runtime.id <= runtime'.id
  BY <1>t, <1>g, <1>r DEF RuntimeLoaded
<1>2. ASSUME NEW o \in Operations PROVE Evidence(o)'
  <2>t. operations[o] \in Operation /\ operations[o].started \in Nat
    BY <1>t DEF Operation
  <2>1. CASE Start(o)
    <3>1. operations'[o].phase = "launching" /\ operations'[o].started = runtime.id /\ runtime' = runtime
      BY <2>1, <1>t DEF Start, Journal
    <3> QED BY <3>1, <1>t DEF Evidence
  <2>2. CASE Keeps(o) /\ Completes(o)
    <3>1. operations'[o].started = operations[o].started /\ operations'[o].started <= runtime'.id
      BY <2>2, <2>t, <1>1, <1>t DEF Keeps, Evidence
    <3>2. CASE operations[o].phase = "complete"
      BY <3>1, <3>2, <2>2, <1>g DEF Keeps, Evidence, Terminal
    <3>3. CASE operations[o].phase # "complete" /\ operations'[o].phase = "complete"
      <4>1. /\ runtime.id # 0 /\ runtime.id # operations'[o].started
            /\ runtime.revision = operations'[o].target /\ gateways' = gateways
        BY <2>2, <3>3 DEF Completes
      <4>2. runtime.id \in DOMAIN gateways /\ gateways[runtime.id] = operations'[o].target
        BY <4>1, <1>t DEF RuntimeLoaded
      <4>3. runtime.id > operations'[o].started
        BY <4>1, <3>1, <2>t, <1>t DEF Evidence
      <4> QED BY <3>1, <4>1, <4>2, <4>3 DEF Evidence
    <3>4. CASE operations'[o].phase # "complete"
      BY <3>1, <3>4 DEF Evidence
    <3> QED BY <3>2, <3>3, <3>4
  <2> QED BY <2>1, <2>2, StepKeeps
<1> QED BY <1>1, <1>2

(* An operation is complete only once a gateway started since it began has  *)
(* loaded its target.                                                       *)
THEOREM CompletionIsActivation == ASSUME UpdateAssumption PROVE Spec => []CompleteIsActive
<1> DEFINE Inv == RuntimeLoaded /\ \A o \in Operations : Evidence(o)
<1>1. Init => Inv
  BY DEF Init, RuntimeLoaded, Evidence
<1>2. TypeOK /\ Inv /\ [Next]_vars => Inv'
  <2>1. ASSUME TypeOK, Inv, Next PROVE Inv'
    BY <2>1, EvidenceStep
  <2>2. ASSUME Inv, UNCHANGED vars PROVE Inv'
    BY <2>2 DEF vars, RuntimeLoaded, Evidence
  <2> QED BY <2>1, <2>2
<1>3. Inv => CompleteIsActive
  BY DEF CompleteIsActive, Evidence
<1> QED BY <1>1, <1>2, <1>3, Typing, PTL DEF Spec
-----------------------------------------------------------------------------
(* The installation.                                                        *)

(* Where a worker is before it has installed, and after.                    *)
Early == {"resolving", "resolve", "verify", "validate", "stage", "scan", "back_up", "copy",
          "announce", "install"}
Late  == {"confirm", "choose", "ask", "restart", "unasked", "await", "observe", "wait"}

(* Nothing was backed up and nothing was touched yet, or a copy is unbroken. *)
BackedUp ==
  edits = 0 =>
    \/ \E o \in Operations : backups[o].clean
    \/ /\ installed.clean
       /\ \A o \in Operations : backups[o] = NoBackup /\ workers[o].at \notin {"announce", "install"}

(* One worker holds the lock of the installation, one operation the journal. *)
Exclusive ==
  \A o, p \in Operations : workers[o].at \notin Idle /\ workers[p].at \notin Idle => o = p
OneInFlight == \A o, p \in Operations : InFlight(o) /\ InFlight(p) => o = p

(* A worker whose launch was reported as failed is an ambiguous launcher's.  *)
Launches(o) ==
  /\ operations[o].phase = "absent" => workers[o].at = "none" /\ starters[o] = "none"
  /\ starters[o] = "launching" => workers[o].at = "none"
  /\ starters[o] = "refused" /\ workers[o].at # "none" => Ambiguous

(* While a worker holds the lock, whoever else owns the journal has only     *)
(* been started.                                                             *)
Waits(o) ==
  workers[o].at \in Early \cup Late =>
    \A p \in Operations \ {o} : InFlight(p) => operations[p].phase = "launching"

(* An operation that waits to be seen active, or whose worker has installed, *)
(* has its target installed; before that it is neither ended nor observed,   *)
(* except for the worker that comes back to verify what it had installed,    *)
(* and the one whose launcher reported failure.                              *)
Placed(o) ==
  /\ operations[o].phase \in Observing => installed.revision = operations[o].target
  /\ workers[o].at \in Late /\ InFlight(o) => installed.revision = operations[o].target
  /\ workers[o].at \in (Early \cup Late) \ {"resolving", "resolve"} =>
       /\ workers[o].target # 0
       /\ InFlight(o) => workers[o].target = operations[o].target
  /\ workers[o].at \in Early =>
       \/ operations[o].phase \notin Terminal \cup Observing
       \/ Ambiguous /\ operations[o].phase = "blocked"
       \/ /\ workers[o].at = "verify" /\ operations[o].phase \in Observing \cup {"complete"}
          /\ installed.revision = workers[o].target

Guarded ==
  /\ BackedUp /\ Exclusive /\ OneInFlight /\ installed.revision # 0
  /\ \A o \in Operations : Launches(o) /\ Waits(o) /\ Placed(o)
(* The steps of one operation: its starter, its worker, its evidence.        *)
Acts(o) ==
  \/ Start(o) \/ StarterStep(o) \/ StarterDies(o) \/ RecordLinkResponse(o) \/ Status(o)
  \/ WorkerStep(o) \/ Fail(o) \/ WorkerDies(o)

(* Where each announcement leads.                                           *)
LEMMA AnnouncedPlaces ==
  ASSUME NEW a \in DOMAIN Announcements
  PROVE  LET phase == Announcements[a][1]
             next == Announcements[a][2]
         IN \/ a = "resolving" /\ phase = "resolving" /\ next = "resolve"
            \/ a = "validate" /\ phase = "validating_installation" /\ next = "stage"
            \/ a = "stage" /\ phase = "staging" /\ next = "scan"
            \/ a = "back_up" /\ phase = "backing_up" /\ next = "copy"
            \/ a = "announce" /\ phase = "installing" /\ next = "install"
            \/ a = "confirm" /\ phase = "installed" /\ next = "choose"
            \/ a = "unasked" /\ phase = "installed_restart_required" /\ next = "done"
            \/ a = "await" /\ phase = "awaiting_activation" /\ next = "wait"
            \/ a = "observe" /\ phase = "reconnecting" /\ next = "wait"
BY DEF Announcements

(* A step of one operation leaves the others' rows, workers and copies.      *)
LEMMA Bystanders ==
  ASSUME TypeOK, NEW o \in Operations, Acts(o), NEW p \in Operations \ {o}
  PROVE  /\ operations'[p] = operations[p] /\ workers'[p] = workers[p]
         /\ starters'[p] = starters[p] /\ backups'[p] = backups[p]
<1>t. /\ operations \in [Operations -> Operation] /\ workers \in [Operations -> Worker]
      /\ starters \in [Operations -> {"none", "launching", "refused", "done"}]
      /\ backups \in [Operations -> Installation]
  BY DEF TypeOK, Worker, Places
<1>1. CASE Start(o) \/ StarterStep(o) \/ StarterDies(o) \/ RecordLinkResponse(o) \/ Status(o)
  BY <1>1, <1>t DEF Start, StarterStep, StarterDies, RecordLinkResponse, Status, Launch, Launched,
       LaunchFailed, Journal
<1>2. CASE WorkerStep(o)
  BY <1>2, <1>t DEF WorkerStep, AcquireInstallLock, Begin, Announce, Resolve, Verify, Scan, Copy,
       Install, Choose, Ask, RestartGateway, WaitForActivation, Relaunch, Goes, Launched, Journal
<1>3. CASE Fail(o) \/ WorkerDies(o)
  BY <1>3, <1>t DEF Fail, WorkerDies, Goes, Journal
<1> QED BY <1>1, <1>2, <1>3 DEF Acts

(* Only the worker at its installation changes the installation.            *)
LEMMA Installs ==
  ASSUME TypeOK, NEW o \in Operations, Acts(o)
  PROVE  \/ installed' = installed
         \/ /\ At(o, "install") /\ workers'[o].at \in {"confirm", "done", "dead"}
            /\ installed'.revision \in {installed.revision, workers[o].target}
<1>t. workers \in [Operations -> Worker] /\ installed \in Installation
  BY DEF TypeOK, Worker, Places
<1>1. CASE Install(o)
  BY <1>1, <1>t DEF Install, At, Goes
<1>2. CASE Fail(o) \/ WorkerDies(o)
  <2>1. workers'[o].at \in {"done", "dead"} /\ CutShort(o)
    BY <1>2, <1>t DEF Fail, WorkerDies, Goes
  <2>2. CASE At(o, "install")
    <3>1. \/ installed' = installed
          \/ installed' \in [revision : {installed.revision, workers[o].target}, clean : {FALSE}]
      BY <2>1, <2>2 DEF CutShort
    <3> QED BY <2>1, <2>2, <3>1
  <2>3. CASE ~At(o, "install")
    BY <2>1, <2>3 DEF CutShort
  <2> QED BY <2>2, <2>3
<1>3. CASE ~Install(o) /\ ~Fail(o) /\ ~WorkerDies(o)
  BY <1>3 DEF Acts, Start, StarterStep, StarterDies, RecordLinkResponse, Status, Launch, LaunchFailed,
       WorkerStep, AcquireInstallLock, Begin, Announce, Resolve, Verify, Scan, Copy, Choose, Ask,
       RestartGateway, WaitForActivation, Relaunch
<1> QED BY <1>1, <1>2, <1>3

(* A worker takes the lock only when nobody has it.                         *)
LEMMA LockTaken ==
  ASSUME TypeOK, NEW o \in Operations, Acts(o), workers[o].at \in Idle, workers'[o].at \notin Idle
  PROVE  AcquireInstallLock(o) /\ \A p \in Operations : workers[p].at \in Idle
<1>t. workers \in [Operations -> Worker]
  BY DEF TypeOK, Worker, Places
<1>1. workers'[o] # workers[o]
  OBVIOUS
<1>2. ~(Start(o) \/ StarterDies(o) \/ RecordLinkResponse(o) \/ Status(o) \/ LaunchFailed(o))
  BY <1>1 DEF Start, StarterDies, RecordLinkResponse, Status, LaunchFailed
<1>3. ~(Launch(o) \/ Relaunch(o) \/ Fail(o) \/ WorkerDies(o))
  BY <1>1, <1>t DEF Launch, Launched, Relaunch, Fail, WorkerDies, Goes, Idle
<1>4. ~(Begin(o) \/ Resolve(o) \/ Verify(o) \/ Scan(o) \/ Copy(o) \/ Install(o) \/ Choose(o) \/ Ask(o)
          \/ RestartGateway(o) \/ WaitForActivation(o))
  BY DEF Begin, Resolve, Verify, Scan, Copy, Install, Choose, Ask, RestartGateway,
         WaitForActivation, At, Idle
<1>5. ~Announce(o)
  BY AnnouncedPlaces DEF Announce, Idle
<1>6. AcquireInstallLock(o)
  BY <1>2, <1>3, <1>4, <1>5 DEF Acts, StarterStep, WorkerStep
<1> QED BY <1>6, <1>t DEF AcquireInstallLock, Goes, Idle

-----------------------------------------------------------------------------
(* Each part of Guarded, for the operation that acts.                       *)
LEMMA LaunchesStep ==
  ASSUME TypeOK, Next, NEW o \in Operations, Acts(o), Launches(o)
  PROVE  Launches(o)'
<1>t. /\ operations \in [Operations -> Operation] /\ workers \in [Operations -> Worker]
      /\ starters \in [Operations -> {"none", "launching", "refused", "done"}]
  BY DEF TypeOK, Worker, Places
<1>1. CASE Start(o)
  BY <1>1, <1>t DEF Start, Journal, Launches
<1>2. CASE ~Start(o)
  <2>k. operations'[o].phase = "absent" => operations[o].phase = "absent"
    BY <1>2, StepKeeps DEF Keeps
  <2>1. CASE StarterStep(o) \/ StarterDies(o)
    BY <2>1, <2>k, <1>t DEF StarterStep, StarterDies, Launch, Launched, LaunchFailed, Launches
  <2>2. CASE RecordLinkResponse(o) \/ Status(o)
    BY <2>2, <2>k DEF RecordLinkResponse, Status, Launches
  <2>3. CASE WorkerStep(o) \/ Fail(o) \/ WorkerDies(o)
    <3>1. starters' = starters
      BY <2>3 DEF WorkerStep, AcquireInstallLock, Begin, Announce, Resolve, Verify, Scan, Copy, Install,
           Choose, Ask, RestartGateway, WaitForActivation, Relaunch, Fail, WorkerDies
    <3>2. workers[o].at # "none"
      BY <2>3 DEF WorkerStep, AcquireInstallLock, Begin, Announce, Resolve, Verify, Scan, Copy, Install,
           Choose, Ask, RestartGateway, WaitForActivation, Relaunch, Fail, WorkerDies, At, Announcements
    <3> QED BY <3>1, <3>2, <2>k DEF Launches
  <2> QED BY <1>2, <2>1, <2>2, <2>3 DEF Acts
<1> QED BY <1>1, <1>2

(* The rows of evidence and of the starter.                                 *)
LEMMA PlacedByOthers ==
  ASSUME TypeOK, NEW o \in Operations, Placed(o), Launches(o),
         Start(o) \/ StarterStep(o) \/ StarterDies(o) \/ RecordLinkResponse(o) \/ Status(o)
  PROVE  Placed(o)'
<1>t. /\ operations \in [Operations -> Operation] /\ workers \in [Operations -> Worker]
      /\ starters \in [Operations -> {"none", "launching", "refused", "done"}]
      /\ operations[o] \in Operation
  BY DEF TypeOK, Worker, Places
<1>1. CASE Start(o)
  <2>1. operations'[o].phase = "launching" /\ UNCHANGED <<workers, installed>> /\ workers[o].at = "none"
    BY <1>1, <1>t DEF Start, Journal, Launches
  <2> QED BY <2>1 DEF Placed, Early, Late, Observing
<1>2. CASE Launch(o)
  <2>1. UNCHANGED <<operations, installed>>
    BY <1>2 DEF Launch
  <2>2. workers' = workers \/ workers'[o].at = "lock"
    BY <1>2, <1>t DEF Launch, Launched
  <2> QED BY <2>1, <2>2 DEF Placed, Early, Late, InFlight
<1>3. CASE LaunchFailed(o)
  <2>1. UNCHANGED <<workers, installed>> /\ starters[o] = "refused"
    BY <1>3 DEF LaunchFailed
  <2>2. \/ operations'[o] = operations[o]
        \/ operations'[o].phase = "blocked" /\ operations'[o].target = operations[o].target
    BY <1>3, <1>t DEF LaunchFailed, Journal, Operation
  <2>3. workers[o].at \in Early => Ambiguous
    BY <2>1 DEF Launches, Early
  <2> QED BY <2>1, <2>2, <2>3 DEF Placed, InFlight, Observing, Terminal
<1>4. CASE StarterDies(o)
  BY <1>4 DEF StarterDies, Placed, InFlight
<1>5. CASE RecordLinkResponse(o) \/ Status(o)
  <2>1. UNCHANGED <<workers, installed>>
    BY <1>5 DEF RecordLinkResponse, Status
  <2>2. /\ operations'[o].target = operations[o].target
        /\ \/ operations'[o].phase = operations[o].phase
           \/ operations[o].phase \in Observing /\ operations'[o].phase = "complete"
    <3>1. PICK op \in {operations[o], [operations[o] EXCEPT !.link = runtime.id]} :
            operations' = [operations EXCEPT ![o] = Reconciled(op)]
      BY <1>5 DEF RecordLinkResponse, Status, Journal
    <3>2. op.target = operations[o].target /\ op.phase = operations[o].phase /\ op \in Operation
      <4>1. operations[o].phase \in Phases /\ runtime.id \in Nat
        BY <1>t DEF TypeOK, Operation, Phases
      <4>2. [operations[o] EXCEPT !.link = runtime.id] \in Operation
        BY <4>1, <1>t, OperationUpdates
      <4> QED BY <4>2, <1>t DEF Operation
    <3>3. operations'[o] = Reconciled(op)
      BY <3>1, <1>t
    <3> QED BY <3>2, <3>3 DEF Reconciled, Operation
  <2> QED BY <2>1, <2>2 DEF Placed, InFlight, Observing, Terminal, Early
<1> QED BY <1>1, <1>2, <1>3, <1>4, <1>5 DEF StarterStep

(* The worker's own steps.                                                  *)
LEMMA PlacedByWorker ==
  ASSUME TypeOK, NEW o \in Operations, Placed(o), Launches(o), installed.revision # 0,
         WorkerStep(o) \/ Fail(o) \/ WorkerDies(o)
  PROVE  Placed(o)'
<1>t. /\ operations \in [Operations -> Operation] /\ workers \in [Operations -> Worker]
      /\ installed \in Installation /\ head \in Nat \ {0}
      /\ operations[o] \in Operation /\ workers[o] \in Worker
  BY DEF TypeOK, Worker, Places
<1>g. ASSUME NEW place, Goes(o, place)
      PROVE  workers'[o].at = place /\ workers'[o].target = workers[o].target
  BY <1>g, <1>t DEF Goes
<1>j. ASSUME NEW op, Journal(o, op) PROVE operations'[o] = op
  BY <1>j, <1>t DEF Journal
<1>m. ASSUME NEW phase \in Phases
      PROVE  /\ Moved(o, phase).target = operations[o].target
             /\ Moved(o, phase).phase = IF operations[o].phase \in Terminal THEN operations[o].phase ELSE phase
  BY <1>t DEF Moved, Operation
<1>r. LET seen == Reconciled(operations[o]) IN
      /\ seen.target = operations[o].target
      /\ \/ seen.phase = operations[o].phase
         \/ operations[o].phase \in Observing /\ seen.phase = "complete"
  BY <1>t DEF Reconciled, Operation
\* A worker that is out: nothing but the row's own evidence is asked of it.
<1>o. ASSUME workers'[o].at \notin Early \cup Late, installed' = installed,
             \/ operations'[o].phase \notin Observing
             \/ operations[o].phase \in Observing /\ operations'[o].target = operations[o].target
      PROVE  Placed(o)'
  BY <1>o DEF Placed
<1>1. CASE AcquireInstallLock(o)
  <2>1. installed' = installed /\ workers'[o].at \in {"begin", "done"}
    BY <1>1, <1>g DEF AcquireInstallLock
  <2>2. operations' = operations \/ Journal(o, Moved(o, "blocked"))
    BY <1>1 DEF AcquireInstallLock
  <2>3. \/ operations'[o].phase \notin Observing
        \/ operations[o].phase \in Observing /\ operations'[o].target = operations[o].target
    BY <2>2, <1>j, <1>m DEF Phases, Terminal, Observing
  <2> QED BY <2>1, <2>3, <1>o DEF Early, Late
<1>2. CASE Begin(o)
  <2>1. /\ UNCHANGED <<operations, installed>> /\ workers'[o].target = operations[o].target
        /\ workers'[o].at = IF operations[o].phase \in Terminal THEN "done"
                            ELSE IF operations[o].target = 0 THEN "resolving" ELSE "verify"
    BY <1>2, <1>t DEF Begin
  <2>2. CASE operations[o].phase \in Terminal
    BY <2>1, <2>2, <1>o DEF Early, Late
  <2>3. CASE operations[o].phase \notin Terminal
    BY <2>1, <2>3 DEF Placed, Early, Late, Observing, Terminal, InFlight
  <2> QED BY <2>2, <2>3
<1>3. CASE Announce(o)
  <2> DEFINE a == workers[o].at
  <2>1. /\ installed' = installed /\ a \in DOMAIN Announcements
        /\ workers'[o].at = Announcements[a][2] /\ workers'[o].target = workers[o].target
        /\ operations'[o] = Moved(o, Announcements[a][1])
    BY <1>3, <1>g, <1>j DEF Announce
  <2>2. Announcements[a][1] \in Phases
    BY <2>1, AnnouncedPhases
  <2>3. /\ operations'[o].target = operations[o].target
        /\ operations'[o].phase = IF operations[o].phase \in Terminal THEN operations[o].phase
                                  ELSE Announcements[a][1]
    BY <2>1, <2>2, <1>m
  <2>4. CASE operations[o].phase \in Terminal
    BY <2>1, <2>3, <2>4, AnnouncedPlaces DEF Placed, Early, Late, Observing, Terminal, InFlight
  <2>5. CASE operations[o].phase \notin Terminal
    <3>1. InFlight(o)
      BY <2>1, <2>5, AnnouncedPlaces DEF InFlight, Launches
    <3> QED BY <2>1, <2>3, <2>5, <3>1, AnnouncedPlaces DEF Placed, Early, Late, Observing, Terminal, InFlight
  <2> QED BY <2>4, <2>5
<1>4. CASE Resolve(o)
  <2>1. /\ installed' = installed /\ workers[o].at = "resolve"
        /\ workers'[o].at = "verify" /\ workers'[o].target = head
        /\ IF operations[o].phase \in Terminal THEN operations'[o] = operations[o]
           ELSE operations'[o].phase = "resolved" /\ operations'[o].target = head
    BY <1>4, <1>t, <1>j DEF Resolve, At, Operation
  <2>2. head # 0
    BY <1>t
  <2> QED BY <2>1, <2>2 DEF Placed, Early, Late, Observing, Terminal, InFlight
<1>5. CASE Verify(o)
  <2>1. workers[o].at = "verify" /\ installed' = installed
    BY <1>5 DEF Verify, At
  <2>2. CASE workers'[o].at = "done"
    <3>1. \/ operations'[o] = Moved(o, "blocked") \/ operations'[o] = Moved(o, "up_to_date")
          \/ operations'[o] = Reconciled(operations[o]) /\ operations'[o].phase = "complete"
      BY <1>5, <1>g, <1>j, <2>2 DEF Verify
    <3>2. operations'[o].phase \notin Observing
      BY <3>1, <1>m DEF Phases, Terminal, Observing
    <3> QED BY <2>1, <2>2, <3>2, <1>o DEF Early, Late
  <2>3. CASE workers'[o].at # "done"
    <3>1. /\ operations'[o] = Reconciled(operations[o]) /\ workers'[o].target = workers[o].target
          /\ workers'[o].at = IF installed.revision = workers[o].target THEN "choose" ELSE "validate"
      BY <1>5, <1>g, <1>j, <2>3 DEF Verify
    <3>2. CASE installed.revision = workers[o].target
      BY <2>1, <3>1, <3>2, <1>r DEF Placed, Early, Late, Observing, Terminal, InFlight
    <3>3. CASE installed.revision # workers[o].target
      BY <2>1, <3>1, <3>3, <1>r DEF Placed, Early, Late, Observing, Terminal, InFlight
    <3> QED BY <3>2, <3>3
  <2> QED BY <2>2, <2>3
<1>6. CASE Scan(o) \/ Copy(o)
  <2>1. /\ UNCHANGED <<operations, installed>> /\ workers'[o].target = workers[o].target
        /\ workers[o].at \in {"scan", "copy"} /\ workers'[o].at \in {"back_up", "announce"}
    BY <1>6, <1>g DEF Scan, Copy, At
  <2> QED BY <2>1 DEF Placed, Early, Late, InFlight
<1>7. CASE Install(o)
  <2>1. /\ operations' = operations /\ installed'.revision = workers[o].target
        /\ workers'[o].target = workers[o].target
        /\ workers[o].at = "install" /\ workers'[o].at = "confirm"
    BY <1>7, <1>g DEF Install, At
  <2> QED BY <2>1 DEF Placed, Early, Late, InFlight, Observing, Terminal
<1>8. CASE Choose(o)
  <2>1. /\ UNCHANGED <<operations, installed>> /\ workers'[o].target = workers[o].target
        /\ workers[o].at = "choose" /\ workers'[o].at \in {"unasked", "observe", "ask"}
    BY <1>8, <1>g DEF Choose, At
  <2> QED BY <2>1 DEF Placed, Early, Late, InFlight
<1>9. CASE Ask(o)
  <2>1. /\ installed' = installed /\ workers'[o].target = workers[o].target
        /\ workers[o].at = "ask" /\ workers'[o].at = "restart"
        /\ IF operations[o].phase \in Terminal THEN operations'[o] = operations[o]
           ELSE operations'[o].phase = "restart_requested" /\ operations'[o].target = operations[o].target
    BY <1>9, <1>t, <1>g, <1>j DEF Ask, At, Operation
  <2>2. operations[o].phase \notin Terminal => InFlight(o)
    BY <2>1 DEF InFlight, Launches
  <2> QED BY <2>1, <2>2 DEF Placed, Early, Late, Observing, Terminal, InFlight
<1>10. CASE RestartGateway(o)
  <2>1. /\ UNCHANGED <<operations, installed>> /\ workers'[o].target = workers[o].target
        /\ workers[o].at = "restart" /\ workers'[o].at \in {"await", "observe"}
    BY <1>10, <1>g DEF RestartGateway, At
  <2> QED BY <2>1 DEF Placed, Early, Late, InFlight
<1>11. CASE WaitForActivation(o)
  <2>1. installed' = installed /\ workers[o].at = "wait" /\ workers'[o].at = "done"
    BY <1>11, <1>g DEF WaitForActivation, At
  <2>2. operations'[o] = Moved(o, "timed_out") \/ operations'[o].phase = "complete"
    BY <1>11, <1>j DEF WaitForActivation
  <2>3. "timed_out" \in Phases
    BY DEF Phases, Observing
  <2>4. operations[o].phase \notin Terminal => InFlight(o)
    BY <2>1 DEF InFlight, Launches
  <2> QED BY <2>1, <2>2, <2>3, <2>4, <1>m DEF Placed, Early, Late, Observing, Terminal, InFlight
<1>12. CASE Relaunch(o)
  <2>1. UNCHANGED <<operations, installed>> /\ workers'[o].at = "lock"
    BY <1>12, <1>t DEF Relaunch, Launched
  <2> QED BY <2>1 DEF Placed, Early, Late
<1>13. CASE Fail(o) \/ WorkerDies(o)
  <2>1. workers'[o].at \in {"done", "dead"} /\ CutShort(o)
    BY <1>13, <1>g DEF Fail, WorkerDies
  <2>2. \/ operations'[o] = operations[o]
        \/ operations'[o] = Moved(o, "blocked") \/ operations'[o] = Moved(o, "failed")
    BY <1>13, <1>j DEF Fail, WorkerDies
  <2>3. /\ operations'[o].target = operations[o].target
        /\ operations'[o].phase \in Observing => operations[o].phase \in Observing
    BY <2>2, <1>m DEF Phases, Terminal, Observing
  <2>4. CASE At(o, "install")
    <3>1. operations'[o].phase \notin Observing
      BY <2>3, <2>4 DEF Placed, Early, At, Observing, Terminal
    <3> QED BY <2>1, <3>1 DEF Placed, Early, Late
  <2>5. CASE ~At(o, "install")
    <3>1. installed' = installed
      BY <2>1, <2>5 DEF CutShort
    <3> QED BY <2>1, <2>3, <3>1, <1>o DEF Early, Late
  <2> QED BY <2>4, <2>5
<1> QED BY <1>1, <1>2, <1>3, <1>4, <1>5, <1>6, <1>7, <1>8, <1>9, <1>10, <1>11, <1>12, <1>13
        DEF WorkerStep
(* An operation is in flight after a step if it was, or has been started.    *)
LEMMA FlightBegins ==
  ASSUME TypeOK, Next, NEW o \in Operations, Launches(o), InFlight(o)'
  PROVE  InFlight(o) \/ Start(o)
<1>1. CASE operations[o].phase # "absent"
  BY <1>1, StepKeeps DEF Keeps, InFlight
<1>2. CASE operations[o].phase = "absent"
  <2> SUFFICES ASSUME ~Start(o) PROVE operations'[o].phase = "absent"
    BY DEF InFlight
  <2>1. workers[o].at = "none" /\ starters[o] = "none"
    BY <1>2 DEF Launches
  <2>2. CASE RestartedByHost \/ RecordRuntimeLoaded \/ Push \/ Edit
    BY <1>2, <2>2 DEF RestartedByHost, RecordRuntimeLoaded, Push, Edit
  <2>3. CASE \E p \in Operations \ {o} : Acts(p)
    BY <1>2, <2>3, Bystanders
  <2>4. ~(StarterStep(o) \/ StarterDies(o) \/ RecordLinkResponse(o))
    BY <1>2, <2>1 DEF StarterStep, Launch, LaunchFailed, StarterDies, RecordLinkResponse
  <2>5. ~(WorkerStep(o) \/ Fail(o) \/ WorkerDies(o))
    BY <2>1 DEF WorkerStep, AcquireInstallLock, Begin, Announce, Resolve, Verify, Scan, Copy, Install,
         Choose, Ask, RestartGateway, WaitForActivation, Relaunch, Fail, WorkerDies, At, Announcements
  <2>6. CASE Status(o)
    BY <1>2, <2>6 DEF Status, Journal, Reconciled, Observing, TypeOK
  <2> QED BY <2>2, <2>3, <2>4, <2>5, <2>6 DEF Next, Acts
<1> QED BY <1>1, <1>2

LEMMA OneInFlightStep ==
  ASSUME TypeOK, Next, OneInFlight, \A o \in Operations : Launches(o)
  PROVE  OneInFlight'
<1> SUFFICES ASSUME NEW o \in Operations, NEW p \in Operations, InFlight(o)', InFlight(p)', o # p
             PROVE  FALSE
  BY DEF OneInFlight
<1>1. InFlight(o) \/ Start(o)
  BY FlightBegins
<1>2. InFlight(p) \/ Start(p)
  BY FlightBegins
<1>3. ASSUME NEW q \in Operations, NEW r \in Operations, q # r, Start(q), InFlight(r)' PROVE FALSE
  <2>1. Acts(q) /\ ~InFlight(r)
    BY <1>3 DEF Start, Acts
  <2> QED BY <1>3, <2>1, Bystanders DEF InFlight
<1> QED BY <1>1, <1>2, <1>3 DEF OneInFlight

LEMMA ExclusiveStep ==
  ASSUME TypeOK, NEW o \in Operations, Acts(o), Exclusive
  PROVE  Exclusive'
<1>1. \A p \in Operations \ {o} : workers'[p] = workers[p]
  BY Bystanders
<1>2. CASE workers'[o].at \in Idle \/ workers[o].at \notin Idle
  BY <1>1, <1>2 DEF Exclusive
<1>3. CASE workers'[o].at \notin Idle /\ workers[o].at \in Idle
  BY <1>1, <1>3, LockTaken DEF Exclusive
<1> QED BY <1>2, <1>3

(* An operation whose worker is out stays where it was started, or ends.     *)
LEMMA OnlyStarted ==
  ASSUME TypeOK, Next, NEW o \in Operations, Acts(o), Launches(o), workers[o].at \in Idle,
         ~(\A p \in Operations : workers[p].at \in Idle),
         InFlight(o) => operations[o].phase = "launching", InFlight(o)'
  PROVE  operations'[o].phase = "launching"
<1>t. /\ operations \in [Operations -> Operation] /\ operations[o] \in Operation
      /\ workers \in [Operations -> Worker]
  BY DEF TypeOK, Worker, Places
<1>j. ASSUME NEW op, Journal(o, op) PROVE operations'[o] = op
  BY <1>j, <1>t DEF Journal
<1>1. CASE Start(o)
  BY <1>1, <1>j DEF Start
<1> SUFFICES ASSUME ~Start(o) PROVE operations'[o].phase = "launching"
  BY <1>1
<1>2. operations[o].phase = "launching"
  BY FlightBegins
<1>3. CASE RecordLinkResponse(o) \/ Status(o)
  <2>1. PICK op \in {operations[o], [operations[o] EXCEPT !.link = runtime.id]} :
          operations'[o] = Reconciled(op)
    BY <1>3, <1>j DEF RecordLinkResponse, Status
  <2>2. op.phase = "launching"
    BY <1>2, <1>t DEF Operation
  <2> QED BY <2>1, <2>2 DEF Reconciled, Observing
<1>4. CASE StarterStep(o) \/ StarterDies(o) \/ Relaunch(o)
  <2>1. operations'[o] = operations[o] \/ operations'[o] = [operations[o] EXCEPT !.phase = "blocked"]
    BY <1>4, <1>j, <1>t DEF StarterStep, StarterDies, Relaunch, Launch, LaunchFailed
  <2>2. [operations[o] EXCEPT !.phase = "blocked"].phase = "blocked"
    BY <1>t DEF Operation
  <2> QED BY <1>2, <2>1, <2>2 DEF InFlight, Terminal
<1>5. CASE AcquireInstallLock(o)
  <2>1. operations'[o] = Moved(o, "blocked")
    BY <1>5, <1>j DEF AcquireInstallLock
  <2>2. Moved(o, "blocked").phase = "blocked"
    BY <1>2, <1>t DEF Moved, Operation, Terminal
  <2> QED BY <2>1, <2>2 DEF InFlight, Terminal
<1>6. CASE WorkerDies(o)
  <2>1. workers[o].at = "lock" /\ operations' = operations
    BY <1>6 DEF WorkerDies, Idle
  <2> QED BY <1>2, <2>1
<1>7. CASE Begin(o) \/ Scan(o) \/ Copy(o) \/ Install(o) \/ Choose(o) \/ RestartGateway(o)
  BY <1>2, <1>7 DEF Begin, Scan, Copy, Install, Choose, RestartGateway
<1>8. ~(Resolve(o) \/ Verify(o) \/ Ask(o) \/ WaitForActivation(o) \/ Fail(o))
  BY DEF Resolve, Verify, Ask, WaitForActivation, Fail, At, Idle
<1>9. ~Announce(o)
  BY AnnouncedPlaces DEF Announce, Idle
<1> QED BY <1>3, <1>4, <1>5, <1>6, <1>7, <1>8, <1>9 DEF Acts, WorkerStep

LEMMA WaitsStep ==
  ASSUME TypeOK, Next, Guarded, NEW o \in Operations, Acts(o), NEW p \in Operations
  PROVE  Waits(p)'
<1> USE DEF Guarded
<1>1. \A q \in Operations \ {o} : operations'[q] = operations[q] /\ workers'[q] = workers[q]
  BY Bystanders
<1>2. Early \cup Late \subseteq Places \ (Idle \cup {"begin"})
  BY DEF Early, Late, Idle, Places, Announcements
<1>3. CASE p # o
  <2> SUFFICES ASSUME workers[p].at \in Early \cup Late, NEW q \in Operations \ {p}, InFlight(q)'
               PROVE  operations'[q].phase = "launching"
    BY <1>1, <1>3 DEF Waits
  <2>1. InFlight(q) => operations[q].phase = "launching"
    BY DEF Waits
  <2>2. CASE q # o
    BY <1>1, <2>1, <2>2 DEF InFlight
  <2>3. CASE q = o
    <3>1. workers[p].at \notin Idle /\ workers[o].at \in Idle
      BY <1>2, <1>3 DEF Exclusive
    <3> QED BY <2>1, <2>3, <3>1, OnlyStarted
  <2> QED BY <2>2, <2>3
<1>4. CASE p = o /\ workers[o].at \in Early \cup Late
  BY <1>1, <1>4 DEF Waits, InFlight
<1>5. CASE p = o /\ workers[o].at \notin Early \cup Late
  <2> SUFFICES ASSUME workers'[o].at \in Early \cup Late, NEW q \in Operations \ {o}, InFlight(q)
               PROVE  FALSE
    BY <1>1, <1>5 DEF Waits, InFlight
  <2>t. workers \in [Operations -> Worker]
    BY DEF TypeOK, Worker, Places
  <2>1. CASE Begin(o)
    <3>1. operations[o].phase \notin Terminal
      <4>1. CASE operations[o].phase \in Terminal
        BY <2>1, <2>t, <4>1 DEF Begin, Early, Late
      <4> QED BY <4>1
    <3>2. operations[o].phase # "absent"
      BY <2>1 DEF Begin, At, Launches
    <3> QED BY <3>1, <3>2 DEF OneInFlight, InFlight
  <2>2. CASE ~Begin(o)
    <3>1. workers'[o] # workers[o]
      BY <1>5
    <3>2. ~(Start(o) \/ StarterDies(o) \/ RecordLinkResponse(o) \/ Status(o) \/ LaunchFailed(o))
      BY <3>1 DEF Start, StarterDies, RecordLinkResponse, Status, LaunchFailed
    <3>3. ~(Launch(o) \/ Relaunch(o) \/ Fail(o) \/ WorkerDies(o) \/ AcquireInstallLock(o))
      BY <2>t, <3>1 DEF Launch, Launched, Relaunch, Fail, WorkerDies, AcquireInstallLock, Goes, Early, Late
    <3>4. ~(Resolve(o) \/ Verify(o) \/ Scan(o) \/ Copy(o) \/ Install(o) \/ Choose(o) \/ Ask(o)
              \/ RestartGateway(o) \/ WaitForActivation(o))
      BY <1>5 DEF Resolve, Verify, Scan, Copy, Install, Choose, Ask, RestartGateway,
             WaitForActivation, At, Early, Late
    <3>5. ~Announce(o)
      BY <1>5, AnnouncedPlaces DEF Announce, Early, Late
    <3> QED BY <2>2, <3>2, <3>3, <3>4, <3>5 DEF Acts, StarterStep, WorkerStep
  <2> QED BY <2>1, <2>2
<1> QED BY <1>3, <1>4, <1>5

(* Whoever else installs, a bystander neither waits to be observed nor holds *)
(* the lock.                                                                 *)
LEMMA PlacedStep ==
  ASSUME TypeOK, Next, Guarded, NEW o \in Operations, Acts(o), NEW p \in Operations
  PROVE  Placed(p)'
<1> USE DEF Guarded
<1>1. CASE p = o
  BY <1>1, PlacedByOthers, PlacedByWorker DEF Acts
<1>2. CASE p # o
  <2>1. operations'[p] = operations[p] /\ workers'[p] = workers[p]
    BY <1>2, Bystanders
  <2>2. CASE installed' = installed
    BY <2>1, <2>2 DEF Placed, InFlight
  <2>3. CASE At(o, "install")
    <3>1. workers[p].at \in Idle
      BY <1>2, <2>3 DEF Exclusive, At, Idle
    <3>2. operations[p].phase \notin Observing
      BY <1>2, <2>3 DEF Waits, At, Early, InFlight, Observing, Terminal
    <3>3. workers[p].at \notin Early \cup Late
      BY <3>1 DEF Early, Late, Idle
    <3> QED BY <2>1, <3>2, <3>3 DEF Placed
  <2> QED BY <2>2, <2>3, Installs
<1> QED BY <1>1, <1>2

(* Every installation is behind a copy, and a copy is never replaced.        *)
LEMMA BackedUpStep ==
  ASSUME TypeOK, NEW o \in Operations, Acts(o), BackedUp, UNCHANGED edits
  PROVE  BackedUp'
<1>t. /\ workers \in [Operations -> Worker] /\ backups \in [Operations -> Installation]
      /\ installed \in Installation
  BY DEF TypeOK, Worker, Places
<1>b. \A p \in Operations \ {o} : backups'[p] = backups[p] /\ workers'[p] = workers[p]
  BY Bystanders
<1> SUFFICES ASSUME edits = 0
             PROVE  \/ \E p \in Operations : backups'[p].clean
                    \/ /\ installed'.clean
                       /\ \A p \in Operations :
                            backups'[p] = NoBackup /\ workers'[p].at \notin {"announce", "install"}
  BY DEF BackedUp
<1>1. CASE Copy(o)
  <2>1. /\ installed' = installed
        /\ backups' = IF backups[o] = NoBackup THEN [backups EXCEPT ![o] = installed] ELSE backups
    BY <1>1 DEF Copy
  <2>2. CASE \E p \in Operations : backups[p].clean
    BY <1>t, <2>1, <2>2 DEF NoBackup
  <2>3. CASE installed.clean /\ backups[o] = NoBackup
    BY <1>t, <2>1, <2>3
  <2> QED BY <2>2, <2>3 DEF BackedUp
<1>2. CASE ~Copy(o)
  <2>1. backups' = backups
    BY <1>2 DEF Acts, Start, StarterStep, StarterDies, RecordLinkResponse, Status, Launch, LaunchFailed,
         WorkerStep, AcquireInstallLock, Begin, Announce, Resolve, Verify, Scan, Install, Choose, Ask,
         RestartGateway, WaitForActivation, Relaunch, Fail, WorkerDies
  <2>2. CASE \E p \in Operations : backups[p].clean
    BY <2>1, <2>2
  <2>3. CASE /\ installed.clean
             /\ \A p \in Operations :
                  backups[p] = NoBackup /\ workers[p].at \notin {"announce", "install"}
    <3>1. installed' = installed
      BY <2>3, Installs DEF At
    <3>2. workers'[o].at \notin {"announce", "install"}
      <4>1. CASE Start(o) \/ StarterStep(o) \/ StarterDies(o) \/ RecordLinkResponse(o) \/ Status(o)
        BY <1>t, <2>3, <4>1 DEF Start, StarterStep, StarterDies, RecordLinkResponse, Status, Launch,
             Launched, LaunchFailed
      <4>2. CASE Announce(o)
        BY <1>t, <2>3, <4>2, AnnouncedPlaces DEF Announce, Goes
      <4>3. CASE WorkerStep(o) /\ ~Announce(o)
        BY <1>2, <1>t, <4>3 DEF WorkerStep, AcquireInstallLock, Begin, Resolve, Verify, Scan,
             Install, Choose, Ask, RestartGateway, WaitForActivation, Relaunch, Launched, Goes
      <4>4. CASE Fail(o) \/ WorkerDies(o)
        BY <1>t, <4>4 DEF Fail, WorkerDies, Goes
      <4> QED BY <4>1, <4>2, <4>3, <4>4 DEF Acts
    <3> QED BY <1>b, <2>1, <2>3, <3>1, <3>2
  <2> QED BY <2>2, <2>3 DEF BackedUp
<1> QED BY <1>1, <1>2

LEMMA GuardedStep ==
  ASSUME TypeOK, TypeOK', Guarded, Next
  PROVE  Guarded'
<1>1. CASE RestartedByHost \/ RecordRuntimeLoaded \/ Push \/ Edit
  <2>1. /\ UNCHANGED <<operations, workers, starters, backups>> /\ installed'.revision = installed.revision
        /\ \/ installed' = installed /\ edits' = edits
           \/ edits' # 0
    <3>1. CASE RestartedByHost \/ RecordRuntimeLoaded \/ Push
      BY <3>1 DEF RestartedByHost, RecordRuntimeLoaded, Push
    <3>2. CASE Edit
      <4>1. edits \in Nat /\ edits' = edits + 1
        BY <3>2 DEF Edit, TypeOK
      <4>2. installed'.revision = installed.revision
        BY <3>2 DEF Edit, TypeOK, Installation
      <4> QED BY <3>2, <4>1, <4>2 DEF Edit
    <3> QED BY <1>1, <3>1, <3>2
  <2> QED BY <2>1 DEF Guarded, BackedUp, Exclusive, OneInFlight, Launches, Waits, Placed, InFlight
<1>2. ASSUME NEW o \in Operations, Acts(o) PROVE Guarded'
  <2>1. edits' = edits
    BY <1>2 DEF Acts, Start, StarterStep, StarterDies, RecordLinkResponse, Status, Launch, LaunchFailed,
         WorkerStep, AcquireInstallLock, Begin, Announce, Resolve, Verify, Scan, Copy, Install, Choose, Ask,
         RestartGateway, WaitForActivation, Relaunch, Fail, WorkerDies
  <2>2. BackedUp'
    BY <1>2, <2>1, BackedUpStep DEF Guarded
  <2>3. Exclusive' /\ OneInFlight'
    BY <1>2, ExclusiveStep, OneInFlightStep DEF Guarded
  <2>4. installed'.revision # 0
    BY <1>2, Installs DEF Guarded, Placed, At, Early
  <2>5. \A p \in Operations : Launches(p)'
    <3> SUFFICES ASSUME NEW p \in Operations PROVE Launches(p)'
      OBVIOUS
    <3>1. CASE p = o
      BY <1>2, <3>1, LaunchesStep DEF Guarded
    <3>2. CASE p # o
      BY <1>2, <3>2, Bystanders DEF Guarded, Launches
    <3> QED BY <3>1, <3>2
  <2>6. \A p \in Operations : Waits(p)' /\ Placed(p)'
    BY <1>2, WaitsStep, PlacedStep
  <2> QED BY <2>2, <2>3, <2>4, <2>5, <2>6 DEF Guarded
<1> QED BY <1>1, <1>2 DEF Next, Acts

(* Whatever dies and whoever launches twice: a broken tree has an unbroken   *)
(* copy of what it replaced unless somebody edited it by hand, and the one   *)
(* worker at the installation works for the operation that owns the journal, *)
(* or its launcher reported a failure that was none.                         *)
THEOREM InstallationStaysKept == ASSUME UpdateAssumption PROVE Spec => []InstallationKept
<1>1. Init => Guarded
  BY DEF Init, Guarded, BackedUp, Exclusive, OneInFlight, Launches, Waits, Placed, InFlight, Idle,
         Early, Late, Observing, NoBackup
<1>2. TypeOK /\ TypeOK' /\ Guarded /\ [Next]_vars => Guarded'
  <2>1. ASSUME Guarded, UNCHANGED vars PROVE Guarded'
    BY <2>1 DEF vars, Guarded, BackedUp, Exclusive, OneInFlight, Launches, Waits, Placed, InFlight
  <2> QED BY <2>1, GuardedStep
<1>3. TypeOK /\ Guarded => InstallationKept
  <2> SUFFICES ASSUME TypeOK, Guarded PROVE InstallationKept
    OBVIOUS
  <2>1. ~installed.clean /\ edits = 0 => \E o \in Operations : backups[o].clean
    BY DEF Guarded, BackedUp
  <2>2. ASSUME NEW o \in Operations, At(o, "install")
        PROVE  /\ \A p \in Operations \ {o} : ~At(p, "install")
               /\ \/ InFlight(o) /\ \A p \in Operations \ {o} : ~InFlight(p)
                  \/ Ambiguous /\ operations[o].phase = "blocked"
    <3>1. \A p \in Operations \ {o} : ~At(p, "install")
      BY <2>2 DEF Guarded, Exclusive, At, Idle
    <3>2. operations[o].phase # "absent"
      BY <2>2 DEF Guarded, Launches, At
    <3>3. operations[o].phase \notin Terminal \/ (Ambiguous /\ operations[o].phase = "blocked")
      BY <2>2 DEF Guarded, Placed, Early, At
    <3> QED BY <3>1, <3>2, <3>3 DEF Guarded, OneInFlight, InFlight
  <2> QED BY <2>1, <2>2 DEF InstallationKept
<1> QED BY <1>1, <1>2, <1>3, Typing, PTL DEF Spec
=================================================================================
