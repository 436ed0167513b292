------------------------------ MODULE PluginUpdate ------------------------------
(***************************************************************************)
(* The self-update of loopdy_plugin/plugin_update.py (journal, start,      *)
(* status, evidence of activation) and plugin_update_worker.py (the worker *)
(* process that installs and restarts).  Each block under the journal's    *)
(* lock is one step, so is each external command; a worker that reads the  *)
(* journal and writes it later does so in two steps.                       *)
(*                                                                         *)
(* Revisions are numbered in the order main reached them, gateways in the  *)
(* order they started; 0 stands for none of them.                          *)
(***************************************************************************)
EXTENDS Integers, Sequences

CONSTANTS
  Operations,
  Restarting,     \* the operations whose user chose a restart
  Relaunches,     \* the service manager restarts a worker that died (launchd)
  Ambiguous,      \* a launcher may report failure for a job it has started
  Faults,         \* what may go wrong: "starter", "worker", "command", "editor"
  MaxRevision, MaxGateways, MaxFaults    \* bounds of the model

ASSUME UpdateAssumption ==
  /\ Restarting \subseteq Operations /\ {Relaunches, Ambiguous} \subseteq BOOLEAN
  /\ Faults \subseteq {"starter", "worker", "command", "editor"}
  /\ {MaxRevision, MaxGateways} \subseteq Nat \ {0} /\ MaxFaults \in Nat

VARIABLES
  operations,  \* the journal's operations
  runtime,     \* the journal's runtime: the last gateway recorded
  starters,    \* where each call of start is
  workers,     \* the worker process of each operation
  installed,   \* the installation: revision in its metadata, tree unmodified
  backups,     \* the recovery copies
  gateways,    \* revision each gateway snapshotted when it was loaded
  head,        \* revision of main
  restarts,    \* history: restarts each operation has asked for
  faults, edits

vars == <<operations, runtime, starters, workers, installed, backups, gateways, head,
          restarts, faults, edits>>

Revisions == 1 .. MaxRevision
Terminal == {"complete", "up_to_date", "installed_restart_required", "blocked", "failed"}
Observing == {"awaiting_activation", "reconnecting", "restart_requested", "timed_out"}
Working == {"launching", "resolving", "resolved", "validating_installation", "staging",
            "backing_up", "installing", "installed"}

Operation == [phase : {"absent"} \cup Terminal \cup Observing \cup Working,
              target : Nat, started : Nat, asked : BOOLEAN, link : Nat]
Installation == [revision : Nat, clean : BOOLEAN]
NoBackup == [revision |-> 0, clean |-> FALSE]

InFlight(o) == operations[o].phase \notin Terminal \cup {"absent"}

(* _worker_transition: silent on an operation that has ended.               *)
Moved(o, phase) ==
  IF operations[o].phase \in Terminal THEN operations[o]
  ELSE [operations[o] EXCEPT !.phase = phase]

(* _reconcile_completion *)
Reconciled(op) ==
  IF /\ op.phase \in Observing /\ op.target # 0
     /\ runtime.revision = op.target /\ runtime.id \notin {0, op.started}
     /\ op.link = runtime.id
  THEN [op EXCEPT !.phase = "complete"] ELSE op

Journal(o, op) == operations' = [operations EXCEPT ![o] = op]

-----------------------------------------------------------------------------
(* The gateway, its users and the branch.                                   *)
Load == gateways' = Append(gateways, installed.revision)

RestartedByHost ==
  /\ Len(gateways) < MaxGateways /\ Load
  /\ UNCHANGED <<operations, runtime, starters, workers, installed, backups, head, restarts,
                 faults, edits>>

\* Mutant: the revision is read when the adapter connects.
RecordInstalled ==
  /\ runtime' = [revision |-> installed.revision, id |-> Len(gateways)]
  /\ UNCHANGED <<operations, starters, workers, installed, backups, gateways, head, restarts,
                 faults, edits>>

(* record_runtime_loaded, at each connection of the adapter.                *)
RecordRuntimeLoaded ==
  /\ runtime' = [revision |-> gateways[Len(gateways)], id |-> Len(gateways)]
  /\ UNCHANGED <<operations, starters, workers, installed, backups, gateways, head, restarts,
                 faults, edits>>

(* record_link_response: a gateway that is no longer the recorded runtime   *)
(* changes nothing.                                                         *)
RecordLinkResponse(o) ==
  /\ operations[o].phase # "absent" /\ runtime.id # 0
  /\ Journal(o, Reconciled([operations[o] EXCEPT !.link = runtime.id]))
  /\ UNCHANGED <<runtime, starters, workers, installed, backups, gateways, head, restarts,
                 faults, edits>>

Status(o) ==
  /\ Journal(o, Reconciled(operations[o]))
  /\ UNCHANGED <<runtime, starters, workers, installed, backups, gateways, head, restarts,
                 faults, edits>>

Push ==
  /\ head < MaxRevision /\ head' = head + 1
  /\ UNCHANGED <<operations, runtime, starters, workers, installed, backups, gateways,
                 restarts, faults, edits>>

(* Somebody edits the installed files by hand.                              *)
Edit ==
  /\ "editor" \in Faults /\ faults < MaxFaults
  /\ faults' = faults + 1 /\ edits' = edits + 1
  /\ installed' = [installed EXCEPT !.clean = FALSE]
  /\ UNCHANGED <<operations, runtime, starters, workers, backups, gateways, head, restarts>>

-----------------------------------------------------------------------------

(* start: journal first, launch, and take back what could not be launched.  *)
Start(o) ==
  /\ operations[o].phase = "absent"
  /\ \A p \in Operations : ~InFlight(p)
  /\ Journal(o, [phase |-> "launching", target |-> 0, started |-> runtime.id,
                 asked |-> FALSE, link |-> 0])
  /\ starters' = [starters EXCEPT ![o] = "launching"]
  /\ UNCHANGED <<runtime, workers, installed, backups, gateways, head, restarts, faults, edits>>

Launched(o) == workers' = [workers EXCEPT ![o] = [at |-> "lock", target |-> 0]]

Launch(o) ==
  /\ starters[o] = "launching"
  /\ \/ Launched(o) /\ starters' = [starters EXCEPT ![o] = "done"]
     \/ UNCHANGED workers /\ starters' = [starters EXCEPT ![o] = "refused"]
     \/ Ambiguous /\ Launched(o) /\ starters' = [starters EXCEPT ![o] = "refused"]
  /\ UNCHANGED <<operations, runtime, installed, backups, gateways, head, restarts, faults, edits>>

LaunchFailed(o) ==
  /\ starters[o] = "refused"
  /\ starters' = [starters EXCEPT ![o] = "done"]
  /\ Journal(o, IF operations[o].phase = "launching"
                THEN [operations[o] EXCEPT !.phase = "blocked"] ELSE operations[o])
  /\ UNCHANGED <<runtime, workers, installed, backups, gateways, head, restarts, faults, edits>>

(* The process that runs start ends between the journal and the launch.     *)
StarterDies(o) ==
  /\ "starter" \in Faults /\ faults < MaxFaults /\ starters[o] = "launching"
  /\ starters' = [starters EXCEPT ![o] = "done"] /\ faults' = faults + 1
  /\ UNCHANGED <<operations, runtime, workers, installed, backups, gateways, head, restarts, edits>>

-----------------------------------------------------------------------------
(* The worker.                                                              *)
Idle == {"none", "lock", "dead", "done"}
At(o, place) == workers[o].at = place
Goes(o, place) == workers' = [workers EXCEPT ![o] = [at |-> place, target |-> workers[o].target]]

AcquireInstallLock(o) ==
  /\ At(o, "lock")
  /\ IF \A p \in Operations : workers[p].at \in Idle
     THEN Goes(o, "begin") /\ UNCHANGED operations
     ELSE Goes(o, "done") /\ Journal(o, Moved(o, "blocked"))
  /\ UNCHANGED <<runtime, starters, installed, backups, gateways, head, restarts, faults, edits>>

Begin(o) ==
  /\ At(o, "begin")
  /\ workers' = [workers EXCEPT ![o] =
       [at |-> IF operations[o].phase \in Terminal THEN "done"
               ELSE IF operations[o].target = 0 THEN "resolving" ELSE "verify",
        target |-> operations[o].target]]
  /\ UNCHANGED <<operations, runtime, starters, installed, backups, gateways, head, restarts,
                 faults, edits>>

(* The places that only write a phase: the phase, and the place after it.   *)
Announcements ==
  [resolving |-> <<"resolving", "resolve">>,
   validate  |-> <<"validating_installation", "stage">>,
   stage     |-> <<"staging", "scan">>,
   back_up   |-> <<"backing_up", "copy">>,
   announce  |-> <<"installing", "install">>,
   confirm   |-> <<"installed", "choose">>,
   unasked   |-> <<"installed_restart_required", "done">>,
   await     |-> <<"awaiting_activation", "wait">>,
   observe   |-> <<"reconnecting", "wait">>]

Announce(o) ==
  /\ workers[o].at \in DOMAIN Announcements
  /\ Journal(o, Moved(o, Announcements[workers[o].at][1]))
  /\ Goes(o, Announcements[workers[o].at][2])
  /\ UNCHANGED <<runtime, starters, installed, backups, gateways, head, restarts, faults, edits>>

Resolve(o) ==
  /\ At(o, "resolve")
  /\ Journal(o, IF operations[o].phase \in Terminal THEN operations[o]
                ELSE [operations[o] EXCEPT !.phase = "resolved", !.target = head])
  /\ workers' = [workers EXCEPT ![o] = [at |-> "verify", target |-> head]]
  /\ UNCHANGED <<runtime, starters, installed, backups, gateways, head, restarts, faults, edits>>

(* The installation must be recognized and unmodified.                      *)
Verify(o) ==
  /\ At(o, "verify")
  /\ LET here == installed.revision = workers[o].target
         active == runtime.revision = workers[o].target
     IN IF ~installed.clean THEN Journal(o, Moved(o, "blocked")) /\ Goes(o, "done")
        ELSE IF here /\ active
        THEN Journal(o, IF Reconciled(operations[o]).phase = "complete"
                        THEN Reconciled(operations[o]) ELSE Moved(o, "up_to_date"))
             /\ Goes(o, "done")
        ELSE Journal(o, Reconciled(operations[o])) /\ Goes(o, IF here THEN "choose" ELSE "validate")
  /\ UNCHANGED <<runtime, starters, installed, backups, gateways, head, restarts, faults, edits>>

Scan(o) ==
  /\ At(o, "scan") /\ Goes(o, "back_up")
  /\ UNCHANGED <<operations, runtime, starters, installed, backups, gateways, head, restarts,
                 faults, edits>>

\* Mutant: the installer runs without a backup.
CopyNothing(o) ==
  /\ At(o, "copy") /\ Goes(o, "announce")
  /\ UNCHANGED <<operations, runtime, starters, installed, backups, gateways, head, restarts,
                 faults, edits>>

(* A backup that exists is kept.                                            *)
Copy(o) ==
  /\ At(o, "copy") /\ Goes(o, "announce")
  /\ backups' = IF backups[o] = NoBackup THEN [backups EXCEPT ![o] = installed] ELSE backups
  /\ UNCHANGED <<operations, runtime, starters, installed, gateways, head, restarts, faults, edits>>

(* Hermes' installer; cut short, it leaves either tree or a mixture.        *)
Install(o) ==
  /\ At(o, "install") /\ Goes(o, "confirm")
  /\ installed' = [revision |-> workers[o].target, clean |-> TRUE]
  /\ UNCHANGED <<operations, runtime, starters, backups, gateways, head, restarts, faults, edits>>

CutShort(o) ==
  IF At(o, "install")
  THEN installed' \in {installed} \cup
         [revision : {installed.revision, workers[o].target}, clean : {FALSE}]
  ELSE UNCHANGED installed

(* A command that fails or is refused ends the worker.                      *)
Fail(o) ==
  /\ "command" \in Faults /\ faults < MaxFaults
  /\ workers[o].at \in {"resolve", "verify", "scan", "copy", "install"}
  /\ \E phase \in {"blocked", "failed"} : Journal(o, Moved(o, phase))
  /\ Goes(o, "done") /\ CutShort(o) /\ faults' = faults + 1
  /\ UNCHANGED <<runtime, starters, backups, gateways, head, restarts, edits>>

Choose(o) ==
  /\ At(o, "choose")
  /\ Goes(o, IF o \notin Restarting THEN "unasked" ELSE IF operations[o].asked THEN "observe" ELSE "ask")
  /\ UNCHANGED <<operations, runtime, starters, installed, backups, gateways, head, restarts,
                 faults, edits>>

\* Mutant: the restart is announced, the request is not persisted.
AskUnrecorded(o) ==
  /\ At(o, "ask") /\ Goes(o, "restart") /\ Journal(o, Moved(o, "restart_requested"))
  /\ UNCHANGED <<runtime, starters, installed, backups, gateways, head, restarts, faults, edits>>

(* The request is persisted before the restart.                             *)
Ask(o) ==
  /\ At(o, "ask") /\ Goes(o, "restart")
  /\ Journal(o, IF operations[o].phase \in Terminal THEN operations[o]
                ELSE [operations[o] EXCEPT !.phase = "restart_requested", !.asked = TRUE])
  /\ UNCHANGED <<runtime, starters, installed, backups, gateways, head, restarts, faults, edits>>

(* Whatever the command answers, the gateway may have restarted or not.     *)
RestartGateway(o) ==
  /\ At(o, "restart")
  /\ restarts' = [restarts EXCEPT ![o] = restarts[o] + 1]
  /\ \E answer \in {"await", "observe"} : Goes(o, answer)
  /\ (Len(gateways) < MaxGateways /\ Load) \/ UNCHANGED gateways
  /\ UNCHANGED <<operations, runtime, starters, installed, backups, head, faults, edits>>

\* Mutant: the worker waits for the completion alone.
WaitForever(o) ==
  /\ At(o, "wait") /\ Reconciled(operations[o]).phase = "complete" /\ Goes(o, "done")
  /\ Journal(o, Reconciled(operations[o]))
  /\ UNCHANGED <<runtime, starters, installed, backups, gateways, head, restarts, faults, edits>>

(* _wait_for_activation sees the completion, or runs out of time.           *)
WaitForActivation(o) ==
  LET seen == Reconciled(operations[o])
  IN /\ At(o, "wait") /\ Goes(o, "done")
     /\ Journal(o, IF seen.phase = "complete" THEN seen ELSE Moved(o, "timed_out"))
     /\ UNCHANGED <<runtime, starters, installed, backups, gateways, head, restarts, faults, edits>>

WorkerDies(o) ==
  /\ "worker" \in Faults /\ faults < MaxFaults
  /\ workers[o].at \notin {"none", "dead", "done"}
  /\ Goes(o, "dead") /\ CutShort(o) /\ faults' = faults + 1
  /\ UNCHANGED <<operations, runtime, starters, backups, gateways, head, restarts, edits>>

Relaunch(o) ==
  /\ Relaunches /\ At(o, "dead") /\ Launched(o)
  /\ UNCHANGED <<operations, runtime, starters, installed, backups, gateways, head, restarts,
                 faults, edits>>

-----------------------------------------------------------------------------
Init ==
  /\ operations = [o \in Operations |->
       [phase |-> "absent", target |-> 0, started |-> 0, asked |-> FALSE, link |-> 0]]
  /\ runtime = [revision |-> 0, id |-> 0]
  /\ starters = [o \in Operations |-> "none"]
  /\ workers = [o \in Operations |-> [at |-> "none", target |-> 0]]
  /\ installed = [revision |-> 1, clean |-> TRUE]
  /\ backups = [o \in Operations |-> NoBackup]
  /\ gateways = <<1>> /\ head = 1
  /\ restarts = [o \in Operations |-> 0]
  /\ faults = 0 /\ edits = 0

WorkerStep(o) ==
  \/ AcquireInstallLock(o) \/ Begin(o) \/ Announce(o) \/ Resolve(o) \/ Verify(o) \/ Scan(o)
  \/ Copy(o) \/ Install(o) \/ Choose(o) \/ Ask(o) \/ RestartGateway(o) \/ WaitForActivation(o)
  \/ Relaunch(o)
StarterStep(o) == Launch(o) \/ LaunchFailed(o)

Next ==
  \/ RestartedByHost \/ RecordRuntimeLoaded \/ Push \/ Edit
  \/ \E o \in Operations :
       \/ Start(o) \/ StarterStep(o) \/ StarterDies(o)
       \/ WorkerStep(o) \/ Fail(o) \/ WorkerDies(o)
       \/ RecordLinkResponse(o) \/ Status(o)

Spec == Init /\ [][Next]_vars

(* The operating system runs the processes there are; commands time out.    *)
FairSpec == Spec /\ \A o \in Operations : WF_vars(WorkerStep(o)) /\ WF_vars(StarterStep(o))

-----------------------------------------------------------------------------
TypeOK ==
  /\ operations \in [Operations -> Operation]
  /\ runtime \in [revision : Nat, id : Nat] /\ runtime.id <= Len(gateways)
  /\ starters \in [Operations -> {"none", "launching", "refused", "done"}]
  /\ workers \in [Operations -> [at : Idle \cup DOMAIN Announcements \cup
       {"begin", "resolve", "verify", "scan", "copy", "install", "choose", "ask", "restart", "wait"},
       target : Nat]]
  /\ installed \in Installation /\ backups \in [Operations -> Installation]
  /\ gateways \in Seq(Nat) /\ gateways # <<>> /\ head \in Nat \ {0}
  /\ restarts \in [Operations -> Nat] /\ faults \in Nat /\ edits \in Nat

(* "Once persisted, no recovery path issues another blind restart": an      *)
(* operation restarts the gateway at most once, and never unasked, through  *)
(* deaths and relaunches of its worker.                                     *)
OneRestart == \A o \in Operations : restarts[o] <= (IF o \in Restarting THEN 1 ELSE 0)

(* An update is complete only if a gateway started since it began loaded    *)
(* the target: files that were merely installed, or a gateway that merely   *)
(* came back, do not count.                                                 *)
CompleteIsActive ==
  \A o \in Operations : operations[o].phase = "complete" =>
    \E g \in DOMAIN gateways :
      g > operations[o].started /\ gateways[g] = operations[o].target

(* Whenever the updater leaves a broken tree, and nobody edits it by hand,  *)
(* an unbroken copy of what it replaced is there; and one worker at a time  *)
(* touches the installation, for the operation that owns the journal:       *)
(* everybody else has been told it ended.  The worker whose launcher        *)
(* reported failure for a job it had started is the exception: its own      *)
(* operation is blocked.                                                    *)
InstallationKept ==
  /\ ~installed.clean /\ edits = 0 => \E o \in Operations : backups[o].clean
  /\ \A o \in Operations : At(o, "install") =>
       /\ \A p \in Operations \ {o} : ~At(p, "install")
       /\ \/ InFlight(o) /\ \A p \in Operations \ {o} : ~InFlight(p)
          \/ Ambiguous /\ operations[o].phase = "blocked"

(* What a client was told is the end of an update stays its end.            *)
EndIsFinal ==
  [][\A o \in Operations : operations[o].phase \in Terminal =>
       operations'[o].phase = operations[o].phase]_vars

(* An update whose worker was launched ends, or owns the journal as timed   *)
(* out until its evidence comes, whatever dies on the way.                  *)
UpdateSettles ==
  \A o \in Operations : At(o, "lock") ~>
    operations[o].phase \in Terminal \cup {"timed_out"}
=================================================================================
