------------------------------- MODULE VoiceJobs -------------------------------
(***************************************************************************)
(* VoiceJobOrchestrator of loopdy_plugin/voice_jobs.py over its ledger:    *)
(* tasks that call the submit and control callbacks, native events that    *)
(* move the same job while a callback runs, and a process that may crash   *)
(* between any two transactions.  One process at a time owns the ledger    *)
(* (flock on its sidecar).  The orchestrator runs on one event loop: its   *)
(* steps interleave at awaits only, native events and crashes anywhere.    *)
(***************************************************************************)
EXTENDS VoiceLedger

CONSTANTS
  NoJob,
  MaxEvents,    \* bound: native events and controls stop past this revision
  MaxRestarts   \* bound on the crashes and shutdowns explored

NoRequest == "submit"   \* the key of the task that submits

ASSUME OrchestratorAssumption ==
  NoJob \notin Delegations /\ NoRequest \notin Requests /\ {MaxEvents, MaxRestarts} \subseteq Nat

VARIABLES
  open,         \* a process owns the ledger
  accepting,    \* _accepting
  authorized,   \* authorize(owner)
  claiming,     \* the job delegate() has admitted and not yet started
  tasks,        \* _tasks, each with the record it was spawned with
  submitted,    \* history: how often submit was called for a job
  delivered,    \* history: how often the callback of a control was called
  restarts

procVars == <<open, accepting, authorized, claiming, tasks, submitted, delivered, restarts>>
vars == <<jobs, controls, aged, open, accepting, authorized, claiming, tasks,
          submitted, delivered, restarts>>

Tasks == [d : Delegations, request : Requests \cup {NoRequest}, run : Nat,
          revision : Nat, phase : {"spawned", "calling"}]
Submit(d, run, revision, phase) ==
  [d |-> d, request |-> NoRequest, run |-> run, revision |-> revision, phase |-> phase]
Deliver(d, r, run, revision, phase) ==
  [d |-> d, request |-> r, run |-> run, revision |-> revision, phase |-> phase]
Called(t) == [t EXCEPT !.phase = "calling"]

Loop == open /\ claiming = NoJob

-----------------------------------------------------------------------------
(* delegate: admission and claim are two transactions with no await between *)
(* them.  Only a crash separates them.                                      *)
Delegate(d, text) ==
  /\ Loop /\ accepting /\ authorized
  /\ \/ AdmitNew(d, text) /\ claiming' = d
     \/ AdmitAgain(d, text) /\ UNCHANGED claiming
  /\ UNCHANGED <<open, accepting, authorized, tasks, submitted, delivered, restarts>>

Claim(d) ==
  /\ open /\ claiming = d
  /\ Start(d, 1, 1)
  /\ claiming' = NoJob /\ tasks' = tasks \cup {Submit(d, 1, 2, "spawned")}
  /\ UNCHANGED <<open, accepting, authorized, submitted, delivered, restarts>>

(* _dispatch_current *)
Current(t) == authorized /\ Fenced(t.d, t.run, t.revision)

\* Mutant: doubt overwrites a newer revision or an end.
DoubtAnyway(t) ==
  /\ jobs' = [jobs EXCEPT ![t.d] = Row(jobs[t.d], jobs[t.d].run, "uncertain",
                                      jobs[t.d].stored, NoPending)]
  /\ UNCHANGED <<controls, aged>>

(* _mark_uncertain: a newer revision or an observed end wins.               *)
Doubt(t) ==
  IF Fenced(t.d, t.run, t.revision) /\ jobs[t.d].state \in Live \ {"uncertain"}
  THEN MarkUncertain(t.d, t.run, t.revision)
  ELSE UNCHANGED ledgerVars

BeginSubmit(t) ==
  /\ Loop /\ t.request = NoRequest /\ t.phase = "spawned"
  /\ \/ /\ Current(t)
        /\ tasks' = (tasks \ {t}) \cup {Called(t)}
        /\ submitted' = [submitted EXCEPT ![t.d] = submitted[t.d] + 1]
        /\ UNCHANGED ledgerVars
     \/ /\ ~Current(t) /\ Doubt(t)
        /\ tasks' = tasks \ {t} /\ UNCHANGED submitted
  /\ UNCHANGED <<open, accepting, authorized, claiming, delivered, restarts>>

\* Mutant: a submission without an acknowledgement leaves no doubt.
EndSubmitForgetting(t, acknowledged, stored) ==
  /\ Loop /\ t.request = NoRequest /\ t.phase = "calling"
  /\ IF acknowledged /\ authorized /\ Fenced(t.d, t.run, t.revision)
     THEN Running(t.d, t.run, t.revision, stored)
     ELSE UNCHANGED ledgerVars
  /\ tasks' = tasks \ {t}
  /\ UNCHANGED <<open, accepting, authorized, claiming, submitted, delivered, restarts>>

(* The callback acknowledged, raised, or its task was cancelled.            *)
EndSubmit(t, acknowledged, stored) ==
  /\ Loop /\ t.request = NoRequest /\ t.phase = "calling"
  /\ IF acknowledged /\ authorized
     THEN IF Fenced(t.d, t.run, t.revision)
          THEN Running(t.d, t.run, t.revision, stored)
          ELSE UNCHANGED ledgerVars
     ELSE Doubt(t)
  /\ tasks' = tasks \ {t}
  /\ UNCHANGED <<open, accepting, authorized, claiming, submitted, delivered, restarts>>

-----------------------------------------------------------------------------
RequestControl(d, r, body) ==
  /\ Loop /\ accepting /\ authorized /\ jobs[d].revision <= MaxEvents
  /\ AdmitControl(d, r, body)
  /\ tasks' = tasks \cup {Deliver(d, r, body.run, jobs[d].revision + 1, "spawned")}
  /\ UNCHANGED <<open, accepting, authorized, claiming, submitted, delivered, restarts>>

(* finish_control, whose conflicts _dispatch_control swallows.              *)
Receipt(t, accepted) ==
  \/ accepted /\ FinishAccepted(t.d, t.request, t.run, t.revision)
  \/ ~accepted /\ FinishFailed(t.d, t.request, t.run, t.revision)
  \/ ~Receives(t.d, t.request, t.run, t.revision) /\ UNCHANGED ledgerVars

\* Mutant: a control that is no longer current is receipted as accepted.
BeginControlAccepting(t) ==
  /\ Loop /\ t.request # NoRequest /\ t.phase = "spawned"
  /\ ~Current(t) /\ Receipt(t, TRUE)
  /\ tasks' = tasks \ {t}
  /\ UNCHANGED <<open, accepting, authorized, claiming, submitted, delivered, restarts>>

BeginControl(t) ==
  /\ Loop /\ t.request # NoRequest /\ t.phase = "spawned"
  /\ \/ /\ Current(t)
        /\ tasks' = (tasks \ {t}) \cup {Called(t)}
        /\ delivered' = [delivered EXCEPT ![t.d] =
             [delivered[t.d] EXCEPT ![t.request] = delivered[t.d][t.request] + 1]]
        /\ UNCHANGED ledgerVars
     \/ /\ ~Current(t) /\ Receipt(t, FALSE)
        /\ tasks' = tasks \ {t} /\ UNCHANGED delivered
  /\ UNCHANGED <<open, accepting, authorized, claiming, submitted, restarts>>

EndControl(t, acknowledged) ==
  /\ Loop /\ t.request # NoRequest /\ t.phase = "calling"
  /\ Receipt(t, acknowledged /\ authorized)
  /\ tasks' = tasks \ {t}
  /\ UNCHANGED <<open, accepting, authorized, claiming, submitted, delivered, restarts>>

-----------------------------------------------------------------------------
(* Native events reach the ledger with the record the observer last read;   *)
(* only work that was handed over produces them.  The live voice runtime    *)
(* binds a session to a turn whose processing_start it has seen, and that   *)
(* event took the job out of "dispatching".  reconcile has no caller yet, so *)
(* it is a step of the ledger's interface alone.                            *)
Observe(d) ==
  /\ Loop /\ submitted[d] > 0
  /\ LET run == jobs[d].run
         rev == jobs[d].revision
     IN \/ \E s \in Finished : authorized /\ Complete(d, run, rev, s)
        \/ rev <= MaxEvents /\
             \/ \E s \in Sessions \cup {NoSession} : Running(d, run, rev, s)
             \/ jobs[d].state # "dispatching"
                /\ \E s \in Sessions : BindStoredSession(d, run, rev, s)
             \/ \E p \in Prompts : authorized /\ SetPending(d, run, rev, p)
        \/ MarkUncertain(d, run, rev)
  /\ UNCHANGED procVars

Expire(d) == Age(d) /\ UNCHANGED procVars

(* The account or the phone changes: _current(owner) of the adapter.        *)
OwnerChanges ==
  /\ authorized' = ~authorized
  /\ UNCHANGED <<ledgerVars, open, accepting, claiming, tasks, submitted, delivered, restarts>>

Retire ==
  /\ Loop /\ accepting /\ restarts < MaxRestarts /\ accepting' = FALSE
  /\ UNCHANGED <<ledgerVars, open, authorized, claiming, tasks, submitted, delivered, restarts>>

(* aclose has drained its tasks and its owner closes the ledger.            *)
Close ==
  /\ Loop /\ ~accepting /\ tasks = {} /\ open' = FALSE /\ restarts' = restarts + 1
  /\ UNCHANGED <<ledgerVars, accepting, authorized, claiming, tasks, submitted, delivered>>

Crash ==
  /\ open /\ restarts < MaxRestarts /\ restarts' = restarts + 1
  /\ open' = FALSE /\ tasks' = {} /\ claiming' = NoJob
  /\ UNCHANGED <<ledgerVars, accepting, authorized, submitted, delivered>>

\* Mutant: a restart submits again what was dispatching.
RestartResubmitting ==
  /\ ~open /\ Open /\ open' = TRUE /\ accepting' = TRUE
  /\ tasks' = {Submit(d, jobs[d].run, jobs[d].revision + 1, "spawned") :
                d \in {e \in Delegations : jobs[e].state = "dispatching"}}
  /\ UNCHANGED <<authorized, claiming, submitted, delivered, restarts>>

Restart ==
  /\ ~open /\ Open /\ open' = TRUE /\ accepting' = TRUE
  /\ UNCHANGED <<authorized, claiming, tasks, submitted, delivered, restarts>>

-----------------------------------------------------------------------------
Init ==
  /\ LedgerInit
  /\ open = TRUE /\ accepting = TRUE /\ authorized = TRUE
  /\ claiming = NoJob /\ tasks = {} /\ restarts = 0
  /\ submitted = [d \in Delegations |-> 0]
  /\ delivered = [d \in Delegations |-> [r \in Requests |-> 0]]

TaskStep(t) ==
  \/ BeginSubmit(t)
  \/ \E ok \in BOOLEAN, s \in Sessions \cup {NoSession} : EndSubmit(t, ok, s)
  \/ BeginControl(t)
  \/ \E ok \in BOOLEAN : EndControl(t, ok)

Next ==
  \/ \E d \in Delegations, t \in Texts : Delegate(d, t)
  \/ \E d \in Delegations : Claim(d) \/ Observe(d) \/ Expire(d)
  \/ \E d \in Delegations, r \in Requests :
       \E body \in BodiesOf(jobs[d].run, jobs[d].revision) : RequestControl(d, r, body)
  \/ \E t \in tasks : TaskStep(t)
  \/ OwnerChanges \/ Retire \/ Close \/ Crash \/ Restart

Spec == Init /\ [][Next]_vars

(* The loop runs what is ready, callbacks return (the live voice runtime    *)
(* puts 30 s on each), and the host is started again after it stopped.      *)
FairSpec ==
  /\ Spec /\ WF_vars(Restart)
  /\ WF_vars(\E d \in Delegations : Claim(d))
  /\ WF_vars(\E t \in tasks : TaskStep(t))

-----------------------------------------------------------------------------
(* A delegation is handed to Hermes at most once, whatever is replayed,     *)
(* crashes or expires in between.                                           *)
SubmittedOnce == \A d \in Delegations : submitted[d] <= 1

(* The ledger never reports more than happened: work it calls running,      *)
(* asking, stopping or ended was submitted, and a control it calls accepted *)
(* was delivered.                                                           *)
ReceiptsAreTrue ==
  \A d \in Delegations :
    /\ jobs[d].state \in {"running", "waiting", "cancel_requested"} \cup Finished
         => submitted[d] > 0
    /\ \A r \in Requests : controls[d][r].state = "accepted" => delivered[d][r] > 0

================================================================================
