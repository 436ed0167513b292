------------------------------ MODULE VoiceLedger ------------------------------
(***************************************************************************)
(* VoiceJobLedger of loopdy_plugin/voice_jobs.py: the durable record of    *)
(* background work delegated by voice.  Every operation is one SQLite      *)
(* transaction, fenced on the job's run and revision, so a caller that     *)
(* read an older record conflicts and changes nothing.  Next lets any      *)
(* caller call any operation with any fence it can name: what is true here *)
(* is true whatever the orchestrator above the ledger does.                *)
(*                                                                         *)
(* A delegation stands for the key (owner, voice, delegation id), and for  *)
(* the job, session and message identifiers admission derives once for it. *)
(***************************************************************************)
EXTENDS Integers, FiniteSets

CONSTANTS
  Delegations, Texts, Requests, Prompts, Sessions, NoPrompt, NoSession,
  KindOf,       \* [Prompts -> {"approval", "clarification"}]
  Reconciled    \* the states an independent observation may report

CONSTANTS
  MaxEntries, MaxActive, MaxControls,      \* maximum_entries, _active, _controls
  Budget, Tombstone, Headroom, MaxBytes,   \* byte reservations of admit
  MaxRevision, MaxRun                      \* bounds of the model

ASSUME LedgerAssumption ==
  /\ NoPrompt \notin Prompts /\ NoSession \notin Sessions /\ Texts # {}
  /\ KindOf \in [Prompts -> {"approval", "clarification"}]
  /\ Reconciled \subseteq {"running", "completed", "failed", "cancelled"}
  /\ {MaxEntries, MaxActive, MaxControls, MaxRevision} \subseteq Nat /\ MaxRun \in Nat \ {0}
  /\ {Budget, Tombstone, Headroom, MaxBytes} \subseteq Nat

VARIABLES
  jobs,       \* rows of voice_jobs
  controls,   \* rows of voice_job_controls
  aged        \* terminal jobs older than retention_seconds

ledgerVars == <<jobs, controls, aged>>

-----------------------------------------------------------------------------
Finished == {"completed", "failed", "cancelled"}
Terminal == Finished \cup {"expired"}
Live == {"admitted", "dispatching", "running", "waiting", "cancel_requested", "uncertain"}

Pending == [id : Prompts, revision : Nat]
NoPending == [id |-> NoPrompt, revision |-> 0]
Job == [state : Live \cup Terminal \cup {"none"}, revision : Nat, run : Nat,
        text : Texts, stored : Sessions \cup {NoSession},
        pending : Pending \cup {NoPending}]
Actions == {"steer", "queue", "cancel", "approval", "clarification"}
Decisions == {"approval", "clarification"}
Body == [run : Nat, expected : Nat, action : Actions,
         prompt : Prompts \cup {NoPrompt}, asked : Nat]
Control == [state : {"none", "admitted", "accepted", "uncertain"},
            body : Body, dispatch : Nat]

Absent == [state |-> "none", revision |-> 0, run |-> 0, text |-> CHOOSE t \in Texts : TRUE,
           stored |-> NoSession, pending |-> NoPending]
NoControl == [state |-> "none", dispatch |-> 0,
              body |-> [run |-> 0, expected |-> 0, action |-> "queue",
                        prompt |-> NoPrompt, asked |-> 0]]

Entries == {d \in Delegations : jobs[d].state # "none"}
Active == {d \in Delegations : jobs[d].state \in Live}
Expired == {d \in Delegations : jobs[d].state = "expired"}
Sealed(d) == {r \in Requests : controls[d][r].state # "none"}
InFlight(d) == {r \in Requests : controls[d][r].state = "admitted"}

Fenced(d, run, revision) ==
  jobs[d].state # "none" /\ jobs[d].run = run /\ jobs[d].revision = revision

Row(job, run, state, stored, pending) ==
  [state |-> state, revision |-> job.revision + 1, run |-> run, text |-> job.text,
   stored |-> stored, pending |-> pending]

Update(d, run, state, stored, pending) ==
  /\ jobs[d].revision < MaxRevision
  /\ jobs' = [jobs EXCEPT ![d] = Row(jobs[d], run, state, stored, pending)]
  /\ aged' = aged

(* The next state of a job that keeps its run, its session and its controls. *)
Becomes(d, state, pending) ==
  Update(d, jobs[d].run, state, jobs[d].stored, pending) /\ UNCHANGED controls

-----------------------------------------------------------------------------

(* admit prunes in the same transaction: content of aged work goes, its     *)
(* identity stays.  A conflict or a full ledger rolls the pruning back.     *)
Pruned(d) ==
  IF d \in aged
  THEN [state |-> "expired", revision |-> jobs[d].revision + 1, run |-> jobs[d].run,
        text |-> jobs[d].text, stored |-> jobs[d].stored, pending |-> NoPending]
  ELSE jobs[d]

Prune ==
  /\ controls' = [d \in Delegations |->
                    IF d \in aged THEN [r \in Requests |-> NoControl] ELSE controls[d]]
  /\ aged' = {}

PruneOnly == Prune /\ jobs' = [d \in Delegations |-> Pruned(d)]

HasRoom ==
  /\ Cardinality(Entries) < MaxEntries
  /\ Cardinality(Active) < MaxActive
  /\ LET tombs == Cardinality(Expired \cup aged)
         kept == Cardinality(Entries) - tombs
     IN kept * Budget + tombs * Tombstone + Budget + Headroom <= MaxBytes

Admitted(text) ==
  [Absent EXCEPT !.state = "admitted", !.revision = 1, !.run = 1, !.text = text]

AdmitNew(d, text) ==
  /\ jobs[d].state = "none" /\ HasRoom
  /\ Prune
  /\ jobs' = [e \in Delegations |-> IF e = d THEN Admitted(text) ELSE Pruned(e)]

AdmitAgain(d, text) == jobs[d].state # "none" /\ jobs[d].text = text /\ PruneOnly

Start(d, run, revision) ==
  /\ Fenced(d, run, revision) /\ jobs[d].state = "admitted"
  /\ Becomes(d, "dispatching", jobs[d].pending)

Running(d, run, revision, stored) ==
  /\ Fenced(d, run, revision) /\ jobs[d].state = "dispatching"
  /\ Update(d, run, "running", stored, jobs[d].pending) /\ UNCHANGED controls

BindStoredSession(d, run, revision, stored) ==
  /\ Fenced(d, run, revision) /\ jobs[d].state \in Live \ {"uncertain"}
  /\ jobs[d].stored = NoSession
  /\ Update(d, run, jobs[d].state, stored, jobs[d].pending) /\ UNCHANGED controls

SetPending(d, run, revision, prompt) ==
  /\ Fenced(d, run, revision) /\ jobs[d].state \in {"running", "dispatching", "waiting"}
  /\ Becomes(d, "waiting", [id |-> prompt, revision |-> jobs[d].revision + 1])

Complete(d, run, revision, state) ==
  /\ Fenced(d, run, revision) /\ jobs[d].state \in Live \ {"admitted", "uncertain"}
  /\ Becomes(d, state, NoPending)

MarkUncertain(d, run, revision) ==
  /\ Fenced(d, run, revision) /\ jobs[d].state \in Live \ {"uncertain"}
  /\ Becomes(d, "uncertain", NoPending)

(* The run is rotated: events of the retired run no longer pass a fence.    *)
Reconcile(d, run, revision, state, stored) ==
  /\ Fenced(d, run, revision) /\ jobs[d].state = "uncertain"
  /\ jobs[d].stored \in {NoSession, stored} /\ jobs[d].run < MaxRun
  /\ Update(d, jobs[d].run + 1, state, stored, NoPending) /\ UNCHANGED controls

-----------------------------------------------------------------------------
\* Mutant: an answer is matched by its prompt, not by the revision that asked.
AnswersById(d, body) ==
  /\ jobs[d].pending # NoPending
  /\ jobs[d].pending.id = body.prompt /\ KindOf[body.prompt] = body.action

(* Controls: persisted once before their callback runs.                     *)
Answers(d, body) ==
  /\ jobs[d].pending # NoPending
  /\ jobs[d].pending = [id |-> body.prompt, revision |-> body.asked]
  /\ KindOf[body.prompt] = body.action

Controllable(d, body) ==
  /\ jobs[d].state \in {"running", "waiting"}
  /\ Cardinality(Sealed(d)) < MaxControls
  /\ InFlight(d) = {}
  /\ body.action \in Decisions => Answers(d, body)
  /\ body.action = "steer" => jobs[d].pending = NoPending

AdmitControl(d, request, body) ==
  /\ controls[d][request].state = "none"
  /\ Fenced(d, body.run, body.expected) /\ Controllable(d, body)
  /\ \/ body.action \in Decisions
        /\ Update(d, body.run, "running", jobs[d].stored, NoPending)
     \/ body.action = "cancel"
        /\ Update(d, body.run, "cancel_requested", jobs[d].stored, NoPending)
     \/ body.action \in {"steer", "queue"}
        /\ Update(d, body.run, jobs[d].state, jobs[d].stored, jobs[d].pending)
  /\ controls' = [controls EXCEPT ![d] =
       [controls[d] EXCEPT ![request] =
          [state |-> "admitted", body |-> body, dispatch |-> jobs[d].revision + 1]]]

(* The receipt of the attempt that held the record of revision `dispatch`.  *)
Receives(d, request, run, dispatch) ==
  /\ controls[d][request].state = "admitted"
  /\ controls[d][request].dispatch = dispatch /\ controls[d][request].body.run = run
  /\ jobs[d].run = run

Seal(d, request, state) ==
  controls' = [controls EXCEPT ![d] = [controls[d] EXCEPT ![request] =
                 [state |-> state, body |-> controls[d][request].body,
                  dispatch |-> controls[d][request].dispatch]]]

FinishAccepted(d, request, run, dispatch) ==
  /\ Receives(d, request, run, dispatch)
  /\ Seal(d, request, "accepted") /\ UNCHANGED <<jobs, aged>>

FinishFailed(d, request, run, dispatch) ==
  /\ Receives(d, request, run, dispatch)
  /\ Seal(d, request, "uncertain")
  /\ IF jobs[d].revision = dispatch /\ jobs[d].state \notin Terminal
     THEN Update(d, run, "uncertain", jobs[d].stored, NoPending)
     ELSE UNCHANGED <<jobs, aged>>

-----------------------------------------------------------------------------

(* _open of a ledger some process left: nothing in flight is trusted.       *)
Reopened(job) ==
  IF job.state \in Live \ {"uncertain"}
  THEN Row(job, job.run, "uncertain", job.stored, NoPending)
  ELSE job

Open ==
  /\ \A d \in Delegations : jobs[d].revision < MaxRevision
  /\ jobs' = [d \in Delegations |-> Reopened(jobs[d])]
  /\ controls' = [d \in Delegations |-> [r \in Requests |->
       IF controls[d][r].state = "admitted"
       THEN [state |-> "uncertain", body |-> controls[d][r].body,
             dispatch |-> controls[d][r].dispatch]
       ELSE controls[d][r]]]
  /\ aged' = aged

(* The clock passes terminal_at + retention_seconds.                        *)
Age(d) ==
  /\ jobs[d].state \in Finished /\ d \notin aged
  /\ aged' = aged \cup {d} /\ UNCHANGED <<jobs, controls>>

-----------------------------------------------------------------------------
Revisions == 1 .. MaxRevision
Fences == (1 .. MaxRun) \X Revisions
Decision(run, expected, prompt, asked) ==
  [run |-> run, expected |-> expected, action |-> KindOf[prompt], prompt |-> prompt,
   asked |-> asked]
Order(run, expected, action) ==
  [run |-> run, expected |-> expected, action |-> action, prompt |-> NoPrompt, asked |-> 0]
BodiesOf(run, expected) ==
  {Decision(run, expected, p, asked) : p \in Prompts, asked \in Revisions}
  \cup {Order(run, expected, action) : action \in Actions \ Decisions}

JobStep(d) ==
  \/ \E t \in Texts : AdmitNew(d, t) \/ AdmitAgain(d, t)
  \/ \E f \in Fences :
       \/ Start(d, f[1], f[2])
       \/ \E s \in Sessions \cup {NoSession} : Running(d, f[1], f[2], s)
       \/ \E s \in Sessions : BindStoredSession(d, f[1], f[2], s)
       \/ \E p \in Prompts : SetPending(d, f[1], f[2], p)
       \/ \E s \in Finished : Complete(d, f[1], f[2], s)
       \/ MarkUncertain(d, f[1], f[2])
       \/ \E s \in Reconciled, x \in Sessions : Reconcile(d, f[1], f[2], s, x)
  \/ Age(d)

ControlStep(d, r) ==
  \E f \in Fences :
    \/ Fenced(d, f[1], f[2]) /\ \E body \in BodiesOf(f[1], f[2]) : AdmitControl(d, r, body)
    \/ FinishAccepted(d, r, f[1], f[2]) \/ FinishFailed(d, r, f[1], f[2])

LedgerInit ==
  /\ jobs = [d \in Delegations |-> Absent]
  /\ controls = [d \in Delegations |-> [r \in Requests |-> NoControl]]
  /\ aged = {}

LedgerNext ==
  \/ \E d \in Delegations : JobStep(d)
  \/ \E d \in Delegations, r \in Requests : ControlStep(d, r)
  \/ PruneOnly
  \/ Open

LedgerSpec == LedgerInit /\ [][LedgerNext]_ledgerVars

-----------------------------------------------------------------------------
(* Type invariant. *)
TypeOK ==
  /\ jobs \in [Delegations -> Job]
  /\ controls \in [Delegations -> [Requests -> Control]]
  /\ aged \subseteq {d \in Delegations : jobs[d].state \in Finished}

(* A job asks a question exactly while it waits: nothing is answerable on a *)
(* job that runs, was asked to stop, ended or is in doubt.                  *)
WaitingIffPending ==
  \A d \in Delegations : (jobs[d].state = "waiting") <=> (jobs[d].pending # NoPending)

(* At most one control of a job is between its admission and its receipt.   *)
OneInFlight ==
  \A d \in Delegations, r1, r2 \in Requests :
    r1 \in InFlight(d) /\ r2 \in InFlight(d) => r1 = r2

(* No question is answered twice: two decisions recorded for one job name   *)
(* different revisions of its pending request, even when the native side    *)
(* asks again under the same identifier.                                    *)
AnsweredOnce ==
  \A d \in Delegations, r1, r2 \in Requests :
    /\ {r1, r2} \subseteq Sealed(d)
    /\ controls[d][r1].body.action \in Decisions
    /\ controls[d][r2].body.action \in Decisions
    /\ controls[d][r1].body.asked = controls[d][r2].body.asked
    => r1 = r2

-----------------------------------------------------------------------------
(* A delegation, once admitted, is never forgotten and never changes text,  *)
(* so a replay of it is always recognised, even after its content expired.  *)
ReplayFence ==
  [][\A d \in Delegations : jobs[d].state # "none" =>
       jobs'[d].state # "none" /\ jobs'[d].text = jobs[d].text]_ledgerVars

(* A job is dispatched only out of a fresh admission: in doubt, finished or *)
(* expired work is never sent again.                                        *)
DispatchedFresh ==
  [][\A d \in Delegations :
       jobs'[d].state = "dispatching" /\ jobs[d].state # "dispatching" =>
         jobs[d].state = "admitted"]_ledgerVars

(* A reported end is final: the only later change is the expiry of its      *)
(* content.                                                                 *)
EndIsFinal ==
  [][\A d \in Delegations : jobs[d].state \in Terminal =>
       jobs'[d].state \in {jobs[d].state, "expired"} /\ jobs'[d].run = jobs[d].run]_ledgerVars

================================================================================
