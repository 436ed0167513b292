---------------------------- MODULE VoiceJobsProofs ----------------------------
(***************************************************************************)
(* Proofs about VoiceLedger and VoiceJobs, for any delegations, requests,  *)
(* prompts, limits and bounds.  A ledger step is first summed up as one    *)
(* local move of each job and its controls (lemma Moves); the invariants   *)
(* then follow move by move.  And about WikiSaves, for any saves, contents *)
(* and bounds: types, outcomes and lost saves.                             *)
(***************************************************************************)
EXTENDS VoiceJobs, WikiSaves, TLAPS

Decided(d, r) == controls[d][r].state # "none" /\ controls[d][r].body.action \in Decisions

(* What else must hold: revisions only grow, so what was asked is past.     *)
History ==
  \A d \in Delegations :
    /\ jobs[d].state # "none" => jobs[d].run \in 1 .. MaxRun /\ jobs[d].revision >= 1
    /\ jobs[d].pending # NoPending => jobs[d].pending.revision <= jobs[d].revision
    /\ \A r \in Requests :
         /\ controls[d][r].state # "none" =>
              jobs[d].state # "none" /\ controls[d][r].dispatch \in 1 .. MaxRevision
         /\ Decided(d, r) =>
              /\ controls[d][r].body.asked <= jobs[d].revision
              /\ jobs[d].pending # NoPending =>
                   controls[d][r].body.asked < jobs[d].pending.revision

LedgerInv == TypeOK /\ WaitingIffPending /\ History /\ OneInFlight /\ AnsweredOnce

-----------------------------------------------------------------------------
(* The moves of one job and its controls.                                   *)
Stays(d) == jobs'[d] = jobs[d] /\ controls'[d] = controls[d]

Enters(d) ==
  /\ jobs[d].state = "none" /\ controls'[d] = controls[d]
  /\ \E t \in Texts : jobs'[d] = Admitted(t)

Expires(d) ==
  /\ jobs[d].state \in Finished
  /\ jobs'[d] = Row(jobs[d], jobs[d].run, "expired", jobs[d].stored, NoPending)
  /\ controls'[d] = [r \in Requests |-> NoControl]

Advances(d) ==
  /\ jobs[d].state \in Live /\ controls'[d] = controls[d]
  /\ \E run \in 1 .. MaxRun, state \in Live \cup Finished,
        stored \in Sessions \cup {NoSession}, pending \in Pending \cup {NoPending} :
       /\ jobs'[d] = Row(jobs[d], run, state, stored, pending)
       /\ state = "waiting" <=> pending # NoPending
       /\ \/ pending \in {NoPending, jobs[d].pending}
          \/ pending.revision = jobs[d].revision + 1
       /\ state = "dispatching" => jobs[d].state \in {"admitted", "dispatching"}
       /\ state = "admitted" => jobs[d].state = "admitted"

(* The controls that can be asked for under any fence.                      *)
Bodies ==
  {Decision(f[1], f[2], p, asked) : f \in Fences, p \in Prompts, asked \in Revisions}
  \cup {Order(f[1], f[2], action) : f \in Fences, action \in Actions \ Decisions}

Asks(d) ==
  \E r \in Requests, body \in Bodies :
    /\ controls[d][r].state = "none" /\ InFlight(d) = {}
    /\ jobs[d].state \in {"running", "waiting"} /\ jobs[d].run = body.run
    /\ jobs[d].revision \in 0 .. MaxRevision - 1
    /\ body.action \in Decisions =>
         jobs[d].pending # NoPending /\ jobs[d].pending.revision = body.asked
    /\ \E state \in {"running", "waiting", "cancel_requested"},
          pending \in {NoPending, jobs[d].pending} :
         /\ jobs'[d] = Row(jobs[d], jobs[d].run, state, jobs[d].stored, pending)
         /\ state = "waiting" <=> pending # NoPending
         /\ body.action \in Decisions => pending = NoPending
    /\ controls'[d] = [controls[d] EXCEPT ![r] =
         [state |-> "admitted", body |-> body, dispatch |-> jobs[d].revision + 1]]

Sealing(d) ==
  /\ \E r \in Requests, state \in {"accepted", "uncertain"} :
       /\ controls[d][r].state = "admitted"
       /\ controls'[d] = [controls[d] EXCEPT ![r] =
            [state |-> state, body |-> controls[d][r].body,
             dispatch |-> controls[d][r].dispatch]]
  /\ \/ jobs'[d] = jobs[d]
     \/ /\ jobs[d].state \notin Terminal \cup {"none"}
        /\ jobs'[d] = Row(jobs[d], jobs[d].run, "uncertain", jobs[d].stored, NoPending)

Doubted(d) ==
  /\ jobs'[d] = Reopened(jobs[d])
  /\ controls'[d] = [r \in Requests |->
       IF controls[d][r].state = "admitted"
       THEN [state |-> "uncertain", body |-> controls[d][r].body,
             dispatch |-> controls[d][r].dispatch]
       ELSE controls[d][r]]

Move(d) ==
  Stays(d) \/ Enters(d) \/ Expires(d) \/ Advances(d) \/ Asks(d) \/ Sealing(d) \/ Doubted(d)

-----------------------------------------------------------------------------
(* Whoever calls with a fence of the ledger names one of the controls.      *)
LEMMA BodiesNamed ==
  ASSUME NEW f \in Fences
  PROVE  BodiesOf(f[1], f[2]) \subseteq Bodies
PROOF
  BY DEF BodiesOf, Bodies

(* What SMT needs to see of the small definitions, as facts. *)
LEMMA Shapes ==
  /\ NoPending \in Pending \cup {NoPending} /\ NoPending.revision = 0
  /\ \A t \in Texts : Admitted(t) \in Job /\ Admitted(t).state = "admitted"
       /\ Admitted(t).revision = 1 /\ Admitted(t).run = 1 /\ Admitted(t).text = t
       /\ Admitted(t).pending = NoPending
  /\ Absent \in Job /\ Absent.state = "none" /\ Absent.pending = NoPending
  /\ NoControl \in Control /\ NoControl.state = "none"
PROOF
  <1>1. (CHOOSE t \in Texts : TRUE) \in Texts
    BY LedgerAssumption
  <1>2. QED
    BY <1>1 DEF NoPending, Pending, Admitted, Absent, Job, NoControl, Control, Body,
      Actions, Live, Terminal, Finished

(* A written row is a job one revision later. *)
LEMMA Rows ==
  ASSUME NEW job \in Job, NEW run \in Nat, NEW state \in Live \cup Terminal,
         NEW stored \in Sessions \cup {NoSession}, NEW pending \in Pending \cup {NoPending}
  PROVE  /\ Row(job, run, state, stored, pending) \in Job
         /\ Row(job, run, state, stored, pending).state = state
         /\ Row(job, run, state, stored, pending).run = run
         /\ Row(job, run, state, stored, pending).revision = job.revision + 1
         /\ Row(job, run, state, stored, pending).text = job.text
         /\ Row(job, run, state, stored, pending).stored = stored
         /\ Row(job, run, state, stored, pending).pending = pending
PROOF
  BY DEF Row, Job

(* Every step of the ledger moves each job and its controls in one of the   *)
(* ways above. *)
LEMMA Moves ==
  ASSUME LedgerInv, LedgerNext, NEW d \in Delegations
  PROVE  Move(d)
PROOF
  <1> USE DEF LedgerInv, TypeOK
  <1>0. /\ jobs[d] \in Job /\ controls[d] \in [Requests -> Control]
        /\ jobs[d].run \in Nat /\ jobs[d].revision \in Nat
        /\ jobs[d].stored \in Sessions \cup {NoSession}
        /\ jobs[d].pending \in Pending \cup {NoPending}
        /\ jobs[d].state \in Live \cup Terminal \cup {"none"}
    BY DEF Job
  <1>1. ASSUME NEW e \in Delegations, JobStep(e) PROVE Move(d)
    <2>1. ASSUME NEW t \in Texts, AdmitNew(e, t) PROVE Move(d)
      <3>1. CASE d \in aged
        BY <2>1, <3>1 DEF AdmitNew, Prune, Pruned, Move, Expires, Row, Finished
      <3>2. CASE d \notin aged /\ d = e
        BY <2>1, <3>2 DEF AdmitNew, Prune, Move, Enters
      <3>3. CASE d \notin aged /\ d # e
        BY <2>1, <3>3 DEF AdmitNew, Prune, Pruned, Move, Stays
      <3>4. QED
        BY <3>1, <3>2, <3>3
    <2>2. ASSUME NEW t \in Texts, AdmitAgain(e, t) PROVE Move(d)
      BY <2>2 DEF AdmitAgain, PruneOnly, Prune, Pruned, Move, Expires, Stays, Row
    <2>3. ASSUME NEW f \in Fences, Start(e, f[1], f[2]) PROVE Move(d)
      <3>1. CASE d = e
        <4>1. /\ controls' = controls /\ jobs[d].state \in Live /\ jobs[d].run \in 1 .. MaxRun
              /\ jobs'[d] = Row(jobs[d], jobs[d].run, "dispatching", jobs[d].stored, jobs[d].pending)
          BY <2>3, <3>1 DEF Start, Becomes, Update, Fenced, History, Live
        <4>2. /\ "dispatching" \in Live \cup Finished /\ jobs[d].pending \in Pending \cup {NoPending}
              /\ jobs[d].stored \in Sessions \cup {NoSession}
              /\ "dispatching" = "waiting" <=> jobs[d].pending # NoPending
              /\ "dispatching" = "dispatching" => jobs[d].state \in {"admitted", "dispatching"}
              /\ "dispatching" = "admitted" => jobs[d].state = "admitted"
          BY <1>0, <2>3, <3>1 DEF Start, WaitingIffPending, Live, Finished
        <4>3. QED
          BY <4>1, <4>2 DEF Move, Advances
      <3>2. CASE d # e
        BY <2>3, <3>2 DEF Start, Becomes, Update, Move, Stays
      <3>3. QED
        BY <3>1, <3>2
    <2>4. ASSUME NEW f \in Fences, NEW s \in Sessions \cup {NoSession},
                 Running(e, f[1], f[2], s)
          PROVE  Move(d)
      <3>1. CASE d = e
        <4>1. /\ controls' = controls /\ jobs[d].state \in Live /\ jobs[d].run \in 1 .. MaxRun
              /\ jobs'[d] = Row(jobs[d], jobs[d].run, "running", s, jobs[d].pending)
          BY <2>4, <3>1 DEF Running, Update, Fenced, History, Live
        <4>2. /\ "running" \in Live \cup Finished /\ jobs[d].pending \in Pending \cup {NoPending}
              /\ s \in Sessions \cup {NoSession}
              /\ "running" = "waiting" <=> jobs[d].pending # NoPending
              /\ "running" = "dispatching" => jobs[d].state \in {"admitted", "dispatching"}
              /\ "running" = "admitted" => jobs[d].state = "admitted"
          BY <1>0, <2>4, <3>1 DEF Running, WaitingIffPending, Live, Finished
        <4>3. QED
          BY <4>1, <4>2 DEF Move, Advances
      <3>2. CASE d # e
        BY <2>4, <3>2 DEF Running, Update, Move, Stays
      <3>3. QED
        BY <3>1, <3>2
    <2>5. ASSUME NEW f \in Fences, NEW s \in Sessions, BindStoredSession(e, f[1], f[2], s)
          PROVE  Move(d)
      <3>1. CASE d = e
        <4>1. /\ controls' = controls /\ jobs[d].state \in Live /\ jobs[d].run \in 1 .. MaxRun
              /\ jobs'[d] = Row(jobs[d], jobs[d].run, jobs[d].state, s, jobs[d].pending)
          BY <2>5, <3>1 DEF BindStoredSession, Update, Fenced, History, Live
        <4>2. /\ jobs[d].state \in Live \cup Finished /\ jobs[d].pending \in Pending \cup {NoPending}
              /\ s \in Sessions \cup {NoSession}
              /\ jobs[d].state = "waiting" <=> jobs[d].pending # NoPending
              /\ jobs[d].state = "dispatching" => jobs[d].state \in {"admitted", "dispatching"}
              /\ jobs[d].state = "admitted" => jobs[d].state = "admitted"
          BY <1>0, <2>5, <3>1 DEF BindStoredSession, WaitingIffPending, Live, Finished
        <4>3. QED
          BY <4>1, <4>2 DEF Move, Advances
      <3>2. CASE d # e
        BY <2>5, <3>2 DEF BindStoredSession, Update, Move, Stays
      <3>3. QED
        BY <3>1, <3>2
    <2>6. ASSUME NEW f \in Fences, NEW p \in Prompts, SetPending(e, f[1], f[2], p)
          PROVE  Move(d)
      <3>1. CASE d = e
        <4> DEFINE asked == [id |-> p, revision |-> jobs[d].revision + 1]
        <4>1. asked \in Pending /\ asked # NoPending /\ asked.revision = jobs[d].revision + 1
          BY <1>0 DEF Pending, NoPending
        <4>2. jobs'[d] = Row(jobs[d], jobs[d].run, "waiting", jobs[d].stored, asked)
          BY <2>6, <3>1 DEF SetPending, Becomes, Update
        <4>3. controls' = controls /\ jobs[d].state \in Live /\ jobs[d].run \in 1 .. MaxRun
          BY <2>6, <3>1 DEF SetPending, Becomes, Fenced, History, Live
        <4> HIDE DEF asked
        <4>4. "waiting" \in Live \cup Finished
          BY DEF Live
        <4>5. Advances(d)
          BY <1>0, <4>1, <4>2, <4>3, <4>4 DEF Advances
        <4>6. QED
          BY <4>5 DEF Move
      <3>2. CASE d # e
        BY <2>6, <3>2 DEF SetPending, Becomes, Update, Move, Stays
      <3>3. QED
        BY <3>1, <3>2
    <2>7. ASSUME NEW f \in Fences, NEW s \in Finished, Complete(e, f[1], f[2], s)
          PROVE  Move(d)
      <3>1. CASE d = e
        <4>1. /\ controls' = controls /\ jobs[d].state \in Live /\ jobs[d].run \in 1 .. MaxRun
              /\ jobs'[d] = Row(jobs[d], jobs[d].run, s, jobs[d].stored, NoPending)
          BY <2>7, <3>1 DEF Complete, Becomes, Update, Fenced, History, Live
        <4>2. /\ s \in Live \cup Finished /\ NoPending \in Pending \cup {NoPending}
              /\ jobs[d].stored \in Sessions \cup {NoSession}
              /\ s = "waiting" <=> NoPending # NoPending
              /\ s = "dispatching" => jobs[d].state \in {"admitted", "dispatching"}
              /\ s = "admitted" => jobs[d].state = "admitted"
          BY <1>0, <2>7, <3>1 DEF Complete, WaitingIffPending, Live, Finished
        <4>3. QED
          BY <4>1, <4>2 DEF Move, Advances
      <3>2. CASE d # e
        BY <2>7, <3>2 DEF Complete, Becomes, Update, Move, Stays
      <3>3. QED
        BY <3>1, <3>2
    <2>8. ASSUME NEW f \in Fences, MarkUncertain(e, f[1], f[2]) PROVE Move(d)
      <3>1. CASE d = e
        <4>1. /\ controls' = controls /\ jobs[d].state \in Live /\ jobs[d].run \in 1 .. MaxRun
              /\ jobs'[d] = Row(jobs[d], jobs[d].run, "uncertain", jobs[d].stored, NoPending)
          BY <2>8, <3>1 DEF MarkUncertain, Becomes, Update, Fenced, History, Live
        <4>2. /\ "uncertain" \in Live \cup Finished /\ NoPending \in Pending \cup {NoPending}
              /\ jobs[d].stored \in Sessions \cup {NoSession}
              /\ "uncertain" = "waiting" <=> NoPending # NoPending
              /\ "uncertain" = "dispatching" => jobs[d].state \in {"admitted", "dispatching"}
              /\ "uncertain" = "admitted" => jobs[d].state = "admitted"
          BY <1>0, <2>8, <3>1 DEF MarkUncertain, WaitingIffPending, Live, Finished
        <4>3. QED
          BY <4>1, <4>2 DEF Move, Advances
      <3>2. CASE d # e
        BY <2>8, <3>2 DEF MarkUncertain, Becomes, Update, Move, Stays
      <3>3. QED
        BY <3>1, <3>2
    <2>9. ASSUME NEW f \in Fences, NEW s \in Reconciled, NEW x \in Sessions,
                 Reconcile(e, f[1], f[2], s, x)
          PROVE  Move(d)
      <3>1. CASE d = e
        <4>1. jobs[d].run + 1 \in 1 .. MaxRun
          BY <1>0, <2>9, <3>1, LedgerAssumption DEF Reconcile
        <4>2. s \in Live \cup Finished /\ s \notin {"waiting", "dispatching", "admitted"}
          BY LedgerAssumption DEF Live, Finished
        <4>3. /\ controls' = controls /\ jobs[d].state \in Live
              /\ jobs'[d] = Row(jobs[d], jobs[d].run + 1, s, x, NoPending)
          BY <2>9, <3>1 DEF Reconcile, Update, Live
        <4>4. QED
          BY <4>1, <4>2, <4>3 DEF Move, Advances
      <3>2. CASE d # e
        BY <2>9, <3>2 DEF Reconcile, Update, Move, Stays
      <3>3. QED
        BY <3>1, <3>2
    <2>10. CASE Age(e)
      BY <2>10 DEF Age, Move, Stays
    <2>11. QED
      BY <1>1, <2>1, <2>2, <2>3, <2>4, <2>5, <2>6, <2>7, <2>8, <2>9, <2>10 DEF JobStep
  <1>2. ASSUME NEW e \in Delegations, NEW r \in Requests, ControlStep(e, r) PROVE Move(d)
    <2>1. ASSUME NEW body \in Bodies, AdmitControl(e, r, body) PROVE Move(d)
      <3>1. CASE d = e
        <4>1. /\ controls[d][r].state = "none" /\ InFlight(d) = {}
              /\ jobs[d].state \in {"running", "waiting"} /\ jobs[d].run = body.run
              /\ jobs[d].revision \in 0 .. MaxRevision - 1
          <5>1. jobs[d].revision < MaxRevision
            BY <2>1, <3>1 DEF AdmitControl, Update
          <5>2. jobs[d].revision \in 0 .. MaxRevision - 1
            BY <1>0, <5>1, LedgerAssumption
          <5>3. QED
            BY <2>1, <3>1, <5>2 DEF AdmitControl, Fenced, Controllable
        <4>2. body.action \in Decisions =>
                jobs[d].pending # NoPending /\ jobs[d].pending.revision = body.asked
          BY <2>1, <3>1 DEF AdmitControl, Controllable, Answers
        <4>3. controls'[d] = [controls[d] EXCEPT ![r] =
                [state |-> "admitted", body |-> body, dispatch |-> jobs[d].revision + 1]]
          BY <2>1, <3>1 DEF AdmitControl
        <4>4. \E state \in {"running", "waiting", "cancel_requested"},
                 pending \in {NoPending, jobs[d].pending} :
                /\ jobs'[d] = Row(jobs[d], jobs[d].run, state, jobs[d].stored, pending)
                /\ state = "waiting" <=> pending # NoPending
                /\ body.action \in Decisions => pending = NoPending
          BY <2>1, <3>1, <4>1 DEF AdmitControl, Update, WaitingIffPending, Decisions
        <4>5. QED
          BY <4>1, <4>2, <4>3, <4>4 DEF Move, Asks
      <3>2. CASE d # e
        BY <2>1, <3>2 DEF AdmitControl, Update, Move, Stays
      <3>3. QED
        BY <3>1, <3>2
    <2>2. ASSUME NEW f \in Fences, FinishAccepted(e, r, f[1], f[2]) PROVE Move(d)
      BY <2>2 DEF FinishAccepted, Receives, Seal, Move, Sealing, Stays
    <2>3. ASSUME NEW f \in Fences, FinishFailed(e, r, f[1], f[2]) PROVE Move(d)
      <3>1. CASE d = e
        <4>1. controls[d][r].state = "admitted" /\ jobs[d].run = f[1]
          BY <2>3, <3>1 DEF FinishFailed, Receives
        <4>2. controls'[d] = [controls[d] EXCEPT ![r] =
                [state |-> "uncertain", body |-> controls[d][r].body,
                 dispatch |-> controls[d][r].dispatch]]
          BY <2>3, <3>1 DEF FinishFailed, Seal
        <4>3. \/ jobs'[d] = jobs[d]
              \/ /\ jobs[d].state \notin Terminal \cup {"none"}
                 /\ jobs'[d] = Row(jobs[d], jobs[d].run, "uncertain", jobs[d].stored,
                                   NoPending)
          BY <1>0, <2>3, <3>1, <4>1 DEF FinishFailed, Update, History
        <4>4. QED
          BY <4>1, <4>2, <4>3 DEF Move, Sealing
      <3>2. CASE d # e
        BY <2>3, <3>2 DEF FinishFailed, Seal, Update, Move, Stays
      <3>3. QED
        BY <3>1, <3>2
    <2>4. QED
      BY <1>2, <2>1, <2>2, <2>3, BodiesNamed DEF ControlStep
  <1>3. CASE PruneOnly
    BY <1>3 DEF PruneOnly, Prune, Pruned, Move, Expires, Stays, Row
  <1>4. CASE Open
    BY <1>4 DEF Open, Move, Doubted
  <1>5. QED
    BY <1>1, <1>2, <1>3, <1>4 DEF LedgerNext

-----------------------------------------------------------------------------
(* A move keeps the types. *)
LEMMA MoveTypes ==
  ASSUME LedgerInv, NEW d \in Delegations, Move(d)
  PROVE  jobs'[d] \in Job /\ controls'[d] \in [Requests -> Control]
PROOF
  <1>0. /\ jobs[d] \in Job /\ controls[d] \in [Requests -> Control]
        /\ jobs[d].run \in Nat /\ jobs[d].revision \in Nat
        /\ jobs[d].stored \in Sessions \cup {NoSession}
        /\ jobs[d].pending \in Pending \cup {NoPending}
    BY DEF LedgerInv, TypeOK, Job
  <1>1. CASE Stays(d)
    BY <1>0, <1>1 DEF Stays
  <1>2. CASE Enters(d)
    BY <1>0, <1>2, Shapes DEF Enters
  <1>3. CASE Expires(d)
    <2>1. "expired" \in Live \cup Terminal /\ NoPending \in Pending \cup {NoPending}
      BY DEF Terminal
    <2>2. Row(jobs[d], jobs[d].run, "expired", jobs[d].stored, NoPending) \in Job
      BY <1>0, <2>1, Rows
    <2>3. QED
      BY <1>3, <2>2, Shapes DEF Expires
  <1>4. CASE Advances(d)
    BY <1>0, <1>4, Rows, LedgerAssumption DEF Advances, Terminal
  <1>5. CASE Asks(d)
    <2>1. PICK r \in Requests, body \in Bodies :
            controls'[d] = [controls[d] EXCEPT ![r] =
              [state |-> "admitted", body |-> body, dispatch |-> jobs[d].revision + 1]]
      BY <1>5 DEF Asks
    <2>2. body \in Body
      BY LedgerAssumption DEF Bodies, Body, Decision, Order, Fences, Revisions, Actions,
        Decisions
    <2>3. controls'[d] \in [Requests -> Control]
      BY <1>0, <2>1, <2>2 DEF Control
    <2>4. jobs'[d] \in Job
      <3>1. PICK state \in {"running", "waiting", "cancel_requested"},
                 pending \in {NoPending, jobs[d].pending} :
              jobs'[d] = Row(jobs[d], jobs[d].run, state, jobs[d].stored, pending)
        BY <1>5 DEF Asks
      <3>2. state \in Live \cup Terminal /\ pending \in Pending \cup {NoPending}
        BY <1>0 DEF Live
      <3>3. Row(jobs[d], jobs[d].run, state, jobs[d].stored, pending) \in Job
        BY <1>0, <3>2, Rows
      <3>4. QED
        BY <3>1, <3>3
    <2>5. QED
      BY <2>3, <2>4
  <1>6. CASE Sealing(d)
    <2>1. controls'[d] \in [Requests -> Control]
      BY <1>0, <1>6 DEF Sealing, Control
    <2>2. jobs'[d] \in Job
      BY <1>0, <1>6, Rows, Shapes DEF Sealing, Live
    <2>3. QED
      BY <2>1, <2>2
  <1>7. CASE Doubted(d)
    <2>1. controls'[d] \in [Requests -> Control]
      BY <1>0, <1>7 DEF Doubted, Control
    <2>2. jobs'[d] \in Job
      <3>1. "uncertain" \in Live \cup Terminal /\ NoPending \in Pending \cup {NoPending}
        BY DEF Live
      <3>2. Row(jobs[d], jobs[d].run, "uncertain", jobs[d].stored, NoPending) \in Job
        BY <1>0, <3>1, Rows
      <3>3. jobs'[d] = Reopened(jobs[d])
        BY <1>7 DEF Doubted
      <3>4. QED
        BY <1>0, <3>2, <3>3 DEF Reopened
    <2>3. QED
      BY <2>1, <2>2
  <1>8. QED
    BY <1>1, <1>2, <1>3, <1>4, <1>5, <1>6, <1>7 DEF Move

(* The parts of the invariant, for one job. *)
Paired(d) == (jobs[d].state = "waiting") <=> (jobs[d].pending # NoPending)
Past(d) ==
  /\ jobs[d].state # "none" => jobs[d].run \in 1 .. MaxRun /\ jobs[d].revision >= 1
  /\ jobs[d].pending # NoPending => jobs[d].pending.revision <= jobs[d].revision
  /\ \A r \in Requests :
       /\ controls[d][r].state # "none" =>
            jobs[d].state # "none" /\ controls[d][r].dispatch \in 1 .. MaxRevision
       /\ Decided(d, r) =>
            /\ controls[d][r].body.asked <= jobs[d].revision
            /\ jobs[d].pending # NoPending =>
                 controls[d][r].body.asked < jobs[d].pending.revision
Single(d) == \A r1, r2 \in Requests : r1 \in InFlight(d) /\ r2 \in InFlight(d) => r1 = r2
Answered(d) ==
  \A r1, r2 \in Requests :
    Decided(d, r1) /\ Decided(d, r2) /\ controls[d][r1].body.asked = controls[d][r2].body.asked
    => r1 = r2

LEMMA Parts ==
  LedgerInv <=> TypeOK /\ \A d \in Delegations : Paired(d) /\ Past(d) /\ Single(d) /\ Answered(d)
PROOF
  BY DEF LedgerInv, WaitingIffPending, History, OneInFlight, AnsweredOnce, Paired, Past,
    Single, Answered, Decided, Sealed

(* Questions stay paired with waiting, and revisions only grow. *)
LEMMA MovePairs ==
  ASSUME LedgerInv, NEW d \in Delegations, Move(d)
  PROVE  Paired(d)'
PROOF
  <1>0. /\ jobs[d] \in Job /\ Paired(d)
        /\ jobs[d].stored \in Sessions \cup {NoSession}
        /\ jobs[d].run \in Nat /\ jobs[d].pending \in Pending \cup {NoPending}
    BY Parts DEF LedgerInv, TypeOK, Job
  <1>1. CASE Stays(d) \/ Enters(d)
    BY <1>0, <1>1, Shapes DEF Stays, Enters, Paired
  <1>2. CASE Expires(d)
    BY <1>2 DEF Expires, Row, Paired
  <1>3. CASE Advances(d)
    BY <1>3 DEF Advances, Row, Paired
  <1>4. CASE Asks(d)
    BY <1>4 DEF Asks, Row, Paired
  <1>5. CASE Sealing(d)
    BY <1>0, <1>5 DEF Sealing, Row, Paired
  <1>6. CASE Doubted(d)
    BY <1>0, <1>6 DEF Doubted, Reopened, Row, Paired, Live
  <1>7. QED
    BY <1>1, <1>2, <1>3, <1>4, <1>5, <1>6 DEF Move

LEMMA MovePast ==
  ASSUME LedgerInv, NEW d \in Delegations, Move(d)
  PROVE  Past(d)'
PROOF
  <1>0. /\ jobs[d] \in Job /\ Past(d) /\ controls[d] \in [Requests -> Control]
        /\ jobs[d].stored \in Sessions \cup {NoSession} /\ jobs[d].revision \in Nat
        /\ jobs[d].run \in Nat /\ jobs[d].pending \in Pending \cup {NoPending}
        /\ \A r \in Requests : /\ controls[d][r].body.asked \in Nat
                                /\ controls[d][r].dispatch \in Nat
    BY Parts DEF LedgerInv, TypeOK, Job, Control, Body
  <1>1. CASE Stays(d)
    BY <1>0, <1>1 DEF Stays, Past, Decided
  <1>2. CASE Enters(d)
    BY <1>0, <1>2, Shapes, LedgerAssumption DEF Enters, Past, Decided
  <1>3. CASE Expires(d)
    BY <1>0, <1>3, Shapes, LedgerAssumption DEF Expires, Row, Past, Decided, Finished
  <1>4. CASE Advances(d)
    BY <1>0, <1>4 DEF Advances, Row, Past, Decided, Live, Finished, Pending
  <1>5. CASE Asks(d)
    <2>1. PICK r \in Requests, body \in Bodies :
            /\ jobs[d].state \in {"running", "waiting"}
            /\ jobs[d].revision \in 0 .. MaxRevision - 1
            /\ body.action \in Decisions =>
                 jobs[d].pending # NoPending /\ jobs[d].pending.revision = body.asked
            /\ \E state \in {"running", "waiting", "cancel_requested"},
                  pending \in {NoPending, jobs[d].pending} :
                 /\ jobs'[d] = Row(jobs[d], jobs[d].run, state, jobs[d].stored, pending)
                 /\ state = "waiting" <=> pending # NoPending
                 /\ body.action \in Decisions => pending = NoPending
            /\ controls'[d] = [controls[d] EXCEPT ![r] =
                 [state |-> "admitted", body |-> body, dispatch |-> jobs[d].revision + 1]]
      BY <1>5, Zenon DEF Asks
    <2>2. \A q \in Requests \ {r} : controls'[d][q] = controls[d][q]
      BY <1>0, <2>1
    <2>3. controls'[d][r] =
            [state |-> "admitted", body |-> body, dispatch |-> jobs[d].revision + 1]
      BY <1>0, <2>1
    <2>4. /\ jobs'[d].state # "none" /\ jobs'[d].run = jobs[d].run
          /\ jobs'[d].revision = jobs[d].revision + 1
          /\ jobs'[d].pending \in {NoPending, jobs[d].pending}
          /\ body.action \in Decisions => jobs'[d].pending = NoPending
      BY <2>1 DEF Row
    <2>5. jobs'[d].pending # NoPending => jobs'[d].pending.revision \in Nat
      BY <1>0, <2>4 DEF Pending
    <2>6. /\ jobs'[d].run \in 1 .. MaxRun /\ jobs'[d].revision >= 1
          /\ jobs'[d].pending # NoPending => jobs'[d].pending.revision <= jobs'[d].revision
      BY <1>0, <2>1, <2>4, <2>5 DEF Past
    <2>7. ASSUME NEW q \in Requests \ {r}
          PROVE  /\ controls'[d][q].state # "none" => controls'[d][q].dispatch \in 1 .. MaxRevision
                 /\ Decided(d, q)' =>
                      /\ controls'[d][q].body.asked <= jobs'[d].revision
                      /\ jobs'[d].pending # NoPending =>
                           controls'[d][q].body.asked < jobs'[d].pending.revision
      BY <1>0, <2>2, <2>4 DEF Past, Decided
    <2>8. /\ controls'[d][r].dispatch \in 1 .. MaxRevision
          /\ Decided(d, r)' =>
               /\ controls'[d][r].body.asked <= jobs'[d].revision
               /\ jobs'[d].pending = NoPending
      <3>1. jobs[d].pending # NoPending => jobs[d].pending.revision \in Nat
        BY <1>0 DEF Pending
      <3>2. body.action \in Decisions => body.asked <= jobs[d].revision + 1
        BY <1>0, <2>1, <3>1 DEF Past
      <3>3. controls'[d][r].dispatch \in 1 .. MaxRevision
        BY <1>0, <2>1, <2>3, LedgerAssumption
      <3>4. controls'[d][r].body = body
        BY <2>3
      <3>5. QED
        BY <2>4, <3>2, <3>3, <3>4 DEF Decided
    <2>9. QED
      BY <2>4, <2>6, <2>7, <2>8 DEF Past
  <1>6. CASE Sealing(d)
    BY <1>0, <1>6 DEF Sealing, Row, Past, Decided, Pending
  <1>7. CASE Doubted(d)
    BY <1>0, <1>7 DEF Doubted, Reopened, Row, Past, Decided, Pending, Live
  <1>8. QED
    BY <1>1, <1>2, <1>3, <1>4, <1>5, <1>6, <1>7 DEF Move

LEMMA MoveSingle ==
  ASSUME LedgerInv, NEW d \in Delegations, Move(d)
  PROVE  Single(d)'
PROOF
  <1>0. Single(d) /\ controls[d] \in [Requests -> Control]
    BY Parts DEF LedgerInv, TypeOK
  <1>1. CASE Stays(d) \/ Enters(d) \/ Advances(d)
    BY <1>0, <1>1 DEF Stays, Enters, Advances, Single, InFlight
  <1>2. CASE Expires(d)
    BY <1>2, Shapes DEF Expires, Single, InFlight, NoControl
  <1>3. CASE Asks(d)
    BY <1>0, <1>3 DEF Asks, Single, InFlight
  <1>4. CASE Sealing(d)
    BY <1>0, <1>4 DEF Sealing, Single, InFlight
  <1>5. CASE Doubted(d)
    BY <1>0, <1>5 DEF Doubted, Single, InFlight
  <1>6. QED
    BY <1>1, <1>2, <1>3, <1>4, <1>5 DEF Move

LEMMA MoveAnswered ==
  ASSUME LedgerInv, NEW d \in Delegations, Move(d)
  PROVE  Answered(d)'
PROOF
  <1>0. /\ Answered(d) /\ Past(d) /\ controls[d] \in [Requests -> Control]
        /\ jobs[d].revision \in Nat
        /\ \A r \in Requests : controls[d][r].body.asked \in Nat
    BY Parts DEF LedgerInv, TypeOK, Job, Control, Body
  <1>1. CASE Stays(d) \/ Enters(d) \/ Advances(d)
    BY <1>0, <1>1 DEF Stays, Enters, Advances, Answered, Decided
  <1>2. CASE Expires(d)
    BY <1>2, Shapes DEF Expires, Answered, Decided
  <1>3. CASE Asks(d)
    <2>1. PICK r \in Requests, body \in Bodies :
            /\ body.action \in Decisions =>
                 jobs[d].pending # NoPending /\ jobs[d].pending.revision = body.asked
            /\ controls'[d] = [controls[d] EXCEPT ![r] =
                 [state |-> "admitted", body |-> body, dispatch |-> jobs[d].revision + 1]]
      BY <1>3 DEF Asks
    <2>2. \A q \in Requests \ {r} : controls'[d][q] = controls[d][q]
      BY <1>0, <2>1
    <2>3. controls'[d][r].body = body
      BY <1>0, <2>1
    <2>4. \A q \in Requests : Decided(d, q) /\ body.action \in Decisions =>
            controls[d][q].body.asked < body.asked
      BY <1>0, <2>1 DEF Past
    <2>5. body.asked \in Nat
      BY <2>3, LedgerAssumption DEF Bodies, Decision, Order, Revisions
    <2>6. ASSUME NEW q1 \in Requests, NEW q2 \in Requests, Decided(d, q1)', Decided(d, q2)',
                 controls'[d][q1].body.asked = controls'[d][q2].body.asked
          PROVE  q1 = q2
      <3>1. \A q \in Requests \ {r} : Decided(d, q)' => Decided(d, q)
        BY <2>2 DEF Decided
      <3>2. Decided(d, r)' => body.action \in Decisions
        BY <2>3 DEF Decided
      <3>3. CASE q1 # r /\ q2 # r
        BY <1>0, <2>2, <2>6, <3>1, <3>3 DEF Answered
      <3>4. CASE q1 = r /\ q2 # r
        BY <1>0, <2>2, <2>3, <2>4, <2>5, <2>6, <3>1, <3>2, <3>4
      <3>5. CASE q1 # r /\ q2 = r
        BY <1>0, <2>2, <2>3, <2>4, <2>5, <2>6, <3>1, <3>2, <3>5
      <3>6. QED
        BY <3>3, <3>4, <3>5
    <2>7. QED
      BY <2>6 DEF Answered
  <1>4. CASE Sealing(d)
    BY <1>0, <1>4 DEF Sealing, Answered, Decided
  <1>5. CASE Doubted(d)
    BY <1>0, <1>5 DEF Doubted, Answered, Decided
  <1>6. QED
    BY <1>1, <1>2, <1>3, <1>4, <1>5 DEF Move

-----------------------------------------------------------------------------
LEMMA LedgerStarts == LedgerInit => LedgerInv
PROOF
  <1> SUFFICES ASSUME LedgerInit PROVE LedgerInv
    OBVIOUS
  <1>1. jobs = [d \in Delegations |-> Absent]
        /\ controls = [d \in Delegations |-> [r \in Requests |-> NoControl]] /\ aged = {}
    BY DEF LedgerInit
  <1>2. TypeOK
    BY <1>1, Shapes DEF TypeOK
  <1>3. \A d \in Delegations : Paired(d) /\ Past(d) /\ Single(d) /\ Answered(d)
    BY <1>1, Shapes DEF Paired, Past, Single, Answered, Decided, InFlight, Absent
  <1>4. QED
    BY <1>2, <1>3, Parts

(* Only finished jobs age, and they age where they stand. *)
LEMMA AgedFinished ==
  ASSUME LedgerInv, LedgerNext
  PROVE  aged' \subseteq {d \in Delegations : jobs'[d].state \in Finished}
PROOF
  <1>1. aged \subseteq {d \in Delegations : jobs[d].state \in Finished}
    BY DEF LedgerInv, TypeOK
  <1>2. CASE aged' = {}
    BY <1>2
  <1>3. CASE \E d \in Delegations : Age(d)
    BY <1>1, <1>3 DEF Age
  <1>4. CASE aged' = aged /\ \A d \in Delegations : jobs[d].state \in Finished => jobs'[d] = jobs[d]
    BY <1>1, <1>4
  <1>5. CASE PruneOnly \/ Open
    BY <1>2, <1>4, <1>5 DEF PruneOnly, Prune, Open, Reopened, Live, Finished
  <1>6. ASSUME NEW e \in Delegations, JobStep(e)
        PROVE  \/ aged' = {} \/ Age(e)
               \/ aged' = aged /\ \A d \in Delegations :
                    jobs[d].state \in Finished => jobs'[d] = jobs[d]
    <2>1. ASSUME NEW t \in Texts, AdmitNew(e, t) \/ AdmitAgain(e, t) PROVE aged' = {}
      BY <2>1 DEF AdmitNew, AdmitAgain, PruneOnly, Prune
    <2>2. ASSUME jobs[e].state \notin Finished, NEW run, NEW state, NEW stored, NEW pending,
                 Update(e, run, state, stored, pending)
          PROVE  aged' = aged /\ \A d \in Delegations :
                   jobs[d].state \in Finished => jobs'[d] = jobs[d]
      BY <2>2 DEF Update, LedgerInv, TypeOK
    <2>3. ASSUME NEW f \in Fences,
                 \/ Start(e, f[1], f[2])
                 \/ \E s \in Sessions \cup {NoSession} : Running(e, f[1], f[2], s)
                 \/ \E s \in Sessions : BindStoredSession(e, f[1], f[2], s)
                 \/ \E p \in Prompts : SetPending(e, f[1], f[2], p)
                 \/ \E s \in Finished : Complete(e, f[1], f[2], s)
                 \/ MarkUncertain(e, f[1], f[2])
                 \/ \E s \in Reconciled, x \in Sessions : Reconcile(e, f[1], f[2], s, x)
          PROVE  jobs[e].state \notin Finished
                 /\ \E run, state, stored, pending : Update(e, run, state, stored, pending)
      BY <2>3 DEF Start, Running, BindStoredSession, SetPending, Complete, MarkUncertain,
        Reconcile, Becomes, Live, Finished
    <2>4. QED
      BY <1>6, <2>1, <2>2, <2>3 DEF JobStep
  <1>7. ASSUME NEW e \in Delegations, NEW r \in Requests, ControlStep(e, r)
        PROVE  aged' = aged /\ \A d \in Delegations :
                 jobs[d].state \in Finished => jobs'[d] = jobs[d]
    BY <1>7 DEF ControlStep, AdmitControl, Controllable, FinishAccepted, FinishFailed, Update,
      Finished, Terminal, LedgerInv, TypeOK
  <1>8. QED
    BY <1>2, <1>3, <1>4, <1>5, <1>6, <1>7 DEF LedgerNext

(* A step leaves functions over the same delegations. *)
LEMMA StepShape ==
  ASSUME LedgerInv, LedgerNext
  PROVE  /\ jobs' = [d \in Delegations |-> jobs'[d]]
         /\ controls' = [d \in Delegations |-> controls'[d]]
PROOF
  <1> USE DEF LedgerInv, TypeOK
  <1>1. CASE PruneOnly \/ Open
    BY <1>1 DEF PruneOnly, Prune, Open
  <1>2. ASSUME NEW e \in Delegations, JobStep(e)
        PROVE  /\ jobs' = [d \in Delegations |-> jobs'[d]]
               /\ controls' = [d \in Delegations |-> controls'[d]]
    BY <1>2 DEF JobStep, AdmitNew, AdmitAgain, PruneOnly, Prune, Start, Running,
      BindStoredSession, SetPending, Complete, MarkUncertain, Reconcile, Becomes, Update, Age
  <1>3. ASSUME NEW e \in Delegations, NEW r \in Requests, ControlStep(e, r)
        PROVE  /\ jobs' = [d \in Delegations |-> jobs'[d]]
               /\ controls' = [d \in Delegations |-> controls'[d]]
    BY <1>3 DEF ControlStep, AdmitControl, FinishAccepted, FinishFailed, Seal, Update
  <1>4. QED
    BY <1>1, <1>2, <1>3 DEF LedgerNext

(* The invariant of the ledger is inductive. *)
LEMMA LedgerStep == LedgerInv /\ [LedgerNext]_ledgerVars => LedgerInv'
PROOF
  <1> SUFFICES ASSUME LedgerInv, [LedgerNext]_ledgerVars PROVE LedgerInv'
    OBVIOUS
  <1>1. CASE LedgerNext
    <2>1. \A d \in Delegations : Move(d)
      BY <1>1, Moves
    <2>2. \A d \in Delegations : jobs'[d] \in Job /\ controls'[d] \in [Requests -> Control]
      BY <2>1, MoveTypes
    <2>3. jobs' = [d \in Delegations |-> jobs'[d]] /\ controls' = [d \in Delegations |-> controls'[d]]
      BY <1>1, StepShape
    <2>4. TypeOK'
      BY <1>1, <2>2, <2>3, AgedFinished DEF TypeOK
    <2>5. \A d \in Delegations : Paired(d)' /\ Past(d)' /\ Single(d)' /\ Answered(d)'
      BY <2>1, MovePairs, MovePast, MoveSingle, MoveAnswered
    <2>6. LedgerInv' <=>
            TypeOK' /\ \A d \in Delegations : Paired(d)' /\ Past(d)' /\ Single(d)' /\ Answered(d)'
      BY DEF LedgerInv, WaitingIffPending, History, OneInFlight, AnsweredOnce, Paired, Past,
        Single, Answered, Decided, Sealed
    <2>7. QED
      BY <2>4, <2>5, <2>6
  <1>2. CASE UNCHANGED ledgerVars
    BY <1>2 DEF ledgerVars, LedgerInv, TypeOK, WaitingIffPending, History, OneInFlight,
      AnsweredOnce, Decided, Sealed, InFlight
  <1>3. QED
    BY <1>1, <1>2

LEMMA LedgerInductive == LedgerSpec => []LedgerInv
PROOF
  BY LedgerStarts, LedgerStep, PTL DEF LedgerSpec

-----------------------------------------------------------------------------
(* Every reachable state of the ledger has the shape of its two tables. *)
THEOREM LedgerTyping == LedgerSpec => []TypeOK
PROOF
  BY LedgerInductive, PTL DEF LedgerInv

(* A job waits exactly while it asks a question. *)
THEOREM QuestionsPaired == LedgerSpec => []WaitingIffPending
PROOF
  BY LedgerInductive, PTL DEF LedgerInv

(* A job has at most one control without a receipt. *)
THEOREM OneControlInFlight == LedgerSpec => []OneInFlight
PROOF
  BY LedgerInductive, PTL DEF LedgerInv

(* No question is answered twice. *)
THEOREM NoSecondAnswer == LedgerSpec => []AnsweredOnce
PROOF
  BY LedgerInductive, PTL DEF LedgerInv

(* What any single move keeps of a job's past. *)
LEMMA MoveKeeps ==
  ASSUME LedgerInv, NEW d \in Delegations, Move(d)
  PROVE  /\ jobs[d].state # "none" => jobs'[d].state # "none" /\ jobs'[d].text = jobs[d].text
         /\ jobs[d].state \in Terminal =>
              jobs'[d].state \in {jobs[d].state, "expired"} /\ jobs'[d].run = jobs[d].run
         /\ jobs[d].state \notin {"none", "admitted"} =>
              jobs'[d].state \notin {"none", "admitted"}
         /\ jobs'[d].state = "dispatching" /\ jobs[d].state # "dispatching" =>
              jobs[d].state = "admitted"
PROOF
  <1>0. jobs[d] \in Job /\ Past(d)
    BY Parts DEF LedgerInv, TypeOK
  <1>1. CASE Stays(d)
    BY <1>1 DEF Stays
  <1>2. CASE Enters(d)
    BY <1>2, Shapes DEF Enters, Terminal, Finished
  <1>3. CASE Expires(d)
    BY <1>3 DEF Expires, Row, Terminal, Finished
  <1>4. CASE Advances(d)
    BY <1>4 DEF Advances, Row, Terminal, Finished, Live
  <1>5. CASE Asks(d)
    BY <1>5 DEF Asks, Row, Terminal, Finished
  <1>6. CASE Sealing(d)
    BY <1>6 DEF Sealing, Row, Terminal, Finished
  <1>7. CASE Doubted(d)
    BY <1>7 DEF Doubted, Reopened, Row, Terminal, Finished, Live
  <1>8. QED
    BY <1>1, <1>2, <1>3, <1>4, <1>5, <1>6, <1>7 DEF Move

(* A delegation is never forgotten and never changes its text. *)
THEOREM ReplaysRecognised == LedgerSpec => ReplayFence
PROOF
  <1>1. LedgerInv /\ [LedgerNext]_ledgerVars =>
          [\A d \in Delegations : jobs[d].state # "none" =>
             jobs'[d].state # "none" /\ jobs'[d].text = jobs[d].text]_ledgerVars
    BY Moves, MoveKeeps
  <1>2. QED
    BY <1>1, LedgerInductive, PTL DEF LedgerSpec, ReplayFence

(* Work in doubt, finished or expired is never dispatched again. *)
THEOREM NeverSentAgain == LedgerSpec => DispatchedFresh
PROOF
  <1>1. LedgerInv /\ [LedgerNext]_ledgerVars =>
          [\A d \in Delegations :
             jobs'[d].state = "dispatching" /\ jobs[d].state # "dispatching" =>
               jobs[d].state = "admitted"]_ledgerVars
    BY Moves, MoveKeeps
  <1>2. QED
    BY <1>1, LedgerInductive, PTL DEF LedgerSpec, DispatchedFresh

(* A reported end is final. *)
THEOREM EndsAreFinal == LedgerSpec => EndIsFinal
PROOF
  <1>1. LedgerInv /\ [LedgerNext]_ledgerVars =>
          [\A d \in Delegations : jobs[d].state \in Terminal =>
             jobs'[d].state \in {jobs[d].state, "expired"} /\ jobs'[d].run = jobs[d].run]_ledgerVars
    BY Moves, MoveKeeps
  <1>2. QED
    BY <1>1, LedgerInductive, PTL DEF LedgerSpec, EndIsFinal

-----------------------------------------------------------------------------
(* The orchestrator over the ledger.                                        *)
OneTask ==
  \A d \in Delegations :
    /\ submitted[d] \in {0, 1}
    /\ jobs[d].state \in {"none", "admitted"} => submitted[d] = 0
    /\ \A t \in tasks : t.request = NoRequest /\ t.d = d =>
         /\ jobs[d].state \notin {"none", "admitted"}
         /\ t.phase = "spawned" => submitted[d] = 0
         /\ \A u \in tasks : u.request = NoRequest /\ u.d = d => u = t

TaskShapes == tasks \subseteq Tasks /\ submitted \in [Delegations -> Nat]

JobsInv == LedgerInv /\ TaskShapes /\ OneTask

LEMMA RunBounds == 1 \in 1 .. MaxRun
PROOF
  BY LedgerAssumption

(* A fence that passes is one the ledger can be called with. *)
LEMMA FencesNamed ==
  ASSUME LedgerInv, NEW d \in Delegations, NEW run, NEW revision,
         Fenced(d, run, revision), jobs[d].revision < MaxRevision
  PROVE  <<run, revision>> \in Fences
PROOF
  BY LedgerAssumption DEF Fenced, LedgerInv, History, Fences, Revisions, TypeOK, Job

(* Every step of the orchestrator is a step of the ledger, or leaves it     *)
(* alone. *)
LEMMA StepImplements ==
  ASSUME JobsInv, Next
  PROVE  LedgerNext \/ UNCHANGED ledgerVars
PROOF
  <1>1. ASSUME NEW d \in Delegations, NEW t \in Texts, Delegate(d, t)
        PROVE  LedgerNext
    BY <1>1 DEF Delegate, LedgerNext, JobStep
  <1>2. ASSUME NEW d \in Delegations, Claim(d) PROVE LedgerNext
    <2>1. Start(d, 1, 1) /\ Fenced(d, 1, 1) /\ jobs[d].revision < MaxRevision
      BY <1>2 DEF Claim, Start, Becomes, Update
    <2>2. <<1, 1>> \in Fences
      BY <2>1, FencesNamed DEF JobsInv
    <2>3. JobStep(d)
      BY <2>1, <2>2 DEF JobStep
    <2>4. QED
      BY <2>3 DEF LedgerNext
  <1>3. ASSUME NEW d \in Delegations, Observe(d) PROVE LedgerNext
    <2> DEFINE run == jobs[d].run
               rev == jobs[d].revision
    <2>1. \/ \E s \in Finished : Complete(d, run, rev, s)
          \/ \E s \in Sessions \cup {NoSession} : Running(d, run, rev, s)
          \/ \E s \in Sessions : BindStoredSession(d, run, rev, s)
          \/ \E p \in Prompts : SetPending(d, run, rev, p)
          \/ MarkUncertain(d, run, rev)
      BY <1>3 DEF Observe
    <2>2. Fenced(d, run, rev) /\ jobs[d].revision < MaxRevision
      BY <2>1 DEF Complete, Running, BindStoredSession, SetPending, MarkUncertain,
        Becomes, Update
    <2>3. <<run, rev>> \in Fences
      BY <2>2, FencesNamed DEF JobsInv
    <2> HIDE DEF run, rev
    <2>4. JobStep(d)
      BY <2>1, <2>3 DEF JobStep
    <2>5. QED
      BY <2>4 DEF LedgerNext
  <1>4. ASSUME NEW d \in Delegations, Expire(d) PROVE LedgerNext
    BY <1>4 DEF Expire, LedgerNext, JobStep
  <1>5. ASSUME NEW d \in Delegations, NEW r \in Requests,
               NEW body \in BodiesOf(jobs[d].run, jobs[d].revision), RequestControl(d, r, body)
        PROVE  LedgerNext
    <2> DEFINE f == <<jobs[d].run, jobs[d].revision>>
    <2>1. AdmitControl(d, r, body) /\ f[1] = jobs[d].run /\ f[2] = jobs[d].revision
      BY <1>5 DEF RequestControl
    <2>2. Fenced(d, body.run, body.expected) /\ jobs[d].revision < MaxRevision
      BY <2>1 DEF AdmitControl, Update
    <2>3. Fenced(d, f[1], f[2]) /\ f \in Fences
      BY <2>2, FencesNamed DEF JobsInv, Fenced
    <2> HIDE DEF f
    <2>4. ControlStep(d, r)
      BY <2>1, <2>3 DEF ControlStep
    <2>5. QED
      BY <2>4 DEF LedgerNext
  <1>6. ASSUME NEW t \in tasks, TaskStep(t) PROVE LedgerNext \/ UNCHANGED ledgerVars
    <2>0. t \in Tasks /\ t.d \in Delegations /\ t.request \in Requests \cup {NoRequest}
      BY DEF JobsInv, TaskShapes, Tasks
    <2>1. Doubt(t) => LedgerNext \/ UNCHANGED ledgerVars
      <3> SUFFICES ASSUME MarkUncertain(t.d, t.run, t.revision) PROVE LedgerNext
        BY DEF Doubt
      <3>1. Fenced(t.d, t.run, t.revision) /\ jobs[t.d].revision < MaxRevision
        BY DEF MarkUncertain, Becomes, Update
      <3>2. <<t.run, t.revision>> \in Fences
        BY <2>0, <3>1, FencesNamed DEF JobsInv
      <3>3. JobStep(t.d)
        BY <3>2 DEF JobStep
      <3>4. QED
        BY <2>0, <3>3 DEF LedgerNext
    <2>2. ASSUME NEW s \in Sessions \cup {NoSession}, Running(t.d, t.run, t.revision, s)
          PROVE  LedgerNext
      <3>1. Fenced(t.d, t.run, t.revision) /\ jobs[t.d].revision < MaxRevision
        BY <2>2 DEF Running, Update
      <3>2. <<t.run, t.revision>> \in Fences
        BY <2>0, <3>1, FencesNamed DEF JobsInv
      <3>3. JobStep(t.d)
        BY <2>2, <3>2 DEF JobStep
      <3>4. QED
        BY <2>0, <3>3 DEF LedgerNext
    <2>3. ASSUME NEW ok, t.request # NoRequest, Receipt(t, ok)
          PROVE  LedgerNext \/ UNCHANGED ledgerVars
      <3> SUFFICES ASSUME \/ FinishAccepted(t.d, t.request, t.run, t.revision)
                          \/ FinishFailed(t.d, t.request, t.run, t.revision)
                   PROVE  LedgerNext
        BY <2>3 DEF Receipt
      <3>1. t.request \in Requests
        BY <2>0, <2>3
      <3>2. Receives(t.d, t.request, t.run, t.revision)
        BY DEF FinishAccepted, FinishFailed
      <3>3. t.run \in 1 .. MaxRun /\ t.revision \in Revisions
        BY <2>0, <3>1, <3>2 DEF Receives, JobsInv, LedgerInv, History, Revisions
      <3>4. <<t.run, t.revision>> \in Fences
        BY <3>3 DEF Fences
      <3>5. ControlStep(t.d, t.request)
        BY <3>4 DEF ControlStep
      <3>6. QED
        BY <2>0, <3>1, <3>5 DEF LedgerNext
    <2>4. QED
      BY <1>6, <2>1, <2>2, <2>3 DEF TaskStep, BeginSubmit, EndSubmit, BeginControl, EndControl
  <1>7. CASE OwnerChanges \/ Retire \/ Close \/ Crash
    BY <1>7 DEF OwnerChanges, Retire, Close, Crash
  <1>8. CASE Restart
    BY <1>8 DEF Restart, LedgerNext
  <1>9. QED
    BY <1>1, <1>2, <1>3, <1>4, <1>5, <1>6, <1>7, <1>8 DEF Next

(* What a step does to the tasks that submit and to their count. *)
LEMMA StepTasks ==
  ASSUME JobsInv, Next
  PROVE  TaskShapes' /\ OneTask'
PROOF
  <1> USE DEF JobsInv, TaskShapes
  <1>1. \A d \in Delegations : jobs[d].state \notin {"none", "admitted"} =>
                               jobs'[d].state \notin {"none", "admitted"}
    BY StepImplements, Moves, MoveKeeps DEF ledgerVars
  <1>2. CASE tasks' \subseteq tasks /\ submitted' = submitted
    BY <1>1, <1>2 DEF OneTask
  <1>3. ASSUME NEW d \in Delegations, Claim(d) PROVE TaskShapes' /\ OneTask'
    <2> DEFINE new == Submit(d, 1, 2, "spawned")
    <2>1. tasks' = tasks \cup {new} /\ submitted' = submitted
      BY <1>3 DEF Claim
    <2>2. new \in Tasks /\ new.d = d /\ new.request = NoRequest
      BY DEF Submit, Tasks
    <2>3. jobs[d].state = "admitted" /\ jobs'[d].state = "dispatching"
      BY <1>3 DEF Claim, Start, Becomes, Update, Row, LedgerInv, TypeOK
    <2> HIDE DEF new
    <2>4. \A t \in tasks : t.request = NoRequest => t.d # d
      BY <2>3 DEF OneTask
    <2>5. \A t \in tasks' : t.request = NoRequest /\ t.d = d => t = new
      BY <2>1, <2>4
    <2>6. \A t \in tasks' : t.request = NoRequest /\ t.d # d => t \in tasks
      BY <2>1, <2>2
    <2>7. submitted[d] = 0
      BY <2>3 DEF OneTask
    <2>8. TaskShapes'
      BY <2>1, <2>2
    <2>9. QED
      BY <1>1, <2>1, <2>3, <2>5, <2>6, <2>7, <2>8 DEF OneTask
  <1>4. ASSUME NEW d \in Delegations, NEW r \in Requests,
               NEW body \in BodiesOf(jobs[d].run, jobs[d].revision), RequestControl(d, r, body)
        PROVE  TaskShapes' /\ OneTask'
    <2> DEFINE new == Deliver(d, r, body.run, jobs[d].revision + 1, "spawned")
    <2>1. tasks' = tasks \cup {new} /\ submitted' = submitted
      BY <1>4 DEF RequestControl
    <2>2. body.run \in Nat /\ jobs[d].revision \in Nat
      BY LedgerAssumption DEF BodiesOf, Decision, Order, LedgerInv, TypeOK, Job
    <2>3. new \in Tasks /\ new.request # NoRequest
      BY <2>2, OrchestratorAssumption DEF Deliver, Tasks
    <2> HIDE DEF new
    <2>4. TaskShapes'
      BY <2>1, <2>3
    <2>5. QED
      BY <1>1, <2>1, <2>3, <2>4 DEF OneTask
  <1>5. ASSUME NEW t \in tasks, BeginSubmit(t), Current(t) PROVE TaskShapes' /\ OneTask'
    <2>0. t \in Tasks /\ t.d \in Delegations /\ t.request = NoRequest /\ t.phase = "spawned"
      BY <1>5 DEF BeginSubmit, Tasks
    <2>1. CASE tasks' = tasks \ {t} /\ submitted' = submitted
      BY <1>2, <2>1
    <2>2. CASE /\ tasks' = (tasks \ {t}) \cup {Called(t)}
               /\ submitted' = [submitted EXCEPT ![t.d] = submitted[t.d] + 1]
      <3>1. Called(t) \in Tasks /\ Called(t).d = t.d /\ Called(t).request = NoRequest
            /\ Called(t).phase = "calling"
        BY <2>0 DEF Called, Tasks
      <3>2. \A u \in tasks : u.request = NoRequest /\ u.d = t.d => u = t
        BY <2>0 DEF OneTask
      <3>3. submitted[t.d] = 0 /\ jobs'[t.d].state \notin {"none", "admitted"}
        BY <1>1, <2>0 DEF OneTask
      <3>4. TaskShapes'
        BY <2>0, <2>2, <3>1
      <3>5. \A d \in Delegations \ {t.d} : submitted'[d] = submitted[d]
        BY <2>2
      <3>6. submitted'[t.d] = 1
        BY <2>0, <2>2, <3>3
      <3>7. \A u \in tasks' : u.request = NoRequest /\ u.d = t.d => u = Called(t)
        BY <2>2, <3>2
      <3>8. \A u \in tasks' : u.request = NoRequest /\ u.d # t.d => u \in tasks
        BY <2>2, <3>1
      <3>9. QED
        BY <1>1, <2>0, <3>1, <3>3, <3>4, <3>5, <3>6, <3>7, <3>8 DEF OneTask
    <2>3. QED
      BY <1>5, <2>1, <2>2 DEF BeginSubmit
  <1>6. ASSUME NEW t \in tasks, BeginControl(t) PROVE TaskShapes' /\ OneTask'
    <2>0. t \in Tasks /\ t.request # NoRequest /\ submitted' = submitted
      BY <1>6 DEF BeginControl
    <2>1. Called(t) \in Tasks /\ Called(t).request # NoRequest
      BY <2>0 DEF Called, Tasks
    <2>2. tasks' \subseteq tasks \cup {Called(t)}
      BY <1>6 DEF BeginControl
    <2>3. TaskShapes'
      BY <2>0, <2>1, <2>2
    <2>4. QED
      BY <1>1, <2>0, <2>1, <2>2, <2>3 DEF OneTask
  <1>7. ASSUME NEW t \in tasks, TaskStep(t) PROVE TaskShapes' /\ OneTask'
    <2>1. CASE BeginSubmit(t)
      BY <1>2, <1>5, <2>1 DEF BeginSubmit
    <2>2. CASE \E ok \in BOOLEAN, s \in Sessions \cup {NoSession} : EndSubmit(t, ok, s)
      BY <1>2, <2>2 DEF EndSubmit
    <2>3. CASE \E ok \in BOOLEAN : EndControl(t, ok)
      BY <1>2, <2>3 DEF EndControl
    <2>4. QED
      BY <1>6, <1>7, <2>1, <2>2, <2>3 DEF TaskStep
  <1>8. QED
    BY <1>2, <1>3, <1>4, <1>7 DEF Next, Delegate, Observe, Expire, OwnerChanges, Retire, Close,
      Crash, Restart, procVars

LEMMA JobsStart == Init => JobsInv
PROOF
  <1> SUFFICES ASSUME Init PROVE JobsInv
    OBVIOUS
  <1>1. LedgerInv
    BY LedgerStarts DEF Init
  <1>2. QED
    BY <1>1 DEF Init, JobsInv, TaskShapes, OneTask

LEMMA JobsInductive == Spec => []JobsInv
PROOF
  <1>1. JobsInv /\ [Next]_vars => JobsInv'
    <2> SUFFICES ASSUME JobsInv, [Next]_vars PROVE JobsInv'
      OBVIOUS
    <2>1. CASE Next
      <3>1. LedgerNext \/ UNCHANGED ledgerVars
        BY <2>1, StepImplements
      <3>2. LedgerInv'
        BY <3>1, LedgerStep DEF JobsInv
      <3>3. QED
        BY <2>1, <3>2, StepTasks DEF JobsInv
    <2>2. CASE UNCHANGED vars
      <3>1. LedgerInv'
        BY <2>2, LedgerStep DEF JobsInv, vars, ledgerVars
      <3>2. QED
        BY <2>2, <3>1 DEF vars, JobsInv, TaskShapes, OneTask
    <2>3. QED
      BY <2>1, <2>2
  <1>2. QED
    BY <1>1, JobsStart, PTL DEF Spec

(* The orchestrator implements the ledger's specification, so everything    *)
(* proved of the ledger holds of it, crashes included. *)
THEOREM Implements == Spec => LedgerSpec
PROOF
  <1>1. Init => LedgerInit
    BY DEF Init
  <1>2. JobsInv /\ [Next]_vars => [LedgerNext]_ledgerVars
    BY StepImplements DEF vars, ledgerVars
  <1>3. QED
    BY <1>1, <1>2, JobsInductive, PTL DEF Spec, LedgerSpec

(* A delegation is handed to Hermes at most once. *)
THEOREM SubmittedAtMostOnce == Spec => []SubmittedOnce
PROOF
  <1>1. JobsInv => SubmittedOnce
    BY DEF JobsInv, OneTask, SubmittedOnce
  <1>2. QED
    BY <1>1, JobsInductive, PTL
-----------------------------------------------------------------------------
(* What the ledger says was done has been done.  A task at its callback has  *)
(* called it.                                                               *)
Started == {"running", "waiting", "cancel_requested"} \cup Finished
Reported(d) ==
  /\ jobs[d].state \in Started => submitted[d] > 0
  /\ \A r \in Requests : controls[d][r].state = "accepted" => delivered[d][r] > 0
Calling(t) ==
  t.phase = "calling" =>
    IF t.request = NoRequest THEN submitted[t.d] > 0 ELSE delivered[t.d][t.request] > 0
Counted == delivered \in [Delegations -> [Requests -> Nat]]

ReportInv ==
  /\ Counted
  /\ \A d \in Delegations : Reported(d)
  /\ \A t \in tasks : Calling(t)

(* The histories only grow.                                                 *)
LEMMA CountsGrow ==
  ASSUME JobsInv, Counted, Next
  PROVE  /\ Counted'
         /\ \A d \in Delegations :
              /\ submitted[d] > 0 => submitted'[d] > 0
              /\ \A r \in Requests : delivered[d][r] > 0 => delivered'[d][r] > 0
PROOF
  <1> USE DEF Counted
  <1>1. submitted \in [Delegations -> Nat] /\ tasks \subseteq Tasks
    BY DEF JobsInv, TaskShapes
  <1>2. CASE UNCHANGED <<submitted, delivered>>
    BY <1>2
  <1>3. ASSUME NEW t \in tasks, BeginSubmit(t) \/ BeginControl(t)
        PROVE  /\ Counted'
               /\ \A d \in Delegations :
                    /\ submitted[d] > 0 => submitted'[d] > 0
                    /\ \A r \in Requests : delivered[d][r] > 0 => delivered'[d][r] > 0
    <2>0. t.d \in Delegations /\ t.request \in Requests \cup {NoRequest}
      BY <1>1 DEF Tasks
    <2>1. CASE UNCHANGED <<submitted, delivered>>
      BY <2>1
    <2>2. CASE /\ submitted' = [submitted EXCEPT ![t.d] = submitted[t.d] + 1]
               /\ UNCHANGED delivered
      BY <1>1, <2>0, <2>2
    <2>3. CASE /\ t.request # NoRequest /\ UNCHANGED submitted
               /\ delivered' = [delivered EXCEPT ![t.d] =
                    [delivered[t.d] EXCEPT ![t.request] = delivered[t.d][t.request] + 1]]
      <3>1. t.request \in Requests
        BY <2>0, <2>3
      <3>2. \A d \in Delegations : delivered'[d] = IF d = t.d
              THEN [delivered[t.d] EXCEPT ![t.request] = delivered[t.d][t.request] + 1]
              ELSE delivered[d]
        BY <2>0, <2>3
      <3>3. \A r \in Requests : delivered'[t.d][r] = IF r = t.request
              THEN delivered[t.d][r] + 1 ELSE delivered[t.d][r]
        BY <2>0, <3>2
      <3>4. QED
        BY <1>1, <2>0, <2>3, <3>1, <3>2, <3>3
    <2>4. QED
      BY <1>3, <2>1, <2>2, <2>3 DEF BeginSubmit, BeginControl
  <1>4. QED
    BY <1>2, <1>3 DEF Next, TaskStep, Delegate, Claim, Observe, Expire, RequestControl, EndSubmit,
      EndControl, OwnerChanges, Retire, Close, Crash, Restart, procVars

(* A step that reports nothing.                                             *)
Quiet(d) ==
  /\ jobs'[d].state \in Started => jobs[d].state \in Started
  /\ \A r \in Requests : controls'[d][r].state = "accepted" => controls[d][r].state = "accepted"

(* Admissions, doubt, failed receipts and a reopened ledger report nothing.  *)
LEMMA QuietSteps ==
  ASSUME LedgerInv, NEW d \in Delegations,
         \/ UNCHANGED <<jobs, controls>>
         \/ \E e \in Delegations, text \in Texts : AdmitNew(e, text) \/ AdmitAgain(e, text)
         \/ \E e \in Delegations, run, revision \in Nat :
              Start(e, run, revision) \/ MarkUncertain(e, run, revision)
         \/ \E e \in Delegations, r \in Requests, run, revision \in Nat :
              FinishFailed(e, r, run, revision)
         \/ Open
  PROVE  Quiet(d)
PROOF
  <1>t. /\ jobs \in [Delegations -> Job] /\ controls \in [Delegations -> [Requests -> Control]]
        /\ controls[d] \in [Requests -> Control]
    BY DEF LedgerInv, TypeOK
  <1>1. CASE UNCHANGED <<jobs, controls>>
    BY <1>1 DEF Quiet
  <1>2. ASSUME NEW e \in Delegations, NEW text \in Texts, AdmitNew(e, text) \/ AdmitAgain(e, text)
        PROVE  Quiet(d)
    <2>1. jobs'[d].state \in {"admitted", "expired", jobs[d].state}
      BY <1>2, Shapes DEF AdmitNew, AdmitAgain, PruneOnly, Pruned
    <2>2. \A r \in Requests : controls'[d][r] = NoControl \/ controls'[d][r] = controls[d][r]
      BY <1>2 DEF AdmitNew, AdmitAgain, PruneOnly, Prune
    <2>3. QED
      BY <2>1, <2>2 DEF Quiet, Started, Finished, NoControl
  <1>3. ASSUME NEW e \in Delegations, NEW run \in Nat, NEW revision \in Nat,
               Start(e, run, revision) \/ MarkUncertain(e, run, revision)
        PROVE  Quiet(d)
    <2>1. PICK state \in {"dispatching", "uncertain"} : Becomes(e, state, jobs[e].pending) \/ Becomes(e, state, NoPending)
      BY <1>3 DEF Start, MarkUncertain
    <2>2. controls' = controls /\ jobs'[d].state \in {"dispatching", "uncertain", jobs[d].state}
      BY <1>t, <2>1 DEF Becomes, Update, Row
    <2>3. QED
      BY <2>2 DEF Quiet, Started, Finished
  <1>4. ASSUME NEW e \in Delegations, NEW r \in Requests, NEW run \in Nat, NEW revision \in Nat,
               FinishFailed(e, r, run, revision)
        PROVE  Quiet(d)
    <2>1. jobs'[d].state \in {"uncertain", jobs[d].state}
      BY <1>t, <1>4 DEF FinishFailed, Update, Row
    <2>2. \A q \in Requests : controls'[d][q].state \in {"uncertain", controls[d][q].state}
      BY <1>t, <1>4 DEF FinishFailed, Seal
    <2>3. QED
      BY <2>1, <2>2 DEF Quiet, Started, Finished
  <1>5. CASE Open
    <2>1. jobs'[d].state \in {"uncertain", jobs[d].state}
      BY <1>5 DEF Open, Reopened, Row
    <2>2. \A q \in Requests : controls'[d][q].state \in {"uncertain", controls[d][q].state}
      BY <1>5 DEF Open
    <2>3. QED
      BY <2>1, <2>2 DEF Quiet, Started, Finished
  <1>6. QED
    BY <1>1, <1>2, <1>3, <1>4, <1>5

(* A control is admitted to a job that was started already.                 *)
LEMMA QuietAdmission ==
  ASSUME LedgerInv, NEW d \in Delegations, NEW e \in Delegations, NEW r \in Requests, NEW body,
         AdmitControl(e, r, body)
  PROVE  Quiet(d)
PROOF
  <1>t. jobs \in [Delegations -> Job] /\ controls \in [Delegations -> [Requests -> Control]]
    BY DEF LedgerInv, TypeOK
  <1>1. jobs[e].state \in Started
    BY DEF AdmitControl, Controllable, Started
  <1>2. d # e => jobs'[d] = jobs[d]
    BY <1>t DEF AdmitControl, Update
  <1>3. \A q \in Requests : controls'[d][q].state \in {"admitted", controls[d][q].state}
    BY <1>t DEF AdmitControl
  <1>4. QED
    BY <1>1, <1>2, <1>3 DEF Quiet

(* Only a callback that acknowledged, or what Hermes itself did, is reported. *)
LEMMA ReportedStep ==
  ASSUME JobsInv, ReportInv, Next, NEW d \in Delegations
  PROVE  Reported(d)'
PROOF
  <1>t. /\ LedgerInv /\ tasks \subseteq Tasks
        /\ jobs \in [Delegations -> Job] /\ controls \in [Delegations -> [Requests -> Control]]
    BY DEF JobsInv, TaskShapes, LedgerInv, TypeOK
  <1>q. Quiet(d) => Reported(d)'
    BY CountsGrow DEF ReportInv, Reported, Quiet
  <1>1. ASSUME NEW e \in Delegations, NEW text \in Texts, Delegate(e, text) PROVE Reported(d)'
    BY <1>1, <1>q, <1>t, QuietSteps DEF Delegate
  <1>2. ASSUME NEW e \in Delegations, Claim(e) \/ Expire(e) PROVE Reported(d)'
    BY <1>2, <1>q, <1>t, QuietSteps DEF Claim, Expire, Age
  <1>3. ASSUME NEW e \in Delegations, Observe(e) PROVE Reported(d)'
    <2>1. submitted' = submitted /\ delivered' = delivered /\ submitted[e] > 0
      BY <1>3 DEF Observe, procVars
    <2>2. controls' = controls /\ (d # e => jobs'[d] = jobs[d])
      BY <1>t, <1>3 DEF Observe, Complete, Running, BindStoredSession, SetPending, MarkUncertain,
        Becomes, Update
    <2>3. QED
      BY <2>1, <2>2 DEF ReportInv, Reported
  <1>4. ASSUME NEW e \in Delegations, NEW r \in Requests,
               NEW body \in BodiesOf(jobs[e].run, jobs[e].revision), RequestControl(e, r, body)
        PROVE  Reported(d)'
    BY <1>4, <1>q, <1>t, QuietAdmission DEF RequestControl
  <1>5. ASSUME NEW t \in tasks, TaskStep(t) PROVE Reported(d)'
    <2>0. t.d \in Delegations /\ t.request \in Requests \cup {NoRequest} /\ t.run \in Nat
          /\ t.revision \in Nat
      BY <1>t DEF Tasks
    <2>1. Doubt(t) => Quiet(d)
      BY <1>t, <2>0, QuietSteps DEF Doubt, ledgerVars
    <2>2. CASE BeginSubmit(t)
      BY <1>q, <1>t, <2>1, <2>2, QuietSteps DEF BeginSubmit, ledgerVars
    <2>3. ASSUME NEW ok \in BOOLEAN, NEW s \in Sessions \cup {NoSession}, EndSubmit(t, ok, s)
          PROVE  Reported(d)'
      <3>1. CASE Doubt(t) \/ UNCHANGED ledgerVars
        BY <1>q, <1>t, <2>1, <3>1, QuietSteps DEF ledgerVars
      <3>2. CASE Running(t.d, t.run, t.revision, s)
        <4>1. submitted[t.d] > 0 /\ submitted' = submitted /\ delivered' = delivered
          BY <2>3 DEF EndSubmit, ReportInv, Calling
        <4>2. controls' = controls /\ (d # t.d => jobs'[d] = jobs[d])
          BY <1>t, <3>2 DEF Running, Update
        <4>3. QED
          BY <4>1, <4>2 DEF ReportInv, Reported
      <3>3. QED
        BY <2>3, <3>1, <3>2 DEF EndSubmit
    <2>4. t.request # NoRequest /\ Receipt(t, FALSE) => Quiet(d)
      BY <1>t, <2>0, QuietSteps DEF Receipt, ledgerVars
    <2>5. CASE BeginControl(t)
      BY <1>q, <1>t, <2>4, <2>5, QuietSteps DEF BeginControl, ledgerVars
    <2>6. ASSUME NEW ok \in BOOLEAN, EndControl(t, ok) PROVE Reported(d)'
      <3>1. CASE Receipt(t, FALSE)
        BY <1>q, <2>4, <2>6, <3>1 DEF EndControl
      <3>2. CASE UNCHANGED ledgerVars
        BY <1>q, <1>t, <3>2, QuietSteps DEF ledgerVars
      <3>3. CASE FinishAccepted(t.d, t.request, t.run, t.revision)
        <4>1. t.request \in Requests /\ delivered[t.d][t.request] > 0 /\ delivered' = delivered
              /\ submitted' = submitted
          BY <2>0, <2>6 DEF EndControl, ReportInv, Calling
        <4>2. /\ jobs' = jobs
              /\ \A r \in Requests : controls'[d][r].state = "accepted" =>
                   controls[d][r].state = "accepted" \/ (d = t.d /\ r = t.request)
          BY <1>t, <3>3 DEF FinishAccepted, Seal
        <4>3. QED
          BY <4>1, <4>2 DEF ReportInv, Reported
      <3>4. QED
        BY <2>6, <3>1, <3>2, <3>3 DEF EndControl, Receipt
    <2>7. QED
      BY <1>5, <2>2, <2>3, <2>5, <2>6 DEF TaskStep
  <1>6. CASE OwnerChanges \/ Retire \/ Close \/ Crash \/ Restart
    BY <1>6, <1>q, <1>t, QuietSteps DEF OwnerChanges, Retire, Close, Crash, Restart, ledgerVars
  <1>7. QED
    BY <1>1, <1>2, <1>3, <1>4, <1>5, <1>6 DEF Next

(* A task that is at its callback has counted it.                           *)
LEMMA CallingStep ==
  ASSUME JobsInv, ReportInv, Next, NEW t \in tasks'
  PROVE  Calling(t)'
PROOF
  <1>t. tasks \subseteq Tasks /\ submitted \in [Delegations -> Nat] /\ Counted
    BY DEF JobsInv, TaskShapes, ReportInv
  <1>1. CASE t \in tasks
    BY <1>t, <1>1, CountsGrow DEF ReportInv, Calling, Tasks
  <1>2. CASE t \notin tasks
    <2>1. CASE t.phase = "spawned"
      BY <2>1 DEF Calling
    <2>2. ASSUME NEW u \in tasks, BeginSubmit(u) \/ BeginControl(u), t = Called(u)
          PROVE  Calling(t)'
      <3>1. t.d = u.d /\ t.request = u.request /\ u.d \in Delegations
            /\ u.request \in Requests \cup {NoRequest}
        BY <1>t, <2>2 DEF Called, Tasks
      <3>2. CASE BeginSubmit(u)
        <4>1. u.request = NoRequest /\ submitted'[u.d] = submitted[u.d] + 1
          <5>1. Called(u) # u
            BY <1>2, <2>2
          <5>2. tasks' = (tasks \ {u}) \cup {Called(u)} => submitted' = [submitted EXCEPT ![u.d] = submitted[u.d] + 1]
            BY <1>2, <2>2, <3>2 DEF BeginSubmit
          <5>3. QED
            BY <1>2, <1>t, <2>2, <3>1, <3>2, <5>2 DEF BeginSubmit
        <4>2. QED
          BY <1>t, <3>1, <4>1 DEF Calling
      <3>3. CASE BeginControl(u)
        <4>1. /\ u.request # NoRequest
              /\ delivered' = [delivered EXCEPT ![u.d] =
                   [delivered[u.d] EXCEPT ![u.request] = delivered[u.d][u.request] + 1]]
          BY <1>2, <2>2, <3>3 DEF BeginControl
        <4>2. delivered'[u.d][u.request] = delivered[u.d][u.request] + 1
              /\ delivered[u.d][u.request] \in Nat
          BY <1>t, <3>1, <4>1 DEF Counted
        <4>3. QED
          BY <3>1, <4>1, <4>2 DEF Calling
      <3>4. QED
        BY <2>2, <3>2, <3>3
    <2>3. \/ t.phase = "spawned"
          \/ \E u \in tasks : (BeginSubmit(u) \/ BeginControl(u)) /\ t = Called(u)
      <3>1. ASSUME NEW d \in Delegations, Claim(d) PROVE t.phase = "spawned"
        BY <1>2, <3>1 DEF Claim, Submit
      <3>2. ASSUME NEW d \in Delegations, NEW r \in Requests, NEW body, RequestControl(d, r, body)
            PROVE  t.phase = "spawned"
        BY <1>2, <3>2 DEF RequestControl, Deliver
      <3>3. ASSUME NEW u \in tasks, TaskStep(u)
            PROVE  (BeginSubmit(u) \/ BeginControl(u)) /\ t = Called(u)
        <4>1. ~(tasks' \subseteq tasks)
          BY <1>2
        <4>2. BeginSubmit(u) \/ BeginControl(u)
          BY <3>3, <4>1 DEF TaskStep, EndSubmit, EndControl
        <4>3. QED
          BY <1>2, <4>1, <4>2 DEF BeginSubmit, BeginControl
      <3>4. tasks' \subseteq tasks \/ (\E d \in Delegations : Claim(d)) \/ (\E u \in tasks : TaskStep(u))
            \/ \E d \in Delegations, r \in Requests :
                  \E body \in BodiesOf(jobs[d].run, jobs[d].revision) : RequestControl(d, r, body)
        BY DEF Next, Delegate, Observe, Expire, OwnerChanges, Retire, Close, Crash, Restart, procVars
      <3>5. QED
        BY <1>2, <3>1, <3>2, <3>3, <3>4
    <2>4. QED
      BY <2>1, <2>2, <2>3
  <1>3. QED
    BY <1>1, <1>2

(* The ledger never reports more than its orchestrator did: what it calls    *)
(* running, asking, stopping or ended was submitted, and a control it calls  *)
(* accepted was delivered, whatever crashes, events and owners come between. *)
THEOREM ReceiptsTrue == Spec => []ReceiptsAreTrue
PROOF
  <1>1. Init => ReportInv
    BY DEF Init, LedgerInit, ReportInv, Counted, Reported, Calling, Absent, NoControl, Started, Finished
  <1>2. JobsInv /\ ReportInv /\ [Next]_vars => ReportInv'
    <2>1. ASSUME JobsInv, ReportInv, Next PROVE ReportInv'
      BY <2>1, CountsGrow, ReportedStep, CallingStep DEF ReportInv
    <2>2. ASSUME ReportInv, UNCHANGED vars PROVE ReportInv'
      BY <2>2 DEF vars, ReportInv, Counted, Reported, Calling
    <2>3. QED
      BY <2>1, <2>2
  <1>3. ReportInv => ReceiptsAreTrue
    BY DEF ReportInv, Reported, Started, ReceiptsAreTrue
  <1>4. QED
    BY <1>1, <1>2, <1>3, JobsInductive, PTL DEF Spec
-----------------------------------------------------------------------------
(* WikiSaves.                                                                *)

Submitted(s) == uploads[s] # NoUpload /\ uploads[s].state = "submitted"
Looking == (holder.at = "prepared" /\ holder.matches) \/ holder.at \in {"staged", "checked"}

(* What the journal and the answers say of a save that may not be running.  *)
Recorded(s) ==
  /\ journal[s] # NoOperation => Submitted(s)
  /\ told[s] # "none" =>
       /\ Submitted(s)
       /\ journal[s] = told[s] \/ (journal[s] = NoOperation /\ told[s] = "indeterminate")
  /\ replaced[s] <= 1
  /\ journal[s] = "committed" => replaced[s] = 1
  /\ journal[s] \in {NoOperation, "prepared", "conflict", "failed"} => replaced[s] = 0

(* What holds besides of the save whose commit has the lock.                *)
HeldBy(s) == Locked /\ holder.save = s =>
  /\ Submitted(s) /\ told[s] = "none"
  /\ grant.live /\ grant.generation = uploads[s].generation
  /\ holder.at = "submitted" => journal[s] = NoOperation
  /\ holder.at = "prepared" => journal[s] = "prepared"
  /\ holder.at \in {"staged", "checked"} => journal[s] = "committing" /\ replaced[s] = 0
  /\ holder.at \in {"linked", "put"} => journal[s] = "committing" /\ replaced[s] = 1
  /\ Looking =>
       /\ holder.seen <= file.write
       /\ file.write = holder.seen => file.content = uploads[s].base
       /\ file.write # holder.seen => file.by = Outside

SavesInv == SavesTypeOK /\ \A s \in Saves : Recorded(s) /\ HeldBy(s)

-----------------------------------------------------------------------------
LEMMA Uploads == ASSUME SavesTypeOK, NEW s \in Saves, uploads[s] # NoUpload PROVE uploads[s] \in Upload
BY DEF SavesTypeOK
LEMMA Held == ASSUME SavesTypeOK, Locked PROVE holder \in Holder
BY DEF SavesTypeOK, Locked
LEMMA WrittenType ==
  ASSUME SavesTypeOK, NEW content \in Contents \cup {Nothing}, NEW node \in Writers,
         NEW links \in {1, 2}, NEW by \in Writers, Written(content, node, links, by)
  PROVE  file' \in File
BY DEF SavesTypeOK, Written, File
LEMMA EndsType ==
  ASSUME SavesTypeOK, NEW s \in Saves, NEW status \in FinalStatus, Ends(s, status)
  PROVE  /\ holder' \in Holder \cup {Free}
         /\ journal' \in [Saves -> Status \cup {NoOperation}]
         /\ told' \in [Saves -> FinalStatus \cup {"none"}]
BY DEF SavesTypeOK, Ends, Status
LEMMA RecoveredType ==
  ASSUME SavesTypeOK, NEW s \in Saves, s \in Operations PROVE Recovered(s) \in FinalStatus
BY DEF SavesTypeOK, Recovered, Operations, Status, FinalStatus

LEMMA SavesTypingStep == ASSUME WikiAssumption, SavesTypeOK, [SavesNext]_saveVars PROVE SavesTypeOK'
<1> USE DEF Step, budgets
<1>0. /\ file \in File /\ grant \in [generation : Nat \ {0}, live : BOOLEAN] /\ valid \in BOOLEAN
      /\ uploads \in [Saves -> Upload \cup {NoUpload}]
      /\ journal \in [Saves -> Status \cup {NoOperation}]
      /\ holder \in Holder \cup {Free} /\ replaced \in [Saves -> Nat]
      /\ told \in [Saves -> FinalStatus \cup {"none"}] /\ writes \in Nat /\ faults \in Nat
  BY DEF SavesTypeOK
<1>1. CASE UNCHANGED saveVars
  BY <1>0, <1>1 DEF SavesTypeOK, saveVars
<1>2. CASE Connect
  BY <1>0, <1>2 DEF SavesTypeOK, Connect
<1>3. CASE Disconnect
  BY <1>0, <1>3 DEF SavesTypeOK, Disconnect
<1>4. CASE WikiOwnerChanges
  BY <1>0, <1>4 DEF SavesTypeOK, WikiOwnerChanges
<1>5. CASE SaverDies
  BY <1>0, <1>5 DEF SavesTypeOK, SaverDies
<1>6. ASSUME NEW content \in Contents \cup {Nothing}, Edit(content) PROVE SavesTypeOK'
  <2>1. file' \in File
    BY <1>0, <1>6, WrittenType DEF Edit, File, Writers
  <2> QED BY <1>0, <1>6, <2>1 DEF SavesTypeOK, Edit
<1>7. ASSUME NEW s \in Saves, NEW base \in Contents \cup {Nothing}, Begin(s, base) PROVE SavesTypeOK'
  <2>1. uploads' \in [Saves -> Upload \cup {NoUpload}]
    BY <1>0, <1>7, WikiAssumption DEF Begin, Upload
  <2> QED BY <1>0, <1>7, <2>1 DEF SavesTypeOK, Begin
<1>8. ASSUME NEW s \in Saves, NEW sound \in BOOLEAN, Chunk(s, sound) PROVE SavesTypeOK'
  <2>1. uploads[s] \in Upload /\ uploads[s].chunks < Chunks
    BY <1>8, Uploads DEF Chunk, Loaded, Uploaded
  <2> DEFINE longer == [uploads[s] EXCEPT !.chunks = @ + 1]
             both == uploads[s].sound /\ sound
  <2>2. longer \in Upload /\ both \in BOOLEAN
    BY <2>1, WikiAssumption DEF Upload
  <2>3. [longer EXCEPT !.sound = both] \in Upload
    <3> HIDE DEF longer, both
    <3> QED BY <2>2 DEF Upload
  <2>4. [longer EXCEPT !.sound = both] = [uploads[s] EXCEPT !.chunks = @ + 1, !.sound = @ /\ sound]
    BY <2>1 DEF Upload
  <2>5. uploads' = [uploads EXCEPT ![s] = [uploads[s] EXCEPT !.chunks = @ + 1, !.sound = @ /\ sound]]
    BY <1>0, <1>8 DEF Chunk
  <2>6. uploads' \in [Saves -> Upload \cup {NoUpload}]
    <3> HIDE DEF longer, both
    <3> QED BY <1>0, <2>3, <2>4, <2>5
  <2> QED BY <1>0, <1>8, <2>6 DEF SavesTypeOK, Chunk
<1>9. ASSUME NEW s \in Saves, Commit(s) PROVE SavesTypeOK'
  <2>1. uploads[s] \in Upload
    BY <1>9, Uploads DEF Commit, Loaded, Uploaded
  <2>2. [uploads[s] EXCEPT !.state = "submitted"] \in Upload
    BY <2>1 DEF Upload
  <2>3. uploads' \in [Saves -> Upload \cup {NoUpload}]
    BY <1>0, <1>9, <2>2 DEF Commit
  <2>4. holder' \in Holder
    BY <1>9 DEF Commit, Holder, Places
  <2> QED BY <1>0, <1>9, <2>3, <2>4 DEF SavesTypeOK, Commit
<1>10. ASSUME NEW s \in Saves, Answer(s) PROVE SavesTypeOK'
  <2>1. CASE s \in Operations
    <3>1. Recovered(s) \in FinalStatus
      BY <2>1, RecoveredType
    <3> QED BY <1>0, <1>10, <2>1, <3>1 DEF SavesTypeOK, Answer, Status
  <2>2. CASE s \notin Operations
    <3>1. "indeterminate" \in FinalStatus
      BY DEF FinalStatus
    <3> QED BY <1>0, <1>10, <2>2, <3>1 DEF SavesTypeOK, Answer
  <2> QED BY <2>1, <2>2
<1>11. ASSUME NEW s \in Saves, Locked, holder.save = s, Committing(s) \/ Fails(s) PROVE SavesTypeOK'
  <2>0. holder \in Holder
    BY <1>11, Held
  <2>1. \A place \in Places : [holder EXCEPT !.at = place] \in Holder
    BY <2>0 DEF Holder
  <2>2. {"committed", "conflict", "failed", "indeterminate"} = FinalStatus
    BY DEF FinalStatus
  <2>3. CASE Prepare(s)
    <3>1. holder' \in Holder
      BY <1>0, <2>0, <2>3 DEF Prepare, Holder, Places, File
    <3> QED BY <1>0, <2>3, <3>1 DEF SavesTypeOK, Prepare, Status
  <2>4. CASE Refuse(s)
    BY <1>0, <2>4 DEF SavesTypeOK, Refuse
  <2>5. CASE Stale(s)
    BY <1>0, <2>2, <2>5, EndsType DEF SavesTypeOK, Stale
  <2>6. CASE Stage(s)
    <3>1. holder' \in Holder
      BY <2>1, <2>6 DEF Stage, Goes, Places
    <3> QED BY <1>0, <2>6, <3>1 DEF SavesTypeOK, Stage, Status
  <2>7. CASE Check(s)
    <3>1. holder' \in Holder
      BY <1>0, <2>0, <2>7 DEF Check, Holder, Places, File
    <3> QED BY <1>0, <2>7, <3>1 DEF SavesTypeOK, Check
  <2>8. CASE CheckFails(s)
    BY <1>0, <2>2, <2>8, EndsType DEF SavesTypeOK, CheckFails
  <2>9. CASE Put(s)
    <3>1. Proposed[s] \in Contents \cup {Nothing} /\ s \in Writers
      BY WikiAssumption DEF Writers
    <3>2. CASE Written(Proposed[s], s, 2, s) /\ Goes("linked") /\ Once(s) /\ UNCHANGED <<journal, told>>
      <4>1. file' \in File /\ holder' \in Holder
        BY <2>1, <3>1, <3>2, WrittenType DEF Goes, Places
      <4> QED BY <1>0, <2>9, <3>2, <4>1 DEF SavesTypeOK, Put, Once
    <3>3. CASE Ends(s, "conflict") /\ UNCHANGED <<file, replaced>>
      BY <1>0, <2>2, <2>9, <3>3, EndsType DEF SavesTypeOK, Put
    <3>4. CASE Written(Proposed[s], s, 1, s) /\ Goes("put") /\ Once(s) /\ UNCHANGED <<journal, told>>
      <4>1. file' \in File /\ holder' \in Holder
        BY <2>1, <3>1, <3>4, WrittenType DEF Goes, Places
      <4> QED BY <1>0, <2>9, <3>4, <4>1 DEF SavesTypeOK, Put, Once
    <3> QED BY <2>9, <3>2, <3>3, <3>4 DEF Put
  <2>10. CASE Unlink(s)
    <3>1. file' \in File
      BY <1>0, <2>10 DEF Unlink, File
    <3>2. holder' \in Holder
      BY <2>1, <2>10 DEF Unlink, Goes, Places
    <3> QED BY <1>0, <2>10, <3>1, <3>2 DEF SavesTypeOK, Unlink
  <2>11. CASE ReadBack(s)
    BY <1>0, <2>2, <2>11, EndsType DEF SavesTypeOK, ReadBack
  <2>12. CASE Fails(s)
    BY <1>0, <2>2, <2>12, EndsType DEF SavesTypeOK, Fails, Failure
  <2> QED BY <1>11, <2>3, <2>4, <2>5, <2>6, <2>7, <2>8, <2>9, <2>10, <2>11, <2>12 DEF Committing
<1>12. ASSUME NEW s \in Saves, Committing(s) \/ Fails(s) PROVE Locked /\ holder.save = s
  BY <1>12 DEF Committing, Fails, At, Prepare, Refuse, Stale, Stage, Check, CheckFails, Put, Unlink, ReadBack
<1> QED
  BY <1>1, <1>2, <1>3, <1>4, <1>5, <1>6, <1>7, <1>8, <1>9, <1>10, <1>11, <1>12 DEF SavesNext

(* Types of every reachable state: the rows of the journal and the uploads, *)
(* the file and the place a commit is at.                                   *)
THEOREM SavesTyping == ASSUME WikiAssumption PROVE SavesSpec => []SavesTypeOK
<1>1. SavesInit => SavesTypeOK
  BY WikiAssumption DEF SavesInit, SavesTypeOK, File, Writers
<1>2. SavesTypeOK /\ [SavesNext]_saveVars => SavesTypeOK'
  BY SavesTypingStep, WikiAssumption
<1> QED BY <1>1, <1>2, PTL DEF SavesSpec

-----------------------------------------------------------------------------
LEMMA InvInit == ASSUME WikiAssumption, SavesInit PROVE SavesInv
<1>1. SavesTypeOK
  BY WikiAssumption DEF SavesInit, SavesTypeOK, File, Writers
<1>2. ASSUME NEW t \in Saves PROVE Recorded(t) /\ HeldBy(t)
  BY DEF SavesInit, Recorded, HeldBy, Locked, NoOperation
<1> QED BY <1>1, <1>2 DEF SavesInv

(* A commit that ends with an outcome fitting what it did to the file.      *)
LEMMA EndsStep ==
  ASSUME SavesTypeOK, NEW s \in Saves, NEW t \in Saves, NEW status \in FinalStatus,
         Recorded(t), HeldBy(t), Locked, holder.save = s,
         Ends(s, status), UNCHANGED <<uploads, replaced>>,
         status = "committed" => replaced[s] = 1,
         status \in {"conflict", "failed"} => replaced[s] = 0
  PROVE  Recorded(t)' /\ HeldBy(t)'
<1>1. HeldBy(t)'
  BY DEF Ends, HeldBy, Locked
<1>2. Submitted(t)' <=> Submitted(t)
  BY DEF Submitted
<1>3. CASE t = s
  <2>1. journal'[t] = status /\ told'[t] \in {status, told[t]}
    BY <1>3 DEF SavesTypeOK, Ends
  <2>2. told[t] = "none" /\ Submitted(t)
    BY <1>3 DEF HeldBy
  <2> QED BY <1>1, <1>2, <1>3, <2>1, <2>2 DEF Recorded, FinalStatus, NoOperation
<1>4. CASE t # s
  <2>1. journal'[t] = journal[t] /\ told'[t] = told[t]
    BY <1>4 DEF SavesTypeOK, Ends
  <2> QED BY <1>1, <1>2, <2>1 DEF Recorded
<1> QED BY <1>1, <1>3, <1>4

LEMMA InvStep == ASSUME WikiAssumption, SavesInv, [SavesNext]_saveVars PROVE SavesInv'
<1> USE DEF Step, budgets
<1>0. SavesTypeOK /\ SavesTypeOK' /\ \A s \in Saves : Recorded(s) /\ HeldBy(s)
  BY SavesTypingStep DEF SavesInv
<1> SUFFICES ASSUME NEW t \in Saves PROVE Recorded(t)' /\ HeldBy(t)'
  BY <1>0 DEF SavesInv
<1>t. Recorded(t) /\ HeldBy(t)
  BY <1>0
<1>1. CASE UNCHANGED saveVars
  BY <1>t, <1>1 DEF Recorded, HeldBy, Submitted, Locked, Looking, saveVars
<1>2. CASE Connect
  BY <1>t, <1>2 DEF Recorded, HeldBy, Submitted, Locked, Connect
<1>3. CASE Disconnect
  BY <1>t, <1>3 DEF Recorded, HeldBy, Submitted, Locked, Disconnect
<1>4. CASE WikiOwnerChanges
  BY <1>t, <1>4 DEF Recorded, HeldBy, Submitted, Locked, Looking, WikiOwnerChanges
<1>5. CASE SaverDies
  BY <1>t, <1>5 DEF Recorded, HeldBy, Submitted, Locked, SaverDies
<1>6. ASSUME NEW content \in Contents \cup {Nothing}, Edit(content)
      PROVE  Recorded(t)' /\ HeldBy(t)'
  <2>1. file.write \in Nat /\ file'.write = file.write + 1 /\ file'.by = Outside
    BY <1>0, <1>6 DEF SavesTypeOK, File, Edit, Written
  <2>2. Locked => holder.seen \in Nat
    BY <1>0, Held DEF Holder
  <2>3. Recorded(t)'
    BY <1>t, <1>6 DEF Recorded, Submitted, Edit
  <2>4. HeldBy(t)'
    BY <1>t, <1>6, <2>1, <2>2 DEF HeldBy, Submitted, Locked, Looking, Edit
  <2> QED BY <2>3, <2>4
<1>7. ASSUME NEW s \in Saves, NEW base \in Contents \cup {Nothing}, Begin(s, base)
      PROVE  Recorded(t)' /\ HeldBy(t)'
  <2>1. uploads[s] = NoUpload /\ (t # s => uploads'[t] = uploads[t])
    BY <1>0, <1>7 DEF SavesTypeOK, Begin, Uploaded
  <2>2. t = s => ~Submitted(t)
    BY <2>1 DEF Submitted
  <2>3. Recorded(t)'
    BY <1>t, <1>7, <2>1, <2>2 DEF Recorded, Submitted, Begin
  <2> QED BY <1>7, <2>3 DEF HeldBy, Locked, Begin
<1>8. ASSUME NEW s \in Saves, NEW sound \in BOOLEAN, Chunk(s, sound)
      PROVE  Recorded(t)' /\ HeldBy(t)'
  <2>1. t # s => uploads'[t] = uploads[t]
    BY <1>0, <1>8 DEF SavesTypeOK, Chunk
  <2>2. t = s => ~Submitted(t)
    BY <1>8 DEF Submitted, Chunk
  <2>3. Recorded(t)'
    BY <1>t, <1>8, <2>1, <2>2 DEF Recorded, Submitted, Chunk
  <2> QED BY <1>8, <2>3 DEF HeldBy, Locked, Chunk
<1>9. ASSUME NEW s \in Saves, Commit(s) PROVE Recorded(t)' /\ HeldBy(t)'
  <2>1. uploads[s] \in Upload /\ uploads[s].state = "receiving" /\ journal[s] = NoOperation
    BY <1>0, <1>9, Uploads DEF Commit, Loaded, Uploaded, Receiving, Operations
  <2>2. uploads' = [uploads EXCEPT ![s].state = "submitted"]
        /\ holder' = [at |-> "submitted", save |-> s, seen |-> 0, matches |-> FALSE]
        /\ UNCHANGED <<file, grant, valid, journal, replaced, told>>
    BY <1>9 DEF Commit
  <2>3. CASE t = s
    <3>1. uploads'[t] = [uploads[t] EXCEPT !.state = "submitted"]
      BY <1>0, <2>2, <2>3 DEF SavesTypeOK
    <3>2. Submitted(t)' /\ uploads'[t].generation = uploads[t].generation
      BY <2>1, <2>3, <3>1 DEF Submitted, Upload, NoUpload
    <3>3. told[t] = "none"
      BY <1>t, <2>1, <2>3 DEF Recorded, Submitted
    <3>4. grant.live /\ grant.generation = uploads[t].generation
      BY <1>9, <2>3 DEF Commit, Loaded, Authorized
    <3>5. Recorded(t)'
      BY <1>t, <2>2, <3>2, <3>3 DEF Recorded
    <3>6. HeldBy(t)'
      BY <2>1, <2>2, <2>3, <3>2, <3>3, <3>4 DEF HeldBy, Looking
    <3> QED BY <3>5, <3>6
  <2>4. CASE t # s
    <3>1. uploads'[t] = uploads[t]
      BY <1>0, <2>2, <2>4 DEF SavesTypeOK
    <3>2. Recorded(t)'
      BY <1>t, <2>2, <3>1 DEF Recorded, Submitted
    <3> QED BY <2>2, <2>4, <3>2 DEF HeldBy
  <2> QED BY <2>3, <2>4
<1>10. ASSUME NEW s \in Saves, Answer(s) PROVE Recorded(t)' /\ HeldBy(t)'
  <2>0. HeldBy(t)'
    BY <1>10 DEF Answer, HeldBy, Locked
  <2>1. UNCHANGED <<uploads, replaced>>
    BY <1>10 DEF Answer
  <2>2. CASE t = s
    <3>1. CASE s \in Operations
      <4>1. Recovered(s) \in FinalStatus
        BY <1>0, <3>1, RecoveredType
      <4>2. journal'[t] = Recovered(s) /\ told'[t] = Recovered(s)
        BY <1>0, <1>10, <2>2, <3>1 DEF SavesTypeOK, Answer
      <4>3. Submitted(t)'
        BY <1>t, <2>1, <2>2, <3>1 DEF Recorded, Submitted, Operations
      <4>4. /\ Recovered(s) = "committed" => replaced[t] = 1
            /\ Recovered(s) \in {"conflict", "failed"} => replaced[t] = 0
        BY <1>t, <2>2 DEF Recorded, Recovered
      <4> QED BY <1>t, <2>0, <2>1, <4>1, <4>2, <4>3, <4>4 DEF Recorded, FinalStatus, NoOperation
    <3>2. CASE s \notin Operations
      <4>1. journal'[t] = journal[t] /\ journal[t] = NoOperation /\ told'[t] = "indeterminate" /\ Submitted(t)
        BY <1>0, <1>10, <2>2, <3>2 DEF SavesTypeOK, Answer, Operations, Submitted, Loaded, Uploaded
      <4> QED BY <1>t, <2>0, <2>1, <4>1 DEF Recorded, Submitted
    <3> QED BY <3>1, <3>2
  <2>3. CASE t # s
    <3>1. journal'[t] = journal[t] /\ told'[t] = told[t]
      BY <1>0, <1>10, <2>3 DEF SavesTypeOK, Answer
    <3> QED BY <1>t, <2>0, <2>1, <3>1 DEF Recorded, Submitted
  <2> QED BY <2>2, <2>3
<1>11. ASSUME NEW s \in Saves, Locked, holder.save = s, Committing(s) \/ Fails(s)
       PROVE  Recorded(t)' /\ HeldBy(t)'
  <2>0. holder \in Holder /\ HeldBy(s) /\ Recorded(s)
    BY <1>0, <1>11, Held
  <2>1. \A place \in Places : [holder EXCEPT !.at = place] # Free
    BY <2>0 DEF Holder, Free
  <2>2. t # s => ~(Locked /\ holder.save = t)
    BY <1>11
  <2>3. {"committed", "conflict", "failed", "indeterminate"} = FinalStatus
    BY DEF FinalStatus
  <2>4. CASE Prepare(s)
    <3>1. /\ holder' = [holder EXCEPT !.at = "prepared", !.seen = file.write,
                                      !.matches = file.content = uploads[s].base]
          /\ journal' = [journal EXCEPT ![s] = "prepared"]
          /\ UNCHANGED <<file, grant, uploads, replaced, told>>
          /\ holder.at = "submitted"
      BY <2>4 DEF Prepare, At
    <3>2. holder'.at = "prepared" /\ holder'.seen = file.write /\ holder'.save = s
          /\ (holder'.matches => file.content = uploads[s].base)
      BY <1>11, <2>0, <3>1 DEF Holder
    <3>3. file.write \in Nat
      BY <1>0 DEF SavesTypeOK, File
    <3>4. CASE t = s
      <4>1. Recorded(t)'
        BY <1>0, <1>11, <2>0, <3>1, <3>4 DEF SavesTypeOK, Recorded, HeldBy, Submitted, NoOperation
      <4>2. HeldBy(t)'
        BY <1>0, <1>11, <2>0, <3>1, <3>2, <3>3, <3>4 DEF SavesTypeOK, HeldBy, Submitted, Looking
      <4> QED BY <4>1, <4>2
    <3>5. CASE t # s
      <4>1. Recorded(t)'
        BY <1>0, <1>t, <3>1, <3>5 DEF SavesTypeOK, Recorded, Submitted
      <4> QED BY <3>2, <3>5, <4>1 DEF HeldBy
    <3> QED BY <3>4, <3>5
  <2>5. CASE Refuse(s)
    BY <1>t, <2>5 DEF Refuse, Recorded, HeldBy, Submitted, Locked
  <2>6. CASE Stale(s)
    <3>1. replaced[s] = 0
      BY <1>11, <2>0, <2>6 DEF Stale, At, HeldBy, Recorded
    <3> QED BY <1>0, <1>t, <1>11, <2>3, <2>6, <3>1, EndsStep DEF Stale
  <2>7. CASE Stage(s)
    <3>1. /\ holder' = [holder EXCEPT !.at = "staged"]
          /\ journal' = [journal EXCEPT ![s] = "committing"]
          /\ UNCHANGED <<file, grant, uploads, replaced, told>>
          /\ holder.at = "prepared" /\ holder.matches
      BY <2>7 DEF Stage, Goes, At
    <3>2. holder'.at = "staged" /\ holder'.seen = holder.seen /\ holder'.save = s
      BY <1>11, <2>0, <3>1 DEF Holder
    <3>3. CASE t = s
      <4>1. Recorded(t)'
        BY <1>0, <1>11, <2>0, <3>1, <3>3 DEF SavesTypeOK, Recorded, HeldBy, Submitted, NoOperation
      <4>2. HeldBy(t)'
        BY <1>0, <1>11, <2>0, <3>1, <3>2, <3>3 DEF SavesTypeOK, Recorded, HeldBy, Submitted, Looking
      <4> QED BY <4>1, <4>2
    <3>4. CASE t # s
      <4>1. Recorded(t)'
        BY <1>0, <1>t, <3>1, <3>4 DEF SavesTypeOK, Recorded, Submitted
      <4> QED BY <3>2, <3>4, <4>1 DEF HeldBy
    <3> QED BY <3>3, <3>4
  <2>8. CASE Check(s)
    <3>1. /\ holder' = [holder EXCEPT !.at = "checked", !.seen = file.write]
          /\ UNCHANGED <<file, grant, uploads, journal, replaced, told>>
          /\ holder.at = "staged" /\ Unchanged(s)
      BY <2>8 DEF Check, At
    <3>2. holder'.at = "checked" /\ holder'.seen = file.write /\ holder'.save = s
      BY <1>11, <2>0, <3>1 DEF Holder
    <3>3. file.write \in Nat /\ file.content = uploads[s].base
      BY <1>0, <1>11, <2>0, <3>1 DEF SavesTypeOK, File, HeldBy, Looking, Unchanged, Creating
    <3>4. Recorded(t)'
      BY <1>t, <3>1 DEF Recorded, Submitted
    <3>5. HeldBy(t)'
      BY <1>11, <2>0, <3>1, <3>2, <3>3 DEF HeldBy, Submitted, Looking
    <3> QED BY <3>4, <3>5
  <2>9. CASE CheckFails(s)
    <3>1. replaced[s] = 0
      BY <1>11, <2>0, <2>9 DEF CheckFails, At, HeldBy
    <3> QED BY <1>0, <1>t, <1>11, <2>3, <2>9, <3>1, EndsStep DEF CheckFails
  <2>10. CASE Put(s)
    <3>0. replaced[s] = 0 /\ replaced \in [Saves -> Nat]
          /\ holder.at = "checked" /\ journal[s] = "committing" /\ UNCHANGED <<grant, uploads>>
      BY <1>0, <1>11, <2>0, <2>10 DEF SavesTypeOK, Put, At, HeldBy
    <3>1. CASE Ends(s, "conflict") /\ UNCHANGED <<file, replaced>>
      BY <1>0, <1>t, <1>11, <2>3, <3>0, <3>1, EndsStep
    <3>2. ASSUME NEW place \in {"linked", "put"}, Goes(place), Once(s), UNCHANGED <<journal, told>>
          PROVE  Recorded(t)' /\ HeldBy(t)'
      <4>1. holder'.at = place /\ holder'.save = s
        BY <1>11, <2>0, <3>2 DEF Goes, Holder
      <4>2. replaced'[s] = 1 /\ (t # s => replaced'[t] = replaced[t])
        BY <3>0, <3>2 DEF Once
      <4>3. CASE t = s
        <5>1. Recorded(t)'
          BY <1>t, <3>0, <3>2, <4>2, <4>3 DEF Recorded, Submitted, NoOperation
        <5>2. HeldBy(t)'
          BY <1>11, <2>0, <3>0, <3>2, <4>1, <4>2, <4>3 DEF HeldBy, Submitted, Looking
        <5> QED BY <5>1, <5>2
      <4>4. CASE t # s
        <5>1. Recorded(t)'
          BY <1>t, <3>0, <3>2, <4>2, <4>4 DEF Recorded, Submitted
        <5> QED BY <4>1, <4>4, <5>1 DEF HeldBy
      <4> QED BY <4>3, <4>4
    <3> QED BY <2>10, <3>1, <3>2 DEF Put
  <2>11. CASE Unlink(s)
    <3>1. /\ holder' = [holder EXCEPT !.at = "put"] /\ holder.at = "linked"
          /\ UNCHANGED <<grant, uploads, journal, replaced, told>>
      BY <2>11 DEF Unlink, Goes, At
    <3>2. holder'.at = "put" /\ holder'.save = s
      BY <1>11, <2>0, <3>1 DEF Holder
    <3>3. Recorded(t)'
      BY <1>t, <3>1 DEF Recorded, Submitted
    <3>4. HeldBy(t)'
      BY <1>11, <2>0, <3>1, <3>2 DEF HeldBy, Submitted, Looking
    <3> QED BY <3>3, <3>4
  <2>12. CASE ReadBack(s)
    <3>1. replaced[s] = 1
      BY <1>11, <2>0, <2>12 DEF ReadBack, At, HeldBy
    <3> QED BY <1>0, <1>t, <1>11, <2>3, <2>12, <3>1, EndsStep DEF ReadBack
  <2>13. CASE Fails(s)
    <3>1. Failure(s) = "failed" => replaced[s] = 0
      BY <1>11, <2>0, <2>13 DEF Fails, Failure, HeldBy, Recorded
    <3>2. Failure(s) \in {"failed", "indeterminate"}
      BY DEF Failure
    <3> QED BY <1>0, <1>t, <1>11, <2>3, <2>13, <3>1, <3>2, EndsStep DEF Fails
  <2> QED
    BY <1>11, <2>4, <2>5, <2>6, <2>7, <2>8, <2>9, <2>10, <2>11, <2>12, <2>13 DEF Committing
<1>12. ASSUME NEW s \in Saves, Committing(s) \/ Fails(s) PROVE Locked /\ holder.save = s
  BY <1>12 DEF Committing, Fails, At, Prepare, Refuse, Stale, Stage, Check, CheckFails, Put, Unlink, ReadBack
<1> QED
  BY <1>1, <1>2, <1>3, <1>4, <1>5, <1>6, <1>7, <1>8, <1>9, <1>10, <1>11, <1>12 DEF SavesInv, SavesNext

-----------------------------------------------------------------------------
LEMMA Safety == ASSUME WikiAssumption PROVE SavesSpec => []SavesInv
BY InvInit, InvStep, PTL DEF SavesSpec

(* A step that puts a save's content in place is the Put of the commit that *)
(* holds the lock, at its last place before the replacement.                *)
LEMMA PutIsPut ==
  ASSUME WikiAssumption, SavesInv, [SavesNext]_saveVars, NEW s \in Saves, replaced'[s] # replaced[s]
  PROVE  /\ Locked /\ holder.save = s /\ holder.at = "checked"
         /\ Creating(s) => file.content = Nothing
<1> USE DEF Step, budgets
<1>1. SavesTypeOK /\ (\A t \in Saves : Once(t) => t = s)
  BY DEF SavesInv, SavesTypeOK, Once
<1>2. PICK t \in Saves : Committing(t) \/ Fails(t)
  BY DEF saveVars, SavesNext, Connect, Disconnect, WikiOwnerChanges, SaverDies, Edit, Begin, Chunk, Commit, Answer
<1>3. PICK u \in Saves : Put(u) /\ Once(u) /\ (Creating(u) => file.content = Nothing)
  BY <1>2 DEF Committing, Fails, Prepare, Refuse, Stale, Stage, Check, CheckFails, Put, Unlink, ReadBack
<1> QED BY <1>1, <1>3 DEF Put, At

(* The journal tells what happened to the file: a save is put in place at   *)
(* most once, was if it is called committed, and was not if it is called a  *)
(* conflict or failed.                                                      *)
THEOREM OutcomesHold == ASSUME WikiAssumption PROVE SavesSpec => []OutcomesTrue
<1>1. SavesInv => OutcomesTrue
  BY DEF SavesInv, Recorded, OutcomesTrue
<1> QED BY <1>1, Safety, PTL

(* No save overwrites content its author did not start from, other than a   *)
(* write from outside the lock after the last look.                         *)
THEOREM NothingLost == ASSUME WikiAssumption PROVE SavesSpec => NoLostSave
<1>1. ASSUME SavesInv, [SavesNext]_saveVars, NEW s \in Saves, replaced'[s] # replaced[s]
      PROVE  \/ file.content = uploads[s].base
             \/ ~Creating(s) /\ file.by = Outside /\ file.write # holder.seen
  <2>1. Locked /\ holder.save = s /\ holder.at = "checked" /\ (Creating(s) => file.content = Nothing)
    BY <1>1, PutIsPut
  <2>2. /\ file.write = holder.seen => file.content = uploads[s].base
        /\ file.write # holder.seen => file.by = Outside
    BY <1>1, <2>1 DEF SavesInv, HeldBy, Looking
  <2> QED BY <2>1, <2>2 DEF Creating
<1>2. ASSUME SavesInv, [SavesNext]_saveVars
      PROVE  [\A s \in Saves : replaced'[s] # replaced[s] =>
                \/ file.content = uploads[s].base
                \/ ~Creating(s) /\ file.by = Outside /\ file.write # holder.seen]_saveVars
  BY <1>1, <1>2
<1> QED BY <1>2, Safety, PTL DEF SavesSpec, NoLostSave

(* An answer given about a save stays, and the save no longer touches the   *)
(* file.                                                                    *)
THEOREM AnswersStay == ASSUME WikiAssumption PROVE SavesSpec => AnswersFinal
<1>1. ASSUME SavesInv, [SavesNext]_saveVars, NEW s \in Saves, told[s] # "none"
      PROVE  told'[s] = told[s] /\ replaced'[s] = replaced[s]
  <2> USE DEF Step, budgets
  <2>0. SavesTypeOK /\ Recorded(s) /\ HeldBy(s) /\ ~(Locked /\ holder.save = s)
    BY <1>1 DEF SavesInv, HeldBy
  <2>1. replaced'[s] = replaced[s]
    BY <1>1, <2>0, PutIsPut
  <2>2. CASE \E t \in Saves : Committing(t) \/ Fails(t)
    <3>1. PICK t \in Saves : Committing(t) \/ Fails(t)
      BY <2>2
    <3>2. t # s
      BY <2>0, <3>1 DEF Committing, Fails, At, Prepare, Refuse, Stale, Stage, Check, CheckFails, Put, Unlink, ReadBack
    <3>3. told' = told \/ \E status : Ends(t, status)
      BY <3>1 DEF Committing, Fails, Prepare, Refuse, Stale, Stage, Check, CheckFails, Put, Unlink, ReadBack
    <3>4. told'[s] = told[s]
      BY <2>0, <3>2, <3>3 DEF SavesTypeOK, Ends
    <3> QED BY <2>1, <3>4
  <2>3. CASE \E t \in Saves : Answer(t)
    <3>1. PICK t \in Saves : Answer(t)
      BY <2>3
    <3>2. CASE t = s
      <4>1. s \in Operations => told[s] = journal[s] /\ Recovered(s) = journal[s]
        BY <1>1, <2>0 DEF Recorded, Operations, Recovered, SavesTypeOK, FinalStatus
      <4>2. s \notin Operations => told[s] = "indeterminate"
        BY <1>1, <2>0 DEF Recorded, Operations, SavesTypeOK, FinalStatus, NoOperation
      <4> QED BY <2>0, <2>1, <3>1, <3>2, <4>1, <4>2 DEF Answer, SavesTypeOK
    <3>3. CASE t # s
      BY <2>0, <2>1, <3>1, <3>3 DEF Answer, SavesTypeOK
    <3> QED BY <3>2, <3>3
  <2>4. CASE UNCHANGED told
    BY <2>1, <2>4
  <2> QED
    BY <1>1, <2>2, <2>3, <2>4 DEF saveVars, SavesNext, Connect, Disconnect, WikiOwnerChanges, SaverDies, Edit, Begin, Chunk, Commit
<1>2. ASSUME SavesInv, [SavesNext]_saveVars
      PROVE  [\A s \in Saves : told[s] # "none" =>
                told'[s] = told[s] /\ replaced'[s] = replaced[s]]_saveVars
  BY <1>1, <1>2
<1> QED BY <1>2, Safety, PTL DEF SavesSpec, AnswersFinal

(* Nothing is put in place for a connection that ended or was made again    *)
(* since the upload began.                                                  *)
THEOREM GrantStaysHeld == ASSUME WikiAssumption PROVE SavesSpec => GrantHeld
<1>1. ASSUME SavesInv, [SavesNext]_saveVars, NEW s \in Saves, replaced'[s] # replaced[s]
      PROVE  grant.live /\ grant.generation = uploads[s].generation
  BY <1>1, PutIsPut DEF SavesInv, HeldBy
<1>2. ASSUME SavesInv, [SavesNext]_saveVars
      PROVE  [\A s \in Saves : replaced'[s] # replaced[s] =>
                grant.live /\ grant.generation = uploads[s].generation]_saveVars
  BY <1>1, <1>2
<1> QED BY <1>2, Safety, PTL DEF SavesSpec, GrantHeld
================================================================================
