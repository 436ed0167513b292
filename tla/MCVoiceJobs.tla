------------------------------ MODULE MCVoiceJobs ------------------------------
(***************************************************************************)
(* The voice components, one at a time: a run's first state chooses whose   *)
(* steps it takes (focus).  "dispatch" is VoiceJobs, "ledger" a ledger of   *)
(* its own, whatever its caller does; "calls" and "turns" are LiveCalls, the  *)
(* calls of LiveVoiceRuntime and the turns of a job, which meet the ledger  *)
(* through the jobs' ends and share no state with it here.                  *)
(***************************************************************************)
EXTENDS VoiceJobs

CONSTANTS v1, o1, b1, b2, m0, q1, u1, y1

AllApproval == [p \in Prompts |-> "approval"]
Observations == {"running", "completed"}

VARIABLES
  focus,
  \* VoiceLedger
  rows, orders, stale,
  \* LiveCalls
  current, routed, claimed, call, offer, ready, provider, setup, cleanup, job, primary, results,
  appended, left, sending, losses, allocated, over, spoken,
  state, tracked, bound, outcomes, control, allowed, hermes

A == INSTANCE VoiceLedger WITH
       MaxRevision <- 6, jobs <- rows, controls <- orders, aged <- stale

C == INSTANCE LiveCalls WITH
       Voices <- {v1}, Owners <- {o1}, OwnerOf <- [v \in {v1} |-> o1],
       Requests <- {b1, b2}, Briefs <- {1},
       VoiceOf <- [b \in {b1, b2} |-> v1], BriefOf <- [b \in {b1, b2} |-> 1],
       Sideband <- {v1}, Capacity <- 1, MaxClaims <- 1, Workers <- {1, 2}, MaxLosses <- 1,
       First <- m0, authorized <- allowed, Controls <- {q1, u1, y1},
       ActionOf <- [q \in {q1, u1, y1} |->
                      IF q = u1 THEN "steer" ELSE IF q = y1 THEN "cancel" ELSE "queue"]

aloneVars == <<rows, orders, stale>>
liveVars == <<current, routed, claimed, call, offer, ready, provider, setup, cleanup, job, primary,
  results, appended, left, sending, losses, allocated, over, spoken>>
turnVars == <<state, tracked, bound, outcomes, control, allowed, hermes>>
allVars == <<focus, vars, aloneVars, liveVars, turnVars>>

ASSUME C!LiveCallsAssumption /\ C!VoiceTurnsAssumption

-----------------------------------------------------------------------------
Begins ==
  /\ focus \in {"dispatch", "ledger", "calls", "turns"}
  /\ Init /\ A!LedgerInit /\ C!LiveCallsInit /\ C!TurnsInit

Step ==
  \/ focus = "dispatch" /\ Next /\ UNCHANGED <<focus, aloneVars, liveVars, turnVars>>
  \/ focus = "ledger" /\ A!LedgerNext /\ UNCHANGED <<focus, vars, liveVars, turnVars>>
  \/ focus = "calls" /\ C!LiveCallsNext /\ UNCHANGED <<focus, vars, aloneVars, turnVars>>
  \/ focus = "turns" /\ C!TurnsNext /\ UNCHANGED <<focus, vars, aloneVars, liveVars>>

(* The fairness of VoiceJobs!FairSpec, where its steps are taken.           *)
DispatchFairness ==
  /\ WF_vars(focus = "dispatch" /\ Restart)
  /\ WF_vars(focus = "dispatch" /\ \E d \in Delegations : Claim(d))
  /\ WF_vars(focus = "dispatch" /\ \E t \in tasks : TaskStep(t))

Runs == Begins /\ [][Step]_allVars /\ DispatchFairness /\ C!LiveCallsFairness

-----------------------------------------------------------------------------
\* VoiceJobs: every delegation leaves its dispatch, and every admitted control gets its
\* receipt, so that no job is left uncontrollable.
WorkSettles ==
  \A d \in Delegations :
    /\ (focus = "dispatch" /\ jobs[d].state \in {"admitted", "dispatching"}) ~>
         jobs[d].state \notin {"admitted", "dispatching"}
    /\ \A r \in Requests :
         (focus = "dispatch" /\ controls[d][r].state = "admitted") ~>
           controls[d][r].state # "admitted"

\* LiveCalls: a result is spoken into a call at most once, a conversation whose close was
\* answered allocates nothing any more, and a call that was closed, or whose route is
\* gone, ends with its provider closed; and a job that has ended has the outcome of every
\* turn it stands for.  And of the ledger alone: whoever calls it, a job asks while it waits
\* and has one control in flight.
CallsKept ==
  /\ [](C!LiveCallsTypeOK /\ C!SpokenOnce) /\ C!NothingAfterClose /\ C!TornDown
  /\ [](C!TurnsTypeOK /\ C!EndIsWhole)
  /\ [](A!TypeOK /\ A!WaitingIffPending /\ A!OneInFlight)
================================================================================
