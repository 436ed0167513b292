------------------------ MODULE MCNotificationActivities ------------------------
(***************************************************************************)
(* Two instances of NotificationActivities, of which a run's first state    *)
(* chooses one (focus).  "cohorts": three turns and a memory of two,        *)
(* a child, a restart, and no worker.  "delivery": one turn whose updates   *)
(* the worker claims, sends and retries.  The clock's unit stands for the   *)
(* thirty seconds of the relay's budget; the stale window, the refresh and  *)
(* the leases keep their order.                                             *)
(***************************************************************************)
EXTENDS NotificationActivities

CONSTANTS t1, GrantLife

VARIABLE focus

MCGrantOf == [a \in Activities |-> CHOOSE g \in Grants : TRUE]
MCSessionOf == [x \in Activities \cup Turns \cup Children |-> CHOOSE s \in Sessions : TRUE]
MCGrantExpires == [g \in Grants |-> GrantLife]

D == INSTANCE NotificationActivities WITH
       Turns <- {t1}, Children <- {},
       SessionOf <- [x \in Activities \cup {t1} |-> CHOOSE s \in Sessions : TRUE],
       GrantExpires <- [g \in Grants |-> 3],
       Progress <- {"using_tool"}, Outcomes <- {"completed"},
       Answers <- {"accepted", "retry", "failed", "gone"},
       LeaseLength <- 3, Backoffs <- {1}, WorkLimit <- 1,
       HoldsWorkerLock <- TRUE, MaxTime <- 3, MaxEpoch <- 0

allVars == <<focus, vars>>

ASSUME D!ShapeAssumption

-----------------------------------------------------------------------------
Begins ==
  /\ focus \in {"delivery", "cohorts"}
  /\ IF focus = "cohorts" THEN Init ELSE D!Init

Step ==
  /\ UNCHANGED focus
  /\ \/ focus = "delivery" /\ D!Next
     \/ focus = "cohorts" /\ Next

\* Fairness of the module, where the worker runs.
Delivers(A) == focus = "delivery" /\ A
Runs ==
  /\ Begins /\ [][Step]_allVars
  /\ SF_vars(Delivers(D!Tick)) /\ WF_vars(Delivers(D!Drain)) /\ WF_vars(Delivers(D!Locked))

-----------------------------------------------------------------------------
\* BoundWorkRetained, TerminalNewest and TerminalIsTrue are checked as the module states
\* them, on either instance; the types of the variables are proved.

\* A terminal update is decided in the end, under the fairness of the worker.
EndsSettle == focus = "delivery" => D!TerminalSettles
=============================================================================
