------------------------ MODULE MCNotificationAlerts ------------------------
(***************************************************************************)
(* Instances of NotificationAlerts for TLC.  The clock's unit stands for   *)
(* one interval of the module: the grace, the claim lease and the TTLs     *)
(* keep their order (grace < lease < question < alert TTL would need a     *)
(* longer clock and adds no interleaving), the limits are one or two.      *)
(***************************************************************************)
EXTENDS NotificationAlerts

CONSTANT GrantLife

MCSessionOf == [t \in Turns |-> CHOOSE s \in Sessions : TRUE]
MCPermits == [g \in Grants |-> Keys]
MCPermitsApprovals == [g \in Grants |-> Tools]
MCGrantCreated == [g \in Grants |-> 0]
MCGrantExpires == [g \in Grants |-> GrantLife]
=============================================================================
