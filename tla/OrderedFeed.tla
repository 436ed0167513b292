------------------------------ MODULE OrderedFeed ------------------------------
(***************************************************************************)
(* What a bounded live feed promises a reader: it gets what was published   *)
(* since it opened, in that order and without a gap, until the feed ends;   *)
(* a feed that lost something ends, and nothing is read from it any more.   *)
(* SessionStreams and RoomActivity implement it with bounded buffers.       *)
(***************************************************************************)
EXTENDS Naturals, Sequences

CONSTANTS Readers, Events

VARIABLES
  log,    \* per reader: what was published for it since it opened
  got,    \* per reader: what it has read
  state   \* per reader: "none", "open" or "ended"

vars == <<log, got, state>>

Init ==
  /\ log = [r \in Readers |-> <<>>]
  /\ got = [r \in Readers |-> <<>>]
  /\ state = [r \in Readers |-> "none"]

Open(r) ==
  /\ state[r] = "none"
  /\ state' = [state EXCEPT ![r] = "open"]
  /\ UNCHANGED <<log, got>>

\* One event for the readers of its scope; a feed may end at the same time,
\* because the event does not fit.
Publish(e, R, ended) ==
  /\ log' = [r \in Readers |-> IF r \in R /\ state[r] = "open" THEN Append(log[r], e) ELSE log[r]]
  /\ state' = [r \in Readers |-> IF r \in ended /\ state[r] = "open" THEN "ended" ELSE state[r]]
  /\ UNCHANGED got

\* The reader gets the next events, one or a page.
Read(r) ==
  /\ state[r] = "open"
  /\ \E n \in Len(got[r])..Len(log[r]) : got' = [got EXCEPT ![r] = SubSeq(log[r], 1, n)]
  /\ UNCHANGED <<log, state>>

End(R) ==
  /\ state' = [r \in Readers |-> IF r \in R /\ state[r] = "open" THEN "ended" ELSE state[r]]
  /\ UNCHANGED <<log, got>>

Next ==
  /\ vars' # vars
  /\ \/ \E r \in Readers : Open(r) \/ Read(r)
     \/ \E e \in Events, R, ended \in SUBSET Readers : Publish(e, R, ended)
     \/ \E R \in SUBSET Readers : End(R)

Spec == Init /\ [][Next]_vars
=============================================================================
