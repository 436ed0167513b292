--------------------- MODULE NotificationActivitiesProofs ---------------------
(***************************************************************************)
(* Proofs about NotificationActivities, for any grants, activities, turns, *)
(* children, leases, limits and bounds: that no update is newer than the    *)
(* terminal one of its activity, that an end is told only when it is one,   *)
(* and that an activity's cohort stays in memory while its lease lives.     *)
(***************************************************************************)
EXTENDS NotificationActivities, FiniteSetTheorems, SequenceTheorems, TLAPS

\* A cohort has no more children than the limit.
KnownChildren(w) == {c \in Children : w.children[c] # "none"}
Bounded(w) == IsFiniteSet(KnownChildren(w)) /\ Cardinality(KnownChildren(w)) <= ChildLimit
CohortsBounded == \A t \in Turns : Bounded(work[t])

\* The turn is over: its parent ended and no child runs.
Over(t) == work[t].outcome # "none" /\ ActiveChildren(work[t]) = {}

\* An ordinary update is not due before its time, and its time had come once it was claimed.
InTime(r) ==
  \/ r.act \in forgotten \/ r.sig.phase \in Ends
  \/ (r.state \in Live => r.stamp <= r.next) /\ (r.state # "pending" => r.stamp <= now)

RowsOK ==
  \A a \in Activities :
    /\ activities[a].state = "none" => activities[a] = NoActivity
    /\ activities[a].state = "active" => a \in forgotten \/ activities[a].stamp <= activities[a].queuedAt
UpdatesOK == \A r \in pending : r.stamp < r.expires /\ InTime(r)
\* What the worker holds was due when it was swept.
WorkerOK ==
  \A r \in worker.batch \cup worker.row : r.act \in forgotten \/ r.sig.phase \in Ends \/ r.stamp <= now
\* A terminal update ends the updates of its activity.
EndsLast ==
  \A r \in pending : r.act \notin forgotten /\ r.sig.phase \in Ends => activities[r.act].state \notin {"none", "active"}

\* What the holder of the lock has read still stands, for the activities not forgotten.
Selecting ==
  /\ holder.turn \in Turns /\ Known(holder.turn) /\ holder.sig \in Signature
  /\ holder.sig.phase \in Ends => Over(holder.turn)
  /\ DOMAIN holder.rows \subseteq Activities
  /\ \A a \in DOMAIN holder.rows :
       /\ holder.rows[a] \in Row /\ holder.rows[a].state = "active"
       /\ a \in forgotten \/ activities[a] = holder.rows[a]
Writing ==
  LET u == holder.first IN
  /\ u \in Update /\ u.act \notin DOMAIN holder.rows /\ u.turn = holder.turn /\ u.sig = holder.sig
  /\ u.state = "pending" /\ u.stamp < u.expires
  /\ IF u.sig.phase \in Ends THEN now <= u.stamp ELSE u.act \in forgotten \/ u.stamp <= u.next
  /\ u.act \in forgotten \/ activities[u.act].state = "active"
Binding ==
  /\ holder.act \in Activities /\ holder.turn \in Turns \cup {NoTurn} /\ holder.lease \in Nat
  /\ holder.turn # NoTurn => Known(holder.turn)
  /\ activities[holder.act].turn \in {NoTurn, holder.turn}
HolderOK ==
  /\ holder.phase = "selected" =>
       holder = [phase |-> "selected", turn |-> holder.turn, sig |-> holder.sig, rows |-> holder.rows]
  /\ holder.phase \in {"selected", "writing"} => Selecting
  /\ holder.phase = "writing" => Writing
  /\ holder.phase = "binding" => Binding
  /\ holder.phase = "bound" => holder.turn \in Turns /\ Known(holder.turn)

Bindings == \A a \in Activities : binder[a] <= epoch

IInv ==
  /\ TypeOK /\ CohortsBounded /\ RowsOK /\ UpdatesOK /\ WorkerOK /\ EndsLast /\ HolderOK
  /\ Bindings /\ BoundWorkRetained /\ TerminalNewest
-----------------------------------------------------------------------------
\* Data.

\* The least of three numbers.
LEMMA LeastOfThree ==
  ASSUME NEW x \in Nat, NEW y \in Nat, NEW z \in Nat
  PROVE  LowerOf({x, y, z}) \in Nat
<1>1. \E m \in {x, y, z} : \A n \in {x, y, z} : m <= n
  <2>1. CASE x <= y /\ x <= z
    BY <2>1
  <2>2. CASE y <= x /\ y <= z
    BY <2>2
  <2>3. CASE z <= x /\ z <= y
    BY <2>3
  <2> QED BY <2>1, <2>2, <2>3
<1>2. LowerOf({x, y, z}) \in {x, y, z}
  BY <1>1 DEF LowerOf
<1> QED BY <1>2

\* What an update may replace is pending and of the same activity.
LEMMA ReplacedIs ==
  ASSUME TypeOK, NEW a, NEW replaced \in Replaced(a)
  PROVE  replaced = {} \/ \E r \in pending : replaced = {r} /\ r.act = a /\ r.state = "pending"
BY DEF Replaced

\* An update is made of the row it is for; its time is not before the clock's, and an
\* ordinary one of an activity that was not forgotten is not due before its time.
LEMMA UpdateIs ==
  ASSUME TypeOK, NEW a \in Activities, NEW row \in Row, NEW t \in Turns, NEW sig \in Signature,
         NEW replaced \in Replaced(a), NEW u, u = UpdateFor(a, row, t, sig, replaced)
  PROVE  /\ u \in Update /\ u.act = a /\ u.turn = t /\ u.sig = sig /\ u.state = "pending" /\ now <= u.stamp
         /\ \/ a \in forgotten \/ sig.phase \in Ends \/ row # activities[a] \/ row.state # "active"
            \/ ~(RowsOK /\ UpdatesOK /\ EndsLast)
            \/ u.stamp <= u.next
<1> DEFINE stamp == Stamp(row, replaced)
           due == Due(row, sig, replaced)
           ends == LowerOf({stamp + Stale, GrantExpires[GrantOf[a]], row.lease})
<1>1. /\ now \in Nat /\ Stale \in Nat /\ Budget \in Nat \ {0} /\ GrantExpires[GrantOf[a]] \in Nat
      /\ row.lease \in Nat /\ row.stamp \in Nat /\ row.queuedAt \in Nat
  BY ShapeAssumption DEF TypeOK, Row
<1>2. replaced = {} \/ \E r \in pending : replaced = {r} /\ r.act = a /\ r.state = "pending"
  BY ReplacedIs
<1>3. /\ stamp \in Nat /\ due \in Nat /\ now <= stamp
      /\ \/ a \in forgotten \/ sig.phase \in Ends \/ row # activities[a] \/ row.state # "active"
         \/ ~(RowsOK /\ UpdatesOK /\ EndsLast)
         \/ stamp <= due
  <2>1. CASE replaced = {}
    <3>1. stamp = UpperOf(now, row.stamp + 1)
      BY <2>1 DEF Stamp
    <3>2. due = IF sig.phase \in Ends THEN now ELSE UpperOf(now, row.queuedAt + Budget)
      BY <2>1 DEF Due
    <3>3. stamp \in Nat /\ due \in Nat /\ now <= stamp
      BY <1>1, <3>1, <3>2 DEF UpperOf
    <3>4. row.stamp <= row.queuedAt /\ sig.phase \notin Ends => stamp <= due
      BY <1>1, <3>1, <3>2 DEF UpperOf
    <3> QED BY <3>3, <3>4 DEF RowsOK
  <2>2. ASSUME NEW r \in pending, replaced = {r}, r.act = a, r.state = "pending"
        PROVE  /\ stamp \in Nat /\ due \in Nat /\ now <= stamp
               /\ \/ a \in forgotten \/ sig.phase \in Ends \/ row # activities[a] \/ row.state # "active"
                  \/ ~(RowsOK /\ UpdatesOK /\ EndsLast)
                  \/ stamp <= due
    <3>1. (CHOOSE s \in replaced : TRUE) = r /\ replaced # {}
      BY <2>2
    <3>2. stamp = UpperOf(now, r.stamp)
      BY <3>1 DEF Stamp
    <3>3. due = IF sig.phase \in Ends THEN now ELSE UpperOf(now, r.next)
      BY <3>1 DEF Due
    <3>4. r.stamp \in Nat /\ r.next \in Nat
      BY DEF TypeOK, Update
    <3>5. stamp \in Nat /\ due \in Nat /\ now <= stamp
      BY <1>1, <3>2, <3>3, <3>4 DEF UpperOf
    <3>6. r.stamp <= r.next /\ sig.phase \notin Ends => stamp <= due
      BY <1>1, <3>2, <3>3, <3>4 DEF UpperOf
    <3>7. EndsLast /\ UpdatesOK /\ a \notin forgotten /\ activities[a].state = "active" => r.stamp <= r.next
      BY <2>2 DEF EndsLast, UpdatesOK, InTime, Live
    <3> QED BY <3>5, <3>6, <3>7
  <2> QED BY <1>2, <2>1, <2>2
<1>4. ends \in Nat
  BY <1>1, <1>3, LeastOfThree
<1>5. u = [act |-> a, turn |-> t, sig |-> sig, stamp |-> stamp, state |-> "pending", expires |-> ends, next |-> due]
  BY DEF UpdateFor
<1> HIDE DEF stamp, due, ends
<1> QED BY <1>3, <1>4, <1>5 DEF Update, Live

\* The order without its n-th turn.
LEMMA WithoutIs ==
  ASSUME TypeOK, NEW n \in DOMAIN order
  PROVE  /\ Without(n) \in Seq(Turns) /\ Len(Without(n)) = Len(order) - 1
         /\ \A k, l \in DOMAIN Without(n) : Without(n)[k] = Without(n)[l] => k = l
         /\ {Without(n)[k] : k \in DOMAIN Without(n)} = {order[m] : m \in DOMAIN order} \ {order[n]}
<1> DEFINE left == SubSeq(order, 1, n - 1)
           right == SubSeq(order, n + 1, Len(order))
           at(k) == IF k < n THEN k ELSE k + 1
<1>1. /\ order \in Seq(Turns) /\ Len(order) \in Nat /\ DOMAIN order = 1 .. Len(order) /\ n \in 1 .. Len(order)
      /\ \A m, l \in DOMAIN order : order[m] = order[l] => m = l
  BY DEF TypeOK
<1>2. left \in Seq(Turns) /\ Len(left) = n - 1 /\ \A k \in 1 .. n - 1 : left[k] = order[k]
  BY <1>1
<1>3. /\ right \in Seq(Turns) /\ Len(right) = Len(order) - n
      /\ \A k \in 1 .. Len(order) - n : right[k] = order[k + n]
  <2>1. /\ right \in Seq(Turns) /\ Len(right) = Len(order) - n
        /\ \A k \in 1 .. Len(order) - n : right[k] = order[(n + 1) + k - 1]
    BY <1>1, SubSeqProperties
  <2>2. \A k \in 1 .. Len(order) - n : (n + 1) + k - 1 = k + n
    BY <1>1
  <2> QED BY <2>1, <2>2
<1>4. Without(n) = left \o right
  BY DEF Without
<1> HIDE DEF left, right
<1>5. /\ Without(n) \in Seq(Turns) /\ Len(Without(n)) = Len(left) + Len(right)
      /\ \A k \in 1 .. Len(left) + Len(right) :
           Without(n)[k] = IF k <= Len(left) THEN left[k] ELSE right[k - Len(left)]
  <2>1. left \in Seq(Turns) /\ right \in Seq(Turns)
    BY <1>2, <1>3
  <2> QED BY <1>4, <2>1, ConcatProperties
<1>6. Len(left) + Len(right) = Len(order) - 1
  BY <1>1, <1>2, <1>3
<1>7. Len(Without(n)) = Len(order) - 1 /\ DOMAIN Without(n) = 1 .. Len(order) - 1
  BY <1>5, <1>6
<1>8. ASSUME NEW k \in 1 .. Len(order) - 1
      PROVE  Without(n)[k] = order[at(k)]
  <2>1. CASE k < n
    <3>1. k \in 1 .. n - 1 /\ k <= Len(left)
      BY <1>1, <1>2, <2>1
    <3> QED BY <1>2, <1>5, <1>6, <2>1, <3>1
  <2>2. CASE ~(k < n)
    <3>1. k - (n - 1) \in 1 .. Len(order) - n /\ ~(k <= Len(left)) /\ (k - (n - 1)) + n = k + 1
      BY <1>1, <1>2, <2>2
    <3>2. Without(n)[k] = right[k - (n - 1)]
      BY <1>2, <1>5, <1>6, <3>1
    <3> QED BY <1>3, <2>2, <3>1, <3>2
  <2> QED BY <2>1, <2>2
<1>9. \A k \in 1 .. Len(order) - 1 : at(k) \in DOMAIN order /\ at(k) # n
  BY <1>1
<1>10. \A k, l \in 1 .. Len(order) - 1 : at(k) = at(l) => k = l
  BY <1>1
<1>11. \A m \in DOMAIN order : m # n => \E k \in 1 .. Len(order) - 1 : at(k) = m
  <2> SUFFICES ASSUME NEW m \in DOMAIN order, m # n
               PROVE  \E k \in 1 .. Len(order) - 1 : at(k) = m
    OBVIOUS
  <2>1. CASE m < n
    <3>1. m \in 1 .. Len(order) - 1 /\ at(m) = m
      BY <1>1, <2>1
    <3> QED BY <3>1
  <2>2. CASE m > n
    <3>1. m - 1 \in 1 .. Len(order) - 1 /\ at(m - 1) = m
      BY <1>1, <2>2
    <3> QED BY <3>1
  <2> QED BY <1>1, <2>1, <2>2
<1> HIDE DEF at
<1>12. \A k, l \in DOMAIN Without(n) : Without(n)[k] = Without(n)[l] => k = l
  <2> SUFFICES ASSUME NEW k \in DOMAIN Without(n), NEW l \in DOMAIN Without(n), Without(n)[k] = Without(n)[l]
               PROVE  k = l
    OBVIOUS
  <2>1. k \in 1 .. Len(order) - 1 /\ l \in 1 .. Len(order) - 1
    BY <1>7
  <2>2. at(k) \in DOMAIN order /\ at(l) \in DOMAIN order /\ order[at(k)] = order[at(l)]
    BY <1>8, <1>9, <2>1
  <2>3. at(k) = at(l)
    BY <1>1, <2>2
  <2> QED BY <1>10, <2>1, <2>3
<1>13. {Without(n)[k] : k \in DOMAIN Without(n)} = {order[m] : m \in DOMAIN order} \ {order[n]}
  <2>1. ASSUME NEW k \in DOMAIN Without(n)
        PROVE  Without(n)[k] \in {order[m] : m \in DOMAIN order} \ {order[n]}
    BY <1>1, <1>7, <1>8, <1>9
  <2>2. ASSUME NEW m \in DOMAIN order, order[m] # order[n]
        PROVE  \E k \in DOMAIN Without(n) : Without(n)[k] = order[m]
    BY <1>7, <1>8, <1>11, <2>2
  <2> QED BY <2>1, <2>2
<1> QED BY <1>5, <1>7, <1>12, <1>13
-----------------------------------------------------------------------------
\* Handlers and worker: they leave the cohorts and the holder of the lock alone.  A row
\* goes, or its terminal update is accepted; an update goes, or its state changes.

RowGoesOn(a) ==
  \/ activities'[a] = activities[a]
  \/ activities'[a] = NoActivity /\ (a \in forgotten' \/ activities[a].state = "none")
  \/ activities[a].state = "terminal_pending" /\ activities'[a] = [activities[a] EXCEPT !.state = "terminal_accepted"]
UpdateGoesOn(r) ==
  /\ r \in Update /\ r.stamp < r.expires
  /\ \E s \in pending : Key(s) = Key(r)
  /\ \/ r.act \in forgotten \/ r.sig.phase \in Ends
     \/ (r.state \in Live => r.stamp <= r.next) /\ (r.state # "pending" => r.stamp <= now)
Quiet ==
  /\ UNCHANGED <<now, memory, holder, epoch, binder>>
  /\ grants' \in [Grants -> {"absent", "active", "removed"}]
  /\ activities' \in [Activities -> Row] /\ \A a \in Activities : RowGoesOn(a)
  /\ \A r \in pending' : UpdateGoesOn(r)
  /\ asked' \subseteq Activities \X (Turns \cup {NoTurn}) \X Nat
  /\ forgotten \subseteq forgotten' /\ forgotten' \subseteq Activities
  /\ worker' \in [phase: {"idle", "drain", "transport", "answered"}, batch: SUBSET Update,
                  row: SUBSET Update, answer: Answers \cup {"none"}]
  /\ \A r \in worker'.batch \cup worker'.row : r.act \in forgotten \/ r.sig.phase \in Ends \/ r.stamp <= now

\* A step of handlers or worker keeps the invariant.
LEMMA QuietKeeps ==
  ASSUME IInv, Quiet
  PROVE  IInv'
<1>1. /\ now' = now /\ work' = work /\ order' = order /\ owner' = owner /\ holder' = holder /\ epoch' = epoch
      /\ binder' = binder
  BY DEF Quiet, memory
<1>2. TypeOK'
  <2>1. pending' \subseteq Update
    BY DEF Quiet, UpdateGoesOn
  <2> QED BY <1>1, <2>1 DEF IInv, TypeOK, Quiet, Known
<1>3. CohortsBounded'
  BY <1>1 DEF IInv, CohortsBounded
<1>4. RowsOK'
  <2> SUFFICES ASSUME NEW a \in Activities
               PROVE  /\ activities'[a].state = "none" => activities'[a] = NoActivity
                      /\ activities'[a].state = "active" =>
                           a \in forgotten' \/ activities'[a].stamp <= activities'[a].queuedAt
    BY DEF RowsOK
  <2>1. RowGoesOn(a) /\ activities[a] \in Row /\ forgotten \subseteq forgotten'
    BY DEF IInv, TypeOK, Quiet
  <2>2. CASE activities'[a] = activities[a]
    BY <2>1, <2>2 DEF IInv, RowsOK
  <2>3. CASE activities'[a] = NoActivity
    BY <2>3 DEF NoActivity
  <2>4. CASE activities'[a] = [activities[a] EXCEPT !.state = "terminal_accepted"]
    BY <2>1, <2>4 DEF Row
  <2> QED BY <2>1, <2>2, <2>3, <2>4 DEF RowGoesOn
<1>5. UpdatesOK'
  BY <1>1 DEF UpdatesOK, InTime, Quiet, UpdateGoesOn
<1>6. WorkerOK'
  BY <1>1 DEF WorkerOK, Quiet
<1>7. EndsLast'
  <2> SUFFICES ASSUME NEW r \in pending', r.act \notin forgotten', r.sig.phase \in Ends
               PROVE  activities'[r.act].state \notin {"none", "active"}
    BY DEF EndsLast
  <2>1. PICK s \in pending : Key(s) = Key(r)
    BY DEF Quiet, UpdateGoesOn
  <2>2. s.act = r.act /\ s.sig = r.sig /\ r.act \in Activities /\ r.act \notin forgotten
    BY <2>1 DEF Key, Quiet, UpdateGoesOn, Update
  <2>3. activities[r.act].state \notin {"none", "active"}
    BY <2>2 DEF IInv, EndsLast
  <2>4. RowGoesOn(r.act) /\ activities[r.act] \in Row
    BY <2>2 DEF Quiet, IInv, TypeOK
  <2>5. CASE activities'[r.act] = [activities[r.act] EXCEPT !.state = "terminal_accepted"]
    BY <2>4, <2>5 DEF Row
  <2> QED BY <2>3, <2>4, <2>5 DEF RowGoesOn
<1>8. HolderOK'
  <2>1. CASE holder.phase \in {"selected", "writing"}
    <3>1. Selecting
      BY <2>1 DEF IInv, HolderOK
    <3>2. ASSUME NEW a \in Activities, a \in forgotten \/ activities[a].state = "active"
          PROVE  a \in forgotten' \/ activities'[a] = activities[a]
      <4>1. RowGoesOn(a)
        BY DEF Quiet
      <4> QED BY <3>2, <4>1 DEF Quiet, RowGoesOn
    <3>3. Selecting'
      <4>1. \A a \in DOMAIN holder.rows :
              /\ holder.rows[a] \in Row /\ holder.rows[a].state = "active"
              /\ a \in forgotten' \/ activities'[a] = holder.rows[a]
        <5> SUFFICES ASSUME NEW a \in DOMAIN holder.rows
                     PROVE  /\ holder.rows[a] \in Row /\ holder.rows[a].state = "active"
                            /\ a \in forgotten' \/ activities'[a] = holder.rows[a]
          OBVIOUS
        <5>1. /\ holder.rows[a] \in Row /\ holder.rows[a].state = "active" /\ a \in Activities
              /\ a \in forgotten \/ activities[a] = holder.rows[a]
          BY <3>1 DEF Selecting
        <5>2. forgotten \subseteq forgotten'
          BY DEF Quiet
        <5> QED BY <3>2, <5>1, <5>2
      <4> QED BY <1>1, <3>1, <4>1 DEF Selecting, Known, Over
    <3>4. holder.phase = "writing" => Writing'
      <4> SUFFICES ASSUME holder.phase = "writing" PROVE Writing'
        OBVIOUS
      <4>1. Writing /\ forgotten \subseteq forgotten'
        BY DEF IInv, HolderOK, Quiet
      <4>2. holder.first.act \in Activities
        BY <4>1 DEF Writing, Update
      <4>3. holder.first.act \in forgotten' \/ activities'[holder.first.act].state = "active"
        BY <3>2, <4>1, <4>2 DEF Writing
      <4> QED BY <1>1, <4>1, <4>3 DEF Writing
    <3> QED BY <1>1, <2>1, <3>3, <3>4 DEF IInv, HolderOK
  <2>2. CASE holder.phase = "binding"
    <3>1. Binding
      BY <2>2 DEF IInv, HolderOK
    <3>2. holder.act \in Activities /\ RowGoesOn(holder.act) /\ activities[holder.act] \in Row
      BY <3>1 DEF Binding, Quiet, IInv, TypeOK
    <3>3. activities'[holder.act].turn \in {NoTurn, activities[holder.act].turn}
      <4>1. CASE activities'[holder.act] = NoActivity
        BY <4>1 DEF NoActivity
      <4>2. CASE activities'[holder.act] = [activities[holder.act] EXCEPT !.state = "terminal_accepted"]
        BY <3>2, <4>2 DEF Row
      <4> QED BY <3>2, <4>1, <4>2 DEF RowGoesOn
    <3> QED BY <1>1, <2>2, <3>1, <3>3 DEF Binding, HolderOK, Known
  <2>3. CASE holder.phase \notin {"selected", "writing", "binding"}
    BY <1>1, <2>3 DEF IInv, HolderOK, Known
  <2> QED BY <2>1, <2>2, <2>3
<1>9. Bindings'
  BY <1>1 DEF IInv, Bindings
<1>10. BoundWorkRetained'
  <2> SUFFICES ASSUME NEW a \in Activities, activities'[a].turn # NoTurn, activities'[a].lease > now, binder[a] = epoch
               PROVE  Known(activities'[a].turn)
    BY <1>1 DEF BoundWorkRetained, Known
  <2>1. RowGoesOn(a) /\ activities[a] \in Row
    BY DEF Quiet, IInv, TypeOK
  <2>2. CASE activities'[a] = [activities[a] EXCEPT !.state = "terminal_accepted"]
    <3>1. activities'[a].turn = activities[a].turn /\ activities'[a].lease = activities[a].lease
      BY <2>1, <2>2 DEF Row
    <3> QED BY <3>1 DEF IInv, BoundWorkRetained
  <2>3. CASE activities'[a] = NoActivity
    BY <2>3 DEF NoActivity
  <2> QED BY <2>1, <2>2, <2>3 DEF RowGoesOn, IInv, BoundWorkRetained
<1>11. TerminalNewest'
  <2> SUFFICES ASSUME NEW r \in pending', NEW s \in pending', r.act = s.act, r.act \notin forgotten', r.sig.phase \in Ends
               PROVE  s.stamp <= r.stamp
    BY DEF TerminalNewest
  <2>1. PICK p \in pending : Key(p) = Key(r)
    BY DEF Quiet, UpdateGoesOn
  <2>2. PICK q \in pending : Key(q) = Key(s)
    BY DEF Quiet, UpdateGoesOn
  <2>3. p.act = r.act /\ p.sig = r.sig /\ p.stamp = r.stamp /\ q.act = s.act /\ q.stamp = s.stamp
    BY <2>1, <2>2 DEF Key
  <2> QED BY <2>3 DEF IInv, TerminalNewest, Quiet
<1> QED BY <1>2, <1>3, <1>4, <1>5, <1>6, <1>7, <1>8, <1>9, <1>10, <1>11 DEF IInv
\* What forgetting leaves is quiet.
LEMMA ForgettingKeeps ==
  ASSUME IInv, NEW S, S \subseteq Activities, Forget(S)
  PROVE  /\ activities' \in [Activities -> Row] /\ \A a \in Activities : RowGoesOn(a)
         /\ \A r \in pending' : UpdateGoesOn(r)
         /\ forgotten \subseteq forgotten' /\ forgotten' \subseteq Activities
<1>1. NoActivity \in Row
  BY DEF NoActivity, Row, NoSignature
<1>2. activities' = [a \in Activities |-> IF a \in S THEN NoActivity ELSE activities[a]]
  BY DEF Forget
<1>3. activities' \in [Activities -> Row]
  BY <1>1, <1>2 DEF IInv, TypeOK
<1>4. \A a \in Activities : RowGoesOn(a)
  BY <1>2 DEF Forget, RowGoesOn, IInv
<1>5. \A r \in pending' : UpdateGoesOn(r)
  BY DEF Forget, UpdateGoesOn, IInv, TypeOK, UpdatesOK, InTime
<1> QED BY <1>3, <1>4, <1>5 DEF Forget, IInv, TypeOK

\* Updates left as they are go on.
LEMMA UpdatesGoOn ==
  ASSUME IInv
  PROVE  \A r \in pending : UpdateGoesOn(r)
BY DEF UpdateGoesOn, IInv, TypeOK, UpdatesOK, InTime

\* The update of a row of the worker's, in another state, goes on.
LEMMA AnotherState ==
  ASSUME IInv, NEW r, r \in worker.batch \cup worker.row, NEW s \in pending, Key(s) = Key(r),
         NEW state \in {"pending", "sending", "accepted", "failed"}, NEW next \in Nat, state \in Live => now <= next,
         NEW u, u = [s EXCEPT !.state = state, !.next = next]
  PROVE  UpdateGoesOn(u)
<1>1. s \in Update /\ s.stamp < s.expires
  BY DEF IInv, TypeOK, UpdatesOK
<1>2. /\ u \in Update /\ u.act = s.act /\ u.turn = s.turn /\ u.sig = s.sig /\ u.stamp = s.stamp
      /\ u.expires = s.expires /\ u.state = state /\ u.next = next
  BY <1>1 DEF Update, Live
<1>3. s.act = r.act /\ s.sig = r.sig /\ s.stamp = r.stamp
  BY DEF Key
<1>4. r.act \in forgotten \/ r.sig.phase \in Ends \/ r.stamp <= now
  BY DEF IInv, WorkerOK
<1>5. now \in Nat /\ s.stamp \in Nat
  BY <1>1, ShapeAssumption DEF IInv, TypeOK, Update
<1>6. \/ u.act \in forgotten \/ u.sig.phase \in Ends
      \/ (u.state \in Live => u.stamp <= u.next) /\ (u.state # "pending" => u.stamp <= now)
  BY <1>2, <1>3, <1>4, <1>5 DEF Live
<1> QED BY <1>1, <1>2, <1>6 DEF UpdateGoesOn, Key

\* Handlers keep the invariant.
LEMMA HandlersKeep ==
  ASSUME IInv,
         \/ \E g \in Grants : Enroll(g) \/ Remove(g)
         \/ \E a \in Activities : RemoveActivity(a)
         \/ \E g \in Grants, s \in Sessions : Unsubscribe(g, s)
         \/ \E a \in Activities, t \in Turns \cup {NoTurn} : AskActivity(a, t)
  PROVE  IInv'
<1>t. /\ TypeOK /\ WorkerOK
      /\ \A r \in worker.batch \cup worker.row : r.act \in forgotten \/ r.sig.phase \in Ends \/ r.stamp <= now
  BY DEF IInv, WorkerOK
<1>s. activities \in [Activities -> Row] /\ \A a \in Activities : activities' = activities => RowGoesOn(a)
  BY DEF IInv, TypeOK, RowGoesOn
<1>1. ASSUME NEW g \in Grants, Enroll(g)
      PROVE  Quiet
  BY <1>t, <1>s, <1>1, UpdatesGoOn DEF Enroll, Quiet, TypeOK, history, memory
<1>2. ASSUME NEW g \in Grants, Remove(g)
      PROVE  Quiet
  <2>1. grants' \in [Grants -> {"absent", "active", "removed"}]
    BY <1>t, <1>2 DEF Remove, RemoveRows, TypeOK
  <2> QED BY <1>t, <1>2, <2>1, ForgettingKeeps DEF Remove, RemoveRows, Quiet, TypeOK
<1>3. ASSUME NEW a \in Activities, RemoveActivity(a)
      PROVE  Quiet
  BY <1>t, <1>3, ForgettingKeeps DEF RemoveActivity, Quiet, TypeOK
<1>4. ASSUME NEW g \in Grants, NEW s \in Sessions, Unsubscribe(g, s)
      PROVE  Quiet
  BY <1>t, <1>4, ForgettingKeeps DEF Unsubscribe, Quiet, TypeOK
<1>5. ASSUME NEW a \in Activities, NEW t \in Turns \cup {NoTurn}, AskActivity(a, t)
      PROVE  Quiet
  <2>1. now + LeaseLength \in Nat
    BY <1>t, ShapeAssumption DEF TypeOK
  <2>2. asked' \subseteq Activities \X (Turns \cup {NoTurn}) \X Nat
    BY <1>t, <1>5, <2>1 DEF AskActivity, TypeOK
  <2> QED BY <1>t, <1>s, <1>5, <2>2, UpdatesGoOn DEF AskActivity, Quiet, TypeOK, journal, history, memory
<1> QED BY <1>1, <1>2, <1>3, <1>4, <1>5, QuietKeeps
\* What the worker swept, goes on; what is due of it was in time.
LEMMA SweptGoesOn ==
  ASSUME IInv, NEW s \in pending
  PROVE  /\ UpdateGoesOn(SweptRow(s)) /\ SweptRow(s) \in Update
         /\ SweptRow(s).state = "pending" /\ SweptRow(s).next <= now =>
              SweptRow(s).act \in forgotten \/ SweptRow(s).sig.phase \in Ends \/ SweptRow(s).stamp <= now
<1>1. s \in Update /\ s.stamp < s.expires /\ InTime(s) /\ now \in Nat
  BY ShapeAssumption DEF IInv, TypeOK, UpdatesOK
<1>2. CASE SweptRow(s) = s
  BY <1>1, <1>2, UpdatesGoOn DEF InTime, Update, Live
<1>3. ASSUME s.state = "pending" \/ (s.state = "sending" /\ s.next <= now),
             SweptRow(s) = [s EXCEPT !.state = IF s.expires <= now THEN "expired" ELSE "pending"]
      PROVE  /\ UpdateGoesOn(SweptRow(s)) /\ SweptRow(s) \in Update
             /\ SweptRow(s).state = "pending" /\ SweptRow(s).next <= now =>
                  SweptRow(s).act \in forgotten \/ SweptRow(s).sig.phase \in Ends \/ SweptRow(s).stamp <= now
  <2> DEFINE state == IF s.expires <= now THEN "expired" ELSE "pending"
             u == SweptRow(s)
  <2>1. /\ u \in Update /\ u.act = s.act /\ u.turn = s.turn /\ u.sig = s.sig /\ u.stamp = s.stamp
        /\ u.expires = s.expires /\ u.state = state /\ u.next = s.next
    BY <1>1, <1>3 DEF Update, Live
  <2>2. s.stamp \in Nat /\ s.next \in Nat /\ s.expires \in Nat
    BY <1>1 DEF Update
  <2>3. \/ s.act \in forgotten \/ s.sig.phase \in Ends
        \/ (s.state \in Live => s.stamp <= s.next) /\ (s.state # "pending" => s.stamp <= now)
    BY <1>1 DEF InTime
  <2>4. \/ u.act \in forgotten \/ u.sig.phase \in Ends
        \/ (u.state \in Live => u.stamp <= u.next) /\ (u.state # "pending" => u.stamp <= now)
    <3>1. CASE s.expires <= now
      BY <1>1, <2>1, <2>2, <2>3, <3>1 DEF Live
    <3>2. CASE ~(s.expires <= now) /\ s.state = "pending"
      BY <1>1, <2>1, <2>2, <2>3, <3>2 DEF Live
    <3>3. CASE ~(s.expires <= now) /\ s.state = "sending" /\ s.next <= now
      BY <1>1, <2>1, <2>2, <2>3, <3>3 DEF Live
    <3> QED BY <1>3, <3>1, <3>2, <3>3
  <2>5. UpdateGoesOn(u)
    <3>1. Key(s) = Key(u)
      BY <2>1 DEF Key
    <3> QED BY <1>1, <2>1, <2>4, <3>1 DEF UpdateGoesOn
  <2>6. u.state = "pending" /\ u.next <= now => u.act \in forgotten \/ u.sig.phase \in Ends \/ u.stamp <= now
    <3> HIDE DEF u
    <3> QED BY <1>1, <2>1, <2>2, <2>4 DEF Live
  <2> QED BY <2>1, <2>5, <2>6
<1> QED BY <1>2, <1>3 DEF SweptRow

\* The worker keeps the invariant.
LEMMA WorkerKeeps ==
  ASSUME IInv, Drain
  PROVE  IInv'
<1>t. /\ TypeOK /\ now \in Nat
      /\ \A r \in worker.batch \cup worker.row : r.act \in forgotten \/ r.sig.phase \in Ends \/ r.stamp <= now
      /\ worker.batch \subseteq Update /\ worker.row \subseteq Update
  BY ShapeAssumption DEF IInv, WorkerOK, TypeOK
<1>s. activities \in [Activities -> Row] /\ \A a \in Activities : activities' = activities => RowGoesOn(a)
  BY DEF IInv, TypeOK, RowGoesOn
<1>1. CASE Sweep
  <2> DEFINE gone == {g \in Grants : grants[g] # "absent" /\ GrantExpires[g] < now - Retention}
             stale == {a \in Activities : GrantOf[a] \in gone \/ activities[a].lease < now - Retention}
             kept == {s \in pending : s.expires >= now - Retention /\ GrantOf[s.act] \notin gone}
             swept == {SweptRow(r) : r \in kept}
             due == {r \in swept : r.state = "pending" /\ r.next <= now /\ r.expires > now /\ GrantActive(GrantOf[r.act])}
  <2>1. /\ pending' = swept
        /\ activities' = [a \in Activities |-> IF a \in stale THEN NoActivity ELSE activities[a]]
        /\ grants' = [g \in Grants |-> IF g \in gone THEN "absent" ELSE grants[g]]
        /\ forgotten' = forgotten \cup {a \in stale : activities[a].state # "none"}
        /\ \E batch \in SUBSET due :
             worker' = IF batch = {} THEN worker ELSE [worker EXCEPT !.phase = "drain", !.batch = batch]
        /\ UNCHANGED <<now, memory, holder, asked, epoch, binder>>
    BY <1>1 DEF Sweep
  <2>2. \A r \in swept : /\ UpdateGoesOn(r) /\ r \in Update
                         /\ r.state = "pending" /\ r.next <= now =>
                              r.act \in forgotten \/ r.sig.phase \in Ends \/ r.stamp <= now
    BY SweptGoesOn
  <2>3. stale \subseteq Activities
    OBVIOUS
  <2> HIDE DEF gone, stale, swept
  <2>4. /\ activities' \in [Activities -> Row] /\ \A a \in Activities : RowGoesOn(a)
    <3>1. NoActivity \in Row
      BY DEF NoActivity, Row, NoSignature
    <3> QED BY <1>s, <2>1, <3>1 DEF RowGoesOn
  <2>5. grants' \in [Grants -> {"absent", "active", "removed"}]
    BY <1>t, <2>1 DEF TypeOK
  <2>6. /\ worker' \in [phase: {"idle", "drain", "transport", "answered"}, batch: SUBSET Update,
                        row: SUBSET Update, answer: Answers \cup {"none"}]
        /\ \A r \in worker'.batch \cup worker'.row : r.act \in forgotten \/ r.sig.phase \in Ends \/ r.stamp <= now
    <3>1. PICK batch \in SUBSET due :
            worker' = IF batch = {} THEN worker ELSE [worker EXCEPT !.phase = "drain", !.batch = batch]
      BY <2>1
    <3>2. /\ batch \subseteq Update
          /\ \A r \in batch : r.act \in forgotten \/ r.sig.phase \in Ends \/ r.stamp <= now
      BY <2>2
    <3> QED BY <1>t, <3>1, <3>2 DEF TypeOK
  <2>7. Quiet
    BY <1>t, <2>1, <2>2, <2>3, <2>4, <2>5, <2>6 DEF Quiet, TypeOK
  <2> QED BY <2>7, QuietKeeps
<1>n. ASSUME NEW rest, rest \subseteq worker.batch, worker' = NextRow(rest)
      PROVE  /\ worker' \in [phase: {"idle", "drain", "transport", "answered"}, batch: SUBSET Update,
                             row: SUBSET Update, answer: Answers \cup {"none"}]
             /\ worker'.batch \cup worker'.row \subseteq worker.batch
  BY <1>t, <1>n DEF NextRow
<1>2. ASSUME NEW r \in worker.batch, Claim(r)
      PROVE  IInv'
  <2> DEFINE rest == worker.batch \ {r}
             rows == {s \in pending : Key(s) = Key(r) /\ s.state = "pending" /\ s.expires > now}
  <2>1. /\ worker' \in [phase: {"idle", "drain", "transport", "answered"}, batch: SUBSET Update,
                        row: SUBSET Update, answer: Answers \cup {"none"}]
        /\ worker'.batch \cup worker'.row \subseteq worker.batch
    <3>1. CASE worker' = [phase |-> "transport", batch |-> rest, row |-> {r}, answer |-> "none"]
      BY <1>t, <3>1
    <3> QED BY <1>2, <1>n, <3>1 DEF Claim
  <2>2. \A u \in pending' : UpdateGoesOn(u)
    <3>1. ASSUME pending' = (pending \ rows) \cup {[s EXCEPT !.state = "sending", !.next = now + ClaimLease] : s \in rows}
          PROVE  \A u \in pending' : UpdateGoesOn(u)
      <4>1. now + ClaimLease \in Nat /\ now <= now + ClaimLease
        BY <1>t, ShapeAssumption
      <4>2. ASSUME NEW s \in rows
            PROVE  UpdateGoesOn([s EXCEPT !.state = "sending", !.next = now + ClaimLease])
        BY <4>1, AnotherState
      <4> QED BY <3>1, <4>2, UpdatesGoOn
    <3>2. CASE pending' = pending
      BY <3>2, UpdatesGoOn
    <3> QED BY <1>2, <3>1, <3>2 DEF Claim
  <2>3. Quiet
    BY <1>t, <1>s, <1>2, <2>1, <2>2 DEF Claim, Quiet, TypeOK, history, memory
  <2> QED BY <2>3, QuietKeeps
<1>3. ASSUME NEW r \in worker.row, NEW answer \in Answers, Transport(r, answer)
      PROVE  IInv'
  <2>1. /\ worker' \in [phase: {"idle", "drain", "transport", "answered"}, batch: SUBSET Update,
                        row: SUBSET Update, answer: Answers \cup {"none"}]
        /\ worker'.batch = worker.batch /\ worker'.row = worker.row
    BY <1>t, <1>3 DEF Transport, TypeOK
  <2>2. Quiet
    BY <1>t, <1>s, <1>3, <2>1, UpdatesGoOn DEF Transport, Quiet, TypeOK, journal, memory
  <2> QED BY <2>2, QuietKeeps
<1>4. ASSUME NEW r \in worker.row, Record(r)
      PROVE  IInv'
  <2>w. /\ worker' \in [phase: {"idle", "drain", "transport", "answered"}, batch: SUBSET Update,
                        row: SUBSET Update, answer: Answers \cup {"none"}]
        /\ \A u \in worker'.batch \cup worker'.row : u.act \in forgotten \/ u.sig.phase \in Ends \/ u.stamp <= now
        /\ UNCHANGED <<now, memory, holder, asked, epoch, binder>>
    BY <1>t, <1>n, <1>4 DEF Record
  <2>g. ASSUME NEW state \in {"pending", "failed"}, NEW next \in Nat, now <= next, Rewritten(r, state, next)
        PROVE  \A u \in pending' : UpdateGoesOn(u)
    <3>1. ASSUME NEW s \in Sending(r)
          PROVE  UpdateGoesOn([s EXCEPT !.state = state, !.next = next])
      BY <2>g, AnotherState DEF Sending
    <3> QED BY <2>g, <3>1, UpdatesGoOn DEF Rewritten
  <2>1. CASE Accepted(r)
    <3>1. r.act \in Activities
      BY <1>t DEF Update
    <3>2. activities' = [activities EXCEPT ![r.act] = [activities[r.act] EXCEPT !.state =
            IF @ = "terminal_pending" /\ r.sig.phase \in Ends THEN "terminal_accepted" ELSE @]]
      BY <2>1 DEF Accepted
    <3>3. activities'[r.act] = activities[r.act]
            \/ (activities[r.act].state = "terminal_pending"
                /\ activities'[r.act] = [activities[r.act] EXCEPT !.state = "terminal_accepted"])
      BY <1>s, <3>1, <3>2 DEF Row
    <3>4. \A a \in Activities : RowGoesOn(a)
      BY <1>s, <3>1, <3>2, <3>3 DEF RowGoesOn
    <3>5. activities' \in [Activities -> Row]
      <4>1. activities'[r.act] \in Row
        BY <1>s, <3>1, <3>3 DEF Row
      <4> QED BY <1>s, <3>1, <3>2, <4>1
    <3>6. \A u \in pending' : UpdateGoesOn(u)
      <4>1. ASSUME NEW s \in Sending(r)
            PROVE  UpdateGoesOn([s EXCEPT !.state = "accepted"])
        <5>1. s \in pending /\ Key(s) = Key(r) /\ s.next \in Nat /\ s \in Update
          BY <1>t DEF Sending, TypeOK, Update
        <5>2. [s EXCEPT !.state = "accepted"] = [s EXCEPT !.state = "accepted", !.next = s.next]
          BY <5>1 DEF Update
        <5> QED BY <5>1, <5>2, AnotherState DEF Live
      <4> QED BY <2>1, <4>1, UpdatesGoOn DEF Accepted
    <3> QED BY <1>t, <2>1, <2>w, <3>4, <3>5, <3>6, QuietKeeps DEF Accepted, Quiet, TypeOK
  <2>2. CASE Retried(r)
    <3>1. PICK delay \in Backoffs : Rewritten(r, "pending", now + delay)
      BY <2>2 DEF Retried
    <3>2. now + delay \in Nat /\ now <= now + delay
      BY <1>t, ShapeAssumption
    <3>3. \A u \in pending' : UpdateGoesOn(u)
      BY <2>g, <3>1, <3>2
    <3> QED BY <1>t, <1>s, <2>2, <2>w, <3>3, QuietKeeps DEF Retried, Quiet, TypeOK
  <2>3. CASE Refused(r)
    <3>1. \A u \in pending' : UpdateGoesOn(u)
      BY <1>t, <2>g, <2>3 DEF Refused
    <3> QED BY <1>t, <1>s, <2>3, <2>w, <3>1, QuietKeeps DEF Refused, Quiet, TypeOK
  <2>4. CASE RemoveRows(GrantOf[r.act])
    <3>1. grants' \in [Grants -> {"absent", "active", "removed"}]
      BY <1>t, <2>4 DEF RemoveRows, TypeOK
    <3> QED BY <1>t, <2>4, <2>w, <3>1, ForgettingKeeps, QuietKeeps DEF RemoveRows, Quiet, TypeOK
  <2> QED BY <1>4, <2>1, <2>2, <2>3, <2>4 DEF Record
<1> QED BY <1>1, <1>2, <1>3, <1>4 DEF Drain
-----------------------------------------------------------------------------
\* The holder of the lock.

\* A phase that ends is told of a turn that is over.
LEMMA ProjectionIs ==
  ASSUME NEW w \in Cohort, Bounded(w)
  PROVE  /\ Projection(w) \in Signature
         /\ Projection(w).phase \in Ends => w.outcome # "none" /\ ActiveChildren(w) = {}
<1> DEFINE busy == ActiveChildren(w) # {}
           phase == IF busy THEN "delegating" ELSE IF w.outcome = "cancelled" THEN "completed"
                    ELSE IF w.outcome \in Ends THEN w.outcome ELSE w.phase
           stopped == w.outcome = "cancelled" /\ ~busy
<1>1. ActiveChildren(w) \subseteq KnownChildren(w)
  <2>1. DOMAIN w.children = Children
    BY DEF Cohort
  <2> QED BY <2>1 DEF ActiveChildren, KnownChildren
<1>2. /\ Cardinality(ActiveChildren(w)) \in Nat /\ Cardinality(KnownChildren(w)) \in Nat
      /\ Cardinality(ActiveChildren(w)) <= Cardinality(KnownChildren(w)) /\ Cardinality(KnownChildren(w)) <= ChildLimit
  BY <1>1, FS_Subset, FS_CardinalityType DEF Bounded
<1>3. Cardinality(ActiveChildren(w)) \in 0..ChildLimit
  BY <1>2, ShapeAssumption
<1>4. w.phase \in {"thinking"} \cup Progress /\ w.phase \notin Ends
  BY ShapeAssumption DEF Cohort, Ends
<1>5. phase \in Phases /\ (phase \in Ends => w.outcome # "none" /\ ~busy)
  BY <1>4, ShapeAssumption DEF Phases, Ends
<1>6. Projection(w) = [phase |-> phase, count |-> Cardinality(ActiveChildren(w)), stopped |-> stopped]
  BY DEF Projection
<1>7. stopped \in BOOLEAN
  OBVIOUS
<1> HIDE DEF phase, stopped
<1> QED BY <1>3, <1>5, <1>6, <1>7 DEF Signature

\* What is selected for a turn still stands.
LEMMA QueueingHolds ==
  ASSUME IInv, NEW t \in Turns, NEW w \in Cohort, Bounded(w), NEW bind, Queueing(t, Projection(w), bind),
         activities' = activities, forgotten' = forgotten,
         work'[t].outcome = w.outcome, work'[t].children = w.children, Known(t)'
  PROVE  HolderOK' /\ holder'.phase \in {"idle", "selected"}
<1> DEFINE sig == Projection(w)
           chosen == Selected(t, sig, bind, activities)
           next == [phase |-> "selected", turn |-> t, sig |-> sig, rows |-> [a \in chosen |-> activities[a]]]
<1>1. sig \in Signature /\ (sig.phase \in Ends => w.outcome # "none" /\ ActiveChildren(w) = {})
  BY ProjectionIs
<1> HIDE DEF sig
<1>2. \A a \in chosen : a \in Activities /\ activities[a].state = "active" /\ activities[a] \in Row
  BY DEF Selected, IInv, TypeOK
<1> HIDE DEF chosen
<1>3. CASE holder' = Idle
  BY <1>3 DEF HolderOK, Idle
<1>4. CASE holder' = next
  <2>1. /\ holder'.phase = "selected" /\ holder'.turn = t /\ holder'.sig = sig
        /\ holder'.rows = [a \in chosen |-> activities[a]]
        /\ holder' = [phase |-> "selected", turn |-> holder'.turn, sig |-> holder'.sig, rows |-> holder'.rows]
    BY <1>4
  <2>2. sig.phase \in Ends => Over(t)'
    BY <1>1 DEF Over, ActiveChildren
  <2>3. Selecting'
    BY <1>1, <1>2, <2>1, <2>2 DEF Selecting
  <2> QED BY <2>1, <2>3 DEF HolderOK
<1> QED BY <1>3, <1>4 DEF Queueing, sig, chosen

\* The clock, and a new process.
LEMMA TickAndRestartKeep ==
  ASSUME IInv, Tick \/ Restart
  PROVE  IInv'
<1>1. CASE Tick
  <2>1. /\ now' = now + 1 /\ holder' = holder /\ holder = Idle /\ activities' = activities /\ pending' = pending
        /\ grants' = grants /\ work' = work /\ order' = order /\ owner' = owner /\ asked' = asked /\ worker' = worker
        /\ epoch' = epoch /\ binder' = binder /\ forgotten' = forgotten /\ now < MaxTime
    BY <1>1 DEF Tick, journal, memory, history
  <2>2. now \in Nat /\ MaxTime \in Nat /\ now' \in 0..MaxTime
    BY <2>1, ShapeAssumption DEF IInv, TypeOK
  <2>3. TypeOK'
    BY <2>1, <2>2 DEF IInv, TypeOK, Known
  <2>4. UpdatesOK'
    <3> SUFFICES ASSUME NEW r \in pending
                 PROVE  r.stamp < r.expires /\ InTime(r)'
      BY <2>1 DEF UpdatesOK
    <3>1. r.stamp < r.expires /\ InTime(r) /\ r.stamp \in Nat
      BY DEF IInv, UpdatesOK, TypeOK, Update
    <3> QED BY <2>1, <2>2, <3>1 DEF InTime
  <2>5. WorkerOK'
    <3> SUFFICES ASSUME NEW r \in worker.batch \cup worker.row
                 PROVE  r.act \in forgotten \/ r.sig.phase \in Ends \/ r.stamp <= now'
      BY <2>1 DEF WorkerOK
    <3>1. (r.act \in forgotten \/ r.sig.phase \in Ends \/ r.stamp <= now) /\ r \in Update
      BY DEF IInv, WorkerOK, TypeOK
    <3>2. r.stamp \in Nat
      BY <3>1 DEF Update
    <3> QED BY <2>1, <2>2, <3>1, <3>2
  <2>6. BoundWorkRetained'
    <3> SUFFICES ASSUME NEW a \in Activities, activities[a].turn # NoTurn, activities[a].lease > now + 1, binder[a] = epoch
                 PROVE  Known(activities[a].turn)
      BY <2>1 DEF BoundWorkRetained, Known
    <3>1. activities[a].lease \in Nat
      BY DEF IInv, TypeOK, Row
    <3>2. activities[a].lease > now
      BY <2>2, <3>1
    <3> QED BY <3>2 DEF IInv, BoundWorkRetained
  <2>7. HolderOK'
    BY <2>1 DEF HolderOK, Idle
  <2> QED BY <2>1, <2>3, <2>4, <2>5, <2>6, <2>7
          DEF IInv, CohortsBounded, RowsOK, EndsLast, Bindings, TerminalNewest
<1>2. CASE Restart
  <2>1. /\ now' = now /\ activities' = activities /\ pending' = pending /\ grants' = grants
        /\ work' = [t \in Turns |-> NoCohort] /\ order' = <<>> /\ owner' = [c \in Children |-> NoTurn]
        /\ holder' = Idle /\ asked' = {} /\ worker' = NoWorker
        /\ epoch < MaxEpoch /\ epoch' = epoch + 1 /\ binder' = binder /\ forgotten' = forgotten
    BY <1>2 DEF Restart, journal, history
  <2>2. epoch \in Nat /\ epoch' \in 0..MaxEpoch
    BY <2>1, ShapeAssumption DEF IInv, TypeOK
  <2>3. order' \in Seq(Turns) /\ Len(order') = 0 /\ DOMAIN order' = {} /\ WorkLimit \in Nat
    BY <2>1, ShapeAssumption
  <2>4. {order'[n] : n \in DOMAIN order'} = {t \in Turns : Known(t)}'
    BY <2>1, <2>3 DEF Known
  <2>5. TypeOK'
    BY <2>1, <2>2, <2>3, <2>4 DEF IInv, TypeOK, Idle, NoWorker
  <2>6. CohortsBounded'
    <3>1. KnownChildren(NoCohort) = {}
      BY DEF KnownChildren, NoCohort
    <3>2. Bounded(NoCohort)
      BY <3>1, FS_EmptySet, ShapeAssumption DEF Bounded
    <3> QED BY <2>1, <3>2 DEF CohortsBounded, Bounded, KnownChildren
  <2>7. UpdatesOK' /\ WorkerOK' /\ HolderOK'
    BY <2>1 DEF IInv, UpdatesOK, InTime, WorkerOK, NoWorker, HolderOK, Idle
  <2>8. \A a \in Activities : binder'[a] <= epoch' /\ binder'[a] # epoch'
    BY <2>1, <2>2, ShapeAssumption DEF IInv, Bindings, TypeOK
  <2>9. Bindings' /\ BoundWorkRetained'
    BY <2>8 DEF Bindings, BoundWorkRetained
  <2> QED BY <2>1, <2>5, <2>6, <2>7, <2>9 DEF IInv, RowsOK, EndsLast, TerminalNewest
<1> QED BY <1>1, <1>2

\* A handler that only takes or leaves the lock, or answers a subscription, keeps the types.
LEMMA HolderMoves ==
  ASSUME TypeOK, asked' \subseteq asked, holder'.phase \in {"idle", "selected", "binding"},
         now' = now, activities' = activities, pending' = pending, grants' = grants, work' = work,
         order' = order, owner' = owner, worker' = worker, epoch' = epoch, binder' = binder,
         forgotten' = forgotten
  PROVE  TypeOK'
<1>1. /\ now' \in 0..MaxTime /\ epoch' \in 0..MaxEpoch
      /\ grants' \in [Grants -> {"absent", "active", "removed"}]
      /\ activities' \in [Activities -> Row] /\ pending' \subseteq Update
      /\ work' \in [Turns -> Cohort \cup {NoCohort}] /\ owner' \in [Children -> Turns \cup {NoTurn}]
      /\ binder' \in [Activities -> 0..MaxEpoch] /\ forgotten' \subseteq Activities
  BY DEF TypeOK
<1>2. /\ order' \in Seq(Turns) /\ Len(order') <= WorkLimit
      /\ \A m, n \in DOMAIN order' : order'[m] = order'[n] => m = n
  BY DEF TypeOK
<1>3. {order'[n] : n \in DOMAIN order'} = {t \in Turns : Known(t)'}
  BY DEF TypeOK, Known
<1>4. asked' \subseteq Activities \X (Turns \cup {NoTurn}) \X Nat
  BY DEF TypeOK
<1>5. worker' \in [phase: {"idle", "drain", "transport", "answered"}, batch: SUBSET Update,
                   row: SUBSET Update, answer: Answers \cup {"none"}]
  BY DEF TypeOK
<1> QED BY <1>1, <1>2, <1>3, <1>4, <1>5 DEF TypeOK

\* subscribe_activity checks and binds under the lock.
LEMMA SubscriptionsKeep ==
  ASSUME IInv, (\E ask \in asked : CheckActivity(ask[1], ask[2], ask[3])) \/ BindActivity \/ SelectBound
  PROVE  IInv'
<1>1. ASSUME NEW ask \in asked, CheckActivity(ask[1], ask[2], ask[3])
      PROVE  IInv'
  <2> DEFINE a == ask[1]
             turn == Chosen(activities[a], ask[2], SessionOf[a])
  <2>1. /\ a \in Activities /\ ask[3] \in Nat
        /\ now' = now /\ activities' = activities /\ pending' = pending /\ grants' = grants /\ work' = work
        /\ order' = order /\ owner' = owner /\ worker' = worker /\ epoch' = epoch /\ binder' = binder
        /\ forgotten' = forgotten /\ asked' \subseteq asked
    BY <1>1 DEF CheckActivity, journal, memory, history, IInv, TypeOK
  <2>2. \/ holder' = Idle
        \/ /\ holder' = [phase |-> "binding", act |-> a, turn |-> turn, lease |-> ask[3]]
           /\ turn \in {NoTurn} \cup {u \in Turns : Known(u)}
    BY <1>1 DEF CheckActivity
  <2>3. activities[a].turn \in {NoTurn, turn}
    BY <2>1 DEF Chosen, IInv, RowsOK, NoActivity
  <2> HIDE DEF turn
  <2>4. HolderOK' /\ holder'.phase \in {"idle", "binding"}
    <3>1. CASE holder' = Idle
      BY <3>1 DEF HolderOK, Idle
    <3>2. CASE holder' # Idle
      <4>1. /\ holder'.phase = "binding" /\ holder'.act = a /\ holder'.turn = turn /\ holder'.lease = ask[3]
            /\ turn \in {NoTurn} \cup {u \in Turns : Known(u)}
        BY <2>2, <3>2
      <4>2. Binding'
        BY <2>1, <2>3, <4>1 DEF Binding, Known
      <4> QED BY <4>1, <4>2 DEF HolderOK
    <3> QED BY <3>1, <3>2
  <2>5. TypeOK'
    <3>1. TypeOK /\ asked' \subseteq asked
      BY <2>1 DEF IInv
    <3> QED BY <2>1, <2>4, <3>1, HolderMoves
  <2> QED BY <2>1, <2>4, <2>5 DEF IInv, CohortsBounded, RowsOK, UpdatesOK, InTime, WorkerOK, EndsLast, Bindings,
                                  BoundWorkRetained, TerminalNewest, Known
<1>2. CASE SelectBound
  <2>1. /\ now' = now /\ activities' = activities /\ pending' = pending /\ grants' = grants /\ work' = work
        /\ order' = order /\ owner' = owner /\ worker' = worker /\ epoch' = epoch /\ binder' = binder
        /\ forgotten' = forgotten /\ asked' = asked
    BY <1>2 DEF SelectBound, journal, memory, history
  <2>2. holder.turn \in Turns /\ Known(holder.turn) /\ Queueing(holder.turn, Projection(work[holder.turn]), FALSE)
    BY <1>2 DEF SelectBound, IInv, HolderOK
  <2>3. work[holder.turn] \in Cohort /\ Bounded(work[holder.turn])
    BY <2>2 DEF IInv, TypeOK, CohortsBounded, Known
  <2>4. HolderOK' /\ holder'.phase \in {"idle", "selected"}
    BY <2>1, <2>2, <2>3, QueueingHolds DEF Known
  <2>5. TypeOK'
    <3>1. TypeOK /\ asked' \subseteq asked
      BY <2>1 DEF IInv
    <3> QED BY <2>1, <2>4, <3>1, HolderMoves
  <2> QED BY <2>1, <2>4, <2>5 DEF IInv, CohortsBounded, RowsOK, UpdatesOK, InTime, WorkerOK, EndsLast, Bindings,
                                  BoundWorkRetained, TerminalNewest, Known
<1>3. CASE BindActivity
  <2> DEFINE a == holder.act
             row == activities[a]
             bound == IF row.turn = NoTurn THEN holder.turn ELSE row.turn
             fresh == [NoActivity EXCEPT !.state = "active", !.turn = holder.turn, !.lease = holder.lease]
             again == [row EXCEPT !.lease = holder.lease, !.turn = bound]
  <2>1. /\ now' = now /\ pending' = pending /\ grants' = grants /\ work' = work
        /\ order' = order /\ owner' = owner /\ worker' = worker /\ epoch' = epoch
        /\ forgotten' = forgotten /\ asked' = asked
        /\ \/ holder' = Idle /\ activities' = activities /\ binder' = binder
           \/ /\ activities' = [activities EXCEPT ![a] = IF row.state = "none" THEN fresh ELSE again]
              /\ binder' = [binder EXCEPT ![a] = epoch]
              /\ holder' = IF holder.turn = NoTurn THEN Idle ELSE [phase |-> "bound", turn |-> holder.turn]
    BY <1>3 DEF BindActivity, memory
  <2>2. /\ a \in Activities /\ holder.turn \in Turns \cup {NoTurn} /\ holder.lease \in Nat
        /\ holder.turn # NoTurn => Known(holder.turn)
        /\ row.turn \in {NoTurn, holder.turn} /\ row \in Row
    BY <1>3 DEF BindActivity, IInv, HolderOK, Binding, TypeOK
  <2>3. /\ fresh \in Row /\ fresh.state = "active" /\ fresh.turn = holder.turn /\ fresh.stamp = 0 /\ fresh.queuedAt = 0
    BY <2>2 DEF NoActivity, Row, NoSignature
  <2>4. /\ again \in Row /\ again.state = row.state /\ again.turn = holder.turn /\ again.stamp = row.stamp
        /\ again.queuedAt = row.queuedAt
    BY <2>2 DEF Row
  <2>h. HolderOK' /\ holder'.phase \in {"idle", "bound"}
    <3>1. CASE holder' = Idle
      BY <3>1 DEF HolderOK, Idle
    <3>2. CASE holder' = [phase |-> "bound", turn |-> holder.turn] /\ holder.turn # NoTurn
      <4>1. holder'.phase = "bound" /\ holder'.turn \in Turns /\ Known(holder.turn)'
        BY <2>1, <2>2, <3>2 DEF Known
      <4> QED BY <4>1 DEF HolderOK
    <3> QED BY <2>1, <3>1, <3>2
  <2> HIDE DEF fresh, again
  <2>5. CASE activities' = activities /\ binder' = binder
    <3>1. TypeOK'
      BY <2>1, <2>5, <2>h DEF IInv, TypeOK, Known
    <3> QED BY <2>1, <2>5, <2>h, <3>1 DEF IInv, CohortsBounded, RowsOK, UpdatesOK, InTime, WorkerOK, EndsLast,
                                          Bindings, BoundWorkRetained, TerminalNewest, Known
  <2>6. CASE /\ activities' = [activities EXCEPT ![a] = IF row.state = "none" THEN fresh ELSE again]
             /\ binder' = [binder EXCEPT ![a] = epoch]
    <3>1. /\ activities'[a] = (IF row.state = "none" THEN fresh ELSE again)
          /\ \A b \in Activities \ {a} : activities'[b] = activities[b] /\ binder'[b] = binder[b]
          /\ binder'[a] = epoch /\ activities \in [Activities -> Row]
      BY <2>2, <2>6 DEF IInv, TypeOK
    <3>2. activities' \in [Activities -> Row] /\ binder' \in [Activities -> 0..MaxEpoch]
      BY <2>2, <2>3, <2>4, <2>6 DEF IInv, TypeOK
    <3>3. TypeOK'
      BY <2>1, <2>h, <3>2 DEF IInv, TypeOK, Known
    <3>4. RowsOK'
      <4> SUFFICES ASSUME NEW b \in Activities
                   PROVE  /\ activities'[b].state = "none" => activities'[b] = NoActivity
                          /\ activities'[b].state = "active" =>
                               b \in forgotten \/ activities'[b].stamp <= activities'[b].queuedAt
        BY <2>1 DEF RowsOK
      <4> QED BY <2>3, <2>4, <3>1 DEF IInv, RowsOK
    <3>5. EndsLast'
      <4> SUFFICES ASSUME NEW r \in pending, r.act \notin forgotten, r.sig.phase \in Ends
                   PROVE  activities'[r.act].state \notin {"none", "active"}
        BY <2>1 DEF EndsLast
      <4>1. activities[r.act].state \notin {"none", "active"} /\ r.act \in Activities
        BY DEF IInv, EndsLast, TypeOK, Update
      <4> QED BY <2>4, <3>1, <4>1
    <3>6. Bindings'
      BY <2>1, <3>1, ShapeAssumption DEF IInv, Bindings, TypeOK
    <3>7. BoundWorkRetained'
      <4> SUFFICES ASSUME NEW b \in Activities, activities'[b].turn # NoTurn, activities'[b].lease > now, binder'[b] = epoch
                   PROVE  Known(activities'[b].turn)
        BY <2>1 DEF BoundWorkRetained, Known
      <4> QED BY <2>2, <2>3, <2>4, <3>1 DEF IInv, BoundWorkRetained
    <3> QED BY <2>1, <2>h, <3>3, <3>4, <3>5, <3>6, <3>7
            DEF IInv, CohortsBounded, UpdatesOK, InTime, WorkerOK, TerminalNewest
  <2> QED BY <2>1, <2>5, <2>6
<1> QED BY <1>1, <1>2, <1>3
-----------------------------------------------------------------------------
\* _queue_activity between its first SELECT and its commit.

\* A row's update is read, or passed over.
LEMMA PeekKeeps ==
  ASSUME IInv, holder.phase = "selected", NEW a \in DOMAIN holder.rows, PeekRow(a)
  PROVE  IInv'
<1>1. /\ now' = now /\ activities' = activities /\ pending' = pending /\ grants' = grants /\ work' = work
      /\ order' = order /\ owner' = owner /\ worker' = worker /\ epoch' = epoch /\ binder' = binder
      /\ forgotten' = forgotten /\ asked' = asked
  BY DEF PeekRow, journal, memory, history
<1>2. Selecting /\ a \in Activities /\ holder.rows[a] \in Row /\ holder.turn \in Turns /\ holder.sig \in Signature
  BY DEF IInv, HolderOK, Selecting
<1>3. holder = [phase |-> "selected", turn |-> holder.turn, sig |-> holder.sig, rows |-> holder.rows]
  BY DEF IInv, HolderOK
<1> DEFINE others == [b \in DOMAIN holder.rows \ {a} |-> holder.rows[b]]
<1>4. PICK replaced \in Replaced(a) :
        LET update == UpdateFor(a, holder.rows[a], holder.turn, holder.sig, replaced)
        IN holder' = IF update.expires > update.stamp
                     THEN [phase |-> "writing", turn |-> holder.turn, sig |-> holder.sig, rows |-> others, first |-> update]
                     ELSE IF DOMAIN others = {} THEN Idle ELSE [holder EXCEPT !.rows = others]
  BY DEF PeekRow
<1> DEFINE u == UpdateFor(a, holder.rows[a], holder.turn, holder.sig, replaced)
<1>5. /\ u \in Update /\ u.act = a /\ u.turn = holder.turn /\ u.sig = holder.sig /\ u.state = "pending" /\ now <= u.stamp
      /\ \/ a \in forgotten \/ holder.sig.phase \in Ends \/ holder.rows[a] # activities[a] \/ holder.rows[a].state # "active"
         \/ ~(RowsOK /\ UpdatesOK /\ EndsLast)
         \/ u.stamp <= u.next
  BY <1>2, <1>4, UpdateIs DEF IInv
<1> HIDE DEF u
<1>6. /\ DOMAIN others = DOMAIN holder.rows \ {a} /\ \A b \in DOMAIN others : others[b] = holder.rows[b]
  OBVIOUS
<1> HIDE DEF others
<1>7. ASSUME holder'.turn = holder.turn, holder'.sig = holder.sig, holder'.rows = others
      PROVE  Selecting'
  BY <1>1, <1>2, <1>6, <1>7 DEF Selecting, Known, Over
<1>9. ASSUME holder' = [holder EXCEPT !.rows = others]
      PROVE  HolderOK' /\ holder'.phase = "selected"
  <2>1. /\ holder' = [phase |-> "selected", turn |-> holder.turn, sig |-> holder.sig, rows |-> others]
    BY <1>3, <1>9
  <2>2. /\ holder'.phase = "selected" /\ holder'.turn = holder.turn /\ holder'.sig = holder.sig /\ holder'.rows = others
        /\ holder' = [phase |-> "selected", turn |-> holder'.turn, sig |-> holder'.sig, rows |-> holder'.rows]
    BY <2>1
  <2> QED BY <1>7, <2>2 DEF HolderOK
<1>10. ASSUME u.expires > u.stamp,
              holder' = [phase |-> "writing", turn |-> holder.turn, sig |-> holder.sig, rows |-> others, first |-> u]
       PROVE  HolderOK' /\ holder'.phase = "writing"
  <2>1. /\ holder'.phase = "writing" /\ holder'.turn = holder.turn /\ holder'.sig = holder.sig /\ holder'.rows = others
        /\ holder'.first = u
    BY <1>10
  <2>2. a \in forgotten \/ (activities[a] = holder.rows[a] /\ holder.rows[a].state = "active")
    BY <1>2 DEF Selecting
  <2>3. u.stamp < u.expires
    BY <1>5, <1>10 DEF Update
  <2>4. Writing'
    BY <1>1, <1>5, <1>6, <2>1, <2>2, <2>3 DEF Writing, IInv
  <2> QED BY <1>7, <2>1, <2>4 DEF HolderOK
<1>11. HolderOK' /\ holder'.phase \in {"idle", "selected", "writing"}
  <2>1. CASE holder' = Idle
    BY <2>1 DEF HolderOK, Idle
  <2>2. \/ holder' = Idle \/ holder' = [holder EXCEPT !.rows = others]
        \/ /\ u.expires > u.stamp
           /\ holder' = [phase |-> "writing", turn |-> holder.turn, sig |-> holder.sig, rows |-> others, first |-> u]
    BY <1>4 DEF u, others
  <2> QED BY <1>9, <1>10, <2>1, <2>2
<1>12. TypeOK'
  BY <1>1, <1>11 DEF IInv, TypeOK, Known
<1> QED BY <1>1, <1>11, <1>12 DEF IInv, CohortsBounded, RowsOK, UpdatesOK, InTime, WorkerOK, EndsLast, Bindings,
                                  BoundWorkRetained, TerminalNewest, Known

\* The updates of a transaction: one of an activity, of the holder's turn and state.
Batched(updates) ==
  /\ \A u \in updates :
       /\ u \in Update /\ u.turn = holder.turn /\ u.sig = holder.sig /\ u.state = "pending" /\ u.stamp < u.expires
       /\ u.act \in forgotten \/ activities[u.act].state = "active"
       /\ IF u.sig.phase \in Ends THEN now <= u.stamp ELSE u.act \in forgotten \/ u.stamp <= u.next
  /\ \A u, v \in updates : u.act = v.act => u = v

\* The picked updates are such.
LEMMA PickedAreBatched ==
  ASSUME IInv, holder.phase = "writing", NEW picks, \A a \in DOMAIN picks : picks[a] \in Replaced(a),
         DOMAIN picks = DOMAIN holder.rows
  PROVE  Batched({holder.first} \cup
           {u \in {UpdateFor(a, holder.rows[a], holder.turn, holder.sig, picks[a]) : a \in DOMAIN picks} :
              u.expires > u.stamp})
<1>1. Selecting /\ Writing
  BY DEF IInv, HolderOK
<1> DEFINE made(a) == UpdateFor(a, holder.rows[a], holder.turn, holder.sig, picks[a])
           good(u) == /\ u \in Update /\ u.turn = holder.turn /\ u.sig = holder.sig /\ u.state = "pending"
                      /\ u.act \in forgotten \/ activities[u.act].state = "active"
                      /\ IF u.sig.phase \in Ends THEN now <= u.stamp ELSE u.act \in forgotten \/ u.stamp <= u.next
<1>2. ASSUME NEW a \in DOMAIN picks
      PROVE  good(made(a)) /\ made(a).act = a
  <2>1. /\ a \in Activities /\ holder.rows[a] \in Row /\ holder.turn \in Turns /\ holder.sig \in Signature
        /\ picks[a] \in Replaced(a) /\ holder.rows[a].state = "active"
        /\ a \in forgotten \/ activities[a] = holder.rows[a]
    BY <1>1 DEF Selecting
  <2> DEFINE u == made(a)
  <2>2. /\ u \in Update /\ u.act = a /\ u.turn = holder.turn /\ u.sig = holder.sig /\ u.state = "pending" /\ now <= u.stamp
        /\ \/ a \in forgotten \/ holder.sig.phase \in Ends \/ holder.rows[a] # activities[a]
           \/ holder.rows[a].state # "active" \/ ~(RowsOK /\ UpdatesOK /\ EndsLast)
           \/ u.stamp <= u.next
    BY <2>1, UpdateIs DEF IInv
  <2> HIDE DEF made
  <2> QED BY <2>1, <2>2 DEF IInv
<1>3. good(holder.first) /\ holder.first.act \notin DOMAIN picks /\ holder.first.stamp < holder.first.expires
  BY <1>1 DEF Writing
<1> HIDE DEF made
<1> DEFINE updates == {holder.first} \cup {u \in {made(a) : a \in DOMAIN picks} : u.expires > u.stamp}
<1>4. ASSUME NEW u \in updates
      PROVE  /\ u \in Update /\ u.turn = holder.turn /\ u.sig = holder.sig /\ u.state = "pending" /\ u.stamp < u.expires
             /\ u.act \in forgotten \/ activities[u.act].state = "active"
             /\ IF u.sig.phase \in Ends THEN now <= u.stamp ELSE u.act \in forgotten \/ u.stamp <= u.next
  <2>1. CASE u = holder.first
    BY <1>3, <2>1
  <2>2. ASSUME NEW a \in DOMAIN picks, u = made(a), u.expires > u.stamp
        PROVE  u.stamp < u.expires /\ good(u)
    <3>1. u.stamp \in Nat /\ u.expires \in Nat
      BY <1>2, <2>2 DEF Update
    <3> QED BY <1>2, <2>2, <3>1
  <2> QED BY <2>1, <2>2
<1>5. ASSUME NEW u \in updates, NEW v \in updates, u.act = v.act
      PROVE  u = v
  BY <1>2, <1>3, <1>5
<1>6. Batched(updates)
  BY <1>4, <1>5 DEF Batched
<1> QED BY <1>6 DEF updates, made

\* What a commit does to one row: nothing, or what an update of its activity says.
RowCommitted(updates, a) ==
  \/ activities'[a] = activities[a] /\ (activities[a].state = "none" \/ \A u \in updates : u.act # a)
  \/ \E u \in updates :
       /\ u.act = a /\ activities[a].state # "none"
       /\ activities'[a].turn = holder.turn
       /\ activities'[a].state = (IF holder.sig.phase \in Ends THEN "terminal_pending" ELSE "active")
       /\ activities'[a].stamp = u.stamp /\ activities'[a].queuedAt = u.next
       /\ activities'[a].lease = activities[a].lease

\* What a commit does: its updates join those that were pending, less those they replace.
Committed(updates) ==
  /\ pending' \subseteq Update
  /\ \A r \in pending' : r \in updates \/ (r \in pending /\ (r.state = "pending" => \A u \in updates : u.act # r.act))
  /\ activities' \in [Activities -> Row]
  /\ \A a \in Activities : RowCommitted(updates, a)
  /\ binder' \in [Activities -> 0..MaxEpoch]
  /\ \A a \in Activities : binder'[a] <= epoch
  /\ \A a \in Activities : (\A u \in updates : u.act # a) => binder'[a] = binder[a]

\* No activity was bound by an incarnation to come.
LEMMA BindersAre ==
  ASSUME IInv
  PROVE  /\ epoch \in 0..MaxEpoch /\ epoch <= epoch /\ binder \in [Activities -> 0..MaxEpoch]
         /\ \A a \in Activities : binder[a] <= epoch
<1>1. MaxEpoch \in Nat /\ epoch \in 0..MaxEpoch /\ binder \in [Activities -> 0..MaxEpoch]
  BY ShapeAssumption DEF IInv, TypeOK
<1>2. epoch <= epoch
  BY <1>1
<1> QED BY <1>1, <1>2 DEF IInv, Bindings

\* The commit's assignments do that.
LEMMA CommitIs ==
  ASSUME IInv, NEW updates, Batched(updates),
         pending' = {r \in pending : ~(r.state = "pending" /\ \E u \in updates : u.act = r.act)} \cup updates,
         activities' = [a \in Activities |->
           IF activities[a].state # "none" /\ \E u \in updates : u.act = a
           THEN LET u == CHOOSE v \in updates : v.act = a
                IN [activities[a] EXCEPT !.turn = u.turn,
                      !.state = IF holder.sig.phase \in Ends THEN "terminal_pending" ELSE "active",
                      !.stamp = u.stamp, !.sig = u.sig, !.queuedAt = u.next]
           ELSE activities[a]],
         binder' = [a \in Activities |-> IF \E u \in updates : u.act = a THEN epoch ELSE binder[a]]
  PROVE  Committed(updates)
<1>u. \A u \in updates : u \in Update /\ u.turn = holder.turn
  BY DEF Batched
<1>a. ASSUME NEW a \in Activities
      PROVE  activities'[a] \in Row /\ RowCommitted(updates, a)
  <2>0. activities[a] \in Row
    BY DEF IInv, TypeOK
  <2>1. CASE activities[a].state # "none" /\ \E u \in updates : u.act = a
    <3> DEFINE u == CHOOSE v \in updates : v.act = a
               state == IF holder.sig.phase \in Ends THEN "terminal_pending" ELSE "active"
               new == [activities[a] EXCEPT !.turn = u.turn, !.state = state, !.stamp = u.stamp, !.sig = u.sig,
                                            !.queuedAt = u.next]
    <3>1. u \in updates /\ u.act = a
      BY <2>1
    <3>2. activities'[a] = new
      BY <2>1
    <3>3. /\ u.turn = holder.turn /\ u.turn \in Turns /\ u.sig \in Signature /\ u.stamp \in Nat /\ u.next \in Nat
          /\ state \in {"active", "terminal_pending"}
      BY <1>u, <3>1 DEF Update
    <3> HIDE DEF u, state
    <3>4. /\ new \in Row /\ new.turn = u.turn /\ new.state = state /\ new.stamp = u.stamp /\ new.queuedAt = u.next
          /\ new.lease = activities[a].lease
      BY <2>0, <3>3 DEF Row
    <3> HIDE DEF new
    <3>5. /\ activities'[a] \in Row /\ activities'[a].turn = holder.turn /\ activities'[a].state = state
          /\ activities'[a].stamp = u.stamp /\ activities'[a].queuedAt = u.next /\ activities'[a].lease = activities[a].lease
      BY <3>2, <3>3, <3>4
    <3>6. \E v \in updates : v = u
      BY <3>1
    <3> QED BY <2>1, <3>1, <3>5, <3>6 DEF RowCommitted, state
  <2>2. CASE ~(activities[a].state # "none" /\ \E u \in updates : u.act = a)
    <3>1. activities'[a] = activities[a]
      BY <2>2
    <3> QED BY <2>0, <2>2, <3>1 DEF RowCommitted
  <2> QED BY <2>1, <2>2
<1>1. pending' \subseteq Update
  BY <1>u DEF IInv, TypeOK
<1>2. \A r \in pending' : r \in updates \/ (r \in pending /\ (r.state = "pending" => \A u \in updates : u.act # r.act))
  OBVIOUS
<1>3. activities' \in [Activities -> Row]
  BY <1>a
<1>4. /\ epoch \in 0..MaxEpoch /\ epoch <= epoch /\ binder \in [Activities -> 0..MaxEpoch]
      /\ \A a \in Activities : binder[a] <= epoch
  BY BindersAre
<1>5. ASSUME NEW a \in Activities
      PROVE  /\ binder'[a] <= epoch /\ binder'[a] \in 0..MaxEpoch
             /\ (\A u \in updates : u.act # a) => binder'[a] = binder[a]
  <2>1. CASE \E u \in updates : u.act = a
    <3>1. binder'[a] = epoch
      BY <2>1
    <3> QED BY <1>4, <2>1, <3>1
  <2>2. CASE \A u \in updates : u.act # a
    <3>1. binder'[a] = binder[a]
      BY <2>2
    <3> QED BY <1>4, <3>1
  <2> QED BY <2>1, <2>2
<1>6. binder' \in [Activities -> 0..MaxEpoch]
  BY <1>5
<1> QED BY <1>a, <1>1, <1>2, <1>3, <1>5, <1>6 DEF Committed

\* The updates replace the pending ones of their activities, and the invariant holds on.
LEMMA CommitKeeps ==
  ASSUME IInv, NEW updates, Batched(updates), Committed(updates), holder.turn \in Turns, Known(holder.turn),
         holder' = Idle, UNCHANGED <<now, grants, memory, asked, worker, epoch, forgotten>>
  PROVE  IInv'
<1>1. /\ now' = now /\ grants' = grants /\ work' = work /\ order' = order /\ owner' = owner /\ worker' = worker
      /\ epoch' = epoch /\ forgotten' = forgotten /\ asked' = asked
  BY DEF memory
<1>u. \A u \in updates :
        /\ u \in Update /\ u.turn = holder.turn /\ u.sig = holder.sig /\ u.state = "pending" /\ u.stamp < u.expires
        /\ u.act \in forgotten \/ activities[u.act].state = "active"
        /\ IF u.sig.phase \in Ends THEN now <= u.stamp ELSE u.act \in forgotten \/ u.stamp <= u.next
  BY DEF Batched
<1>r. \A r \in pending' : r \in updates \/ (r \in pending /\ (r.state = "pending" => \A u \in updates : u.act # r.act))
  BY DEF Committed
<1>2. pending' \subseteq Update /\ activities' \in [Activities -> Row] /\ binder' \in [Activities -> 0..MaxEpoch]
  BY DEF Committed
<1>3. \A t : Known(t)' <=> Known(t)
  BY <1>1 DEF Known
<1>4. TypeOK'
  <2>1. holder'.phase = "idle"
    BY DEF Idle
  <2> QED BY <1>1, <1>2, <1>3, <2>1 DEF IInv, TypeOK
<1>5. RowsOK'
  <2> SUFFICES ASSUME NEW a \in Activities
               PROVE  /\ activities'[a].state = "none" => activities'[a] = NoActivity
                      /\ activities'[a].state = "active" =>
                           a \in forgotten \/ activities'[a].stamp <= activities'[a].queuedAt
    BY <1>1 DEF RowsOK
  <2>1. CASE activities'[a] = activities[a]
    BY <2>1 DEF IInv, RowsOK
  <2>2. CASE activities'[a] # activities[a]
    <3>1. PICK u \in updates :
            /\ u.act = a /\ activities'[a].stamp = u.stamp /\ activities'[a].queuedAt = u.next
            /\ activities'[a].state = (IF holder.sig.phase \in Ends THEN "terminal_pending" ELSE "active")
      BY <2>2 DEF Committed, RowCommitted
    <3>2. CASE holder.sig.phase \in Ends
      BY <3>1, <3>2
    <3>3. CASE holder.sig.phase \notin Ends
      <4>1. a \in forgotten \/ u.stamp <= u.next
        BY <1>u, <3>1, <3>3
      <4> QED BY <3>1, <3>3, <4>1
    <3> QED BY <3>2, <3>3
  <2> QED BY <2>1, <2>2
<1>6. UpdatesOK'
  <2> SUFFICES ASSUME NEW r \in pending'
               PROVE  r.stamp < r.expires /\ InTime(r)
    BY <1>1 DEF UpdatesOK, InTime
  <2>1. CASE r \in updates
    BY <1>u, <2>1 DEF InTime
  <2>2. CASE r \in pending
    BY <2>2 DEF IInv, UpdatesOK
  <2> QED BY <1>r, <2>1, <2>2
\* An activity that was not forgotten and is updated has no terminal update yet.
<1>7. ASSUME NEW u \in updates, NEW r \in pending, r.act = u.act, r.act \notin forgotten
      PROVE  r.sig.phase \notin Ends
  BY <1>u, <1>7 DEF IInv, EndsLast
<1>8. EndsLast'
  <2> SUFFICES ASSUME NEW r \in pending', r.act \notin forgotten, r.sig.phase \in Ends
               PROVE  activities'[r.act].state \notin {"none", "active"}
    BY <1>1 DEF EndsLast
  <2>1. r.act \in Activities
    BY <1>2 DEF Update
  <2>2. CASE r \in updates
    <3>1. activities[r.act].state = "active" /\ holder.sig.phase \in Ends
      BY <1>u, <2>2
    <3>2. RowCommitted(updates, r.act)
      BY <2>1 DEF Committed
    <3>3. activities'[r.act].state = "terminal_pending"
      BY <2>2, <3>1, <3>2 DEF RowCommitted
    <3> QED BY <3>3
  <2>3. CASE r \in pending
    <3>1. activities[r.act].state \notin {"none", "active"} /\ \A u \in updates : u.act # r.act
      BY <1>7, <2>3 DEF IInv, EndsLast
    <3>2. RowCommitted(updates, r.act)
      BY <2>1 DEF Committed
    <3> QED BY <3>1, <3>2 DEF RowCommitted
  <2> QED BY <1>r, <2>2, <2>3
<1>9. BoundWorkRetained'
  <2> SUFFICES ASSUME NEW a \in Activities, activities'[a].turn # NoTurn, activities'[a].lease > now, binder'[a] = epoch
               PROVE  Known(activities'[a].turn)
    BY <1>1 DEF BoundWorkRetained, Known
  <2>0. RowCommitted(updates, a)
    BY DEF Committed
  <2>1. CASE activities'[a] = activities[a] /\ \A u \in updates : u.act # a
    <3>1. binder'[a] = binder[a]
      BY <2>1 DEF Committed
    <3> QED BY <2>1, <3>1 DEF IInv, BoundWorkRetained
  <2>2. CASE activities'[a] = activities[a] /\ activities[a].state = "none"
    <3>1. activities[a].turn = NoTurn
      BY <2>2 DEF IInv, RowsOK, NoActivity
    <3> QED BY <2>2, <3>1
  <2>3. CASE activities'[a].turn = holder.turn
    BY <2>3
  <2> QED BY <2>0, <2>1, <2>2, <2>3 DEF RowCommitted
<1>10. TerminalNewest'
  <2> SUFFICES ASSUME NEW r \in pending', NEW s \in pending', r.act = s.act, r.act \notin forgotten, r.sig.phase \in Ends
               PROVE  s.stamp <= r.stamp
    BY <1>1 DEF TerminalNewest
  <2>0. r.stamp \in Nat /\ s.stamp \in Nat /\ now \in Nat
    <3>1. r \in Update /\ s \in Update
      BY <1>2
    <3>2. MaxTime \in Nat /\ now \in 0..MaxTime
      BY ShapeAssumption DEF IInv, TypeOK
    <3>3. now \in Nat
      BY <3>2
    <3> QED BY <3>1, <3>3 DEF Update
  <2>1. CASE r \in pending /\ s \in pending
    BY <2>1 DEF IInv, TerminalNewest
  <2>2. CASE r \in pending /\ s \in updates
    BY <1>7, <2>2
  <2>3. CASE r \in updates /\ s \in updates
    <3>1. r = s
      BY <2>3 DEF Batched
    <3> QED BY <2>0, <3>1
  <2>4. CASE r \in updates /\ s \in pending /\ s \notin updates
    <3>1. s.state # "pending" /\ s.sig.phase \notin Ends
      BY <1>7, <1>r, <2>4
    <3>2. s.stamp <= now
      BY <2>4, <3>1 DEF IInv, UpdatesOK, InTime
    <3>3. now <= r.stamp
      BY <1>u, <2>4
    <3> QED BY <2>0, <3>2, <3>3
  <2> QED BY <1>r, <2>1, <2>2, <2>3, <2>4
<1>11. HolderOK'
  BY DEF HolderOK, Idle
<1>12. Bindings'
  BY <1>1 DEF Committed, Bindings
<1> QED BY <1>1, <1>4, <1>5, <1>6, <1>8, <1>9, <1>10, <1>11, <1>12
        DEF IInv, CohortsBounded, WorkerOK

\* The transaction commits or is rolled back.
LEMMA WriteKeeps ==
  ASSUME IInv, WriteUpdates
  PROVE  IInv'
<1>1. PICK picks \in [DOMAIN holder.rows -> {{}} \cup {{r} : r \in pending}] :
       LET updates == {holder.first} \cup
             {u \in {UpdateFor(a, holder.rows[a], holder.turn, holder.sig, picks[a]) : a \in DOMAIN picks} :
                u.expires > u.stamp}
           kept == {r \in pending : ~(r.state = "pending" /\ \E u \in updates : u.act = r.act)}
           state == IF holder.sig.phase \in Ends THEN "terminal_pending" ELSE "active"
       IN /\ \A a \in DOMAIN picks : picks[a] \in Replaced(a)
          /\ IF Collides(kept, updates)
             THEN UNCHANGED <<activities, pending, binder>>
             ELSE /\ pending' = kept \cup updates
                  /\ activities' = [a \in Activities |->
                       IF activities[a].state # "none" /\ \E u \in updates : u.act = a
                       THEN LET u == CHOOSE v \in updates : v.act = a
                            IN [activities[a] EXCEPT !.turn = u.turn, !.state = state, !.stamp = u.stamp,
                                                     !.sig = u.sig, !.queuedAt = u.next]
                       ELSE activities[a]]
                  /\ binder' = [a \in Activities |-> IF \E u \in updates : u.act = a THEN epoch ELSE binder[a]]
  BY DEF WriteUpdates
<1>2. /\ holder' = Idle /\ holder.phase = "writing" /\ holder.turn \in Turns /\ Known(holder.turn)
      /\ UNCHANGED <<now, grants, memory, asked, worker, epoch, forgotten>>
  BY DEF WriteUpdates, IInv, HolderOK, Selecting
<1> DEFINE updates == {holder.first} \cup
             {u \in {UpdateFor(a, holder.rows[a], holder.turn, holder.sig, picks[a]) : a \in DOMAIN picks} :
                u.expires > u.stamp}
<1>3. Batched(updates)
  <2>1. DOMAIN picks = DOMAIN holder.rows /\ \A a \in DOMAIN picks : picks[a] \in Replaced(a)
    BY <1>1
  <2> QED BY <1>2, <2>1, PickedAreBatched
<1> HIDE DEF updates
<1>4. CASE UNCHANGED <<activities, pending, binder>>
  <2>1. TypeOK'
    BY <1>2, <1>4 DEF IInv, TypeOK, Idle, Known, memory
  <2>2. HolderOK'
    BY <1>2 DEF HolderOK, Idle
  <2> QED BY <1>2, <1>4, <2>1, <2>2 DEF IInv, CohortsBounded, RowsOK, UpdatesOK, InTime, WorkerOK, EndsLast,
                                        Bindings, BoundWorkRetained, TerminalNewest, Known, memory
<1>5. CASE /\ pending' = {r \in pending : ~(r.state = "pending" /\ \E u \in updates : u.act = r.act)} \cup updates
           /\ activities' = [a \in Activities |->
                IF activities[a].state # "none" /\ \E u \in updates : u.act = a
                THEN LET u == CHOOSE v \in updates : v.act = a
                     IN [activities[a] EXCEPT !.turn = u.turn,
                           !.state = IF holder.sig.phase \in Ends THEN "terminal_pending" ELSE "active",
                           !.stamp = u.stamp, !.sig = u.sig, !.queuedAt = u.next]
                ELSE activities[a]]
           /\ binder' = [a \in Activities |-> IF \E u \in updates : u.act = a THEN epoch ELSE binder[a]]
  <2>1. IInv /\ Committed(updates)
    BY <1>3, <1>5, CommitIs
  <2> QED BY <1>2, <1>3, <2>1, CommitKeeps
<1> QED BY <1>1, <1>4, <1>5 DEF updates
-----------------------------------------------------------------------------
\* Hooks.

\* A cohort is no absent one; settling keeps its outcome and its children.
LEMMA CohortsAre ==
  /\ \A w \in Cohort :
       /\ w # NoCohort
       /\ Settled(w) \in Cohort /\ Settled(w).outcome = w.outcome /\ Settled(w).children = w.children
  /\ Bounded(NoCohort)
  /\ Fresh \in Cohort /\ Bounded(Fresh) /\ Fresh.outcome = "none"
<1>1. ASSUME NEW w \in Cohort
      PROVE  /\ w # NoCohort
             /\ Settled(w) \in Cohort /\ Settled(w).outcome = w.outcome /\ Settled(w).children = w.children
  <2>1. w.phase # NoCohort.phase
    BY ShapeAssumption DEF Cohort, NoCohort
  <2> DEFINE over == w.outcome # "none" /\ ActiveChildren(w) = {}
             new == [w EXCEPT !.terminal = over]
  <2>2. over \in BOOLEAN
    OBVIOUS
  <2>3. Settled(w) = new
    BY DEF Settled
  <2> HIDE DEF over
  <2>4. new \in Cohort /\ new.outcome = w.outcome /\ new.children = w.children
    BY <2>2 DEF Cohort
  <2> QED BY <2>1, <2>3, <2>4
<1>2. ASSUME NEW w, \A c \in Children : w.children[c] = "none"
      PROVE  Bounded(w)
  <2>1. KnownChildren(w) = {}
    BY <1>2 DEF KnownChildren
  <2> QED BY <2>1, FS_EmptySet, ShapeAssumption DEF Bounded
<1>3. \A c \in Children : NoCohort.children[c] = "none"
  BY DEF NoCohort
<1>4. NoCohort \in [phase: {"none"}, outcome: {"none"}, children: [Children -> {"none"}], terminal: {FALSE}]
  BY DEF NoCohort
<1>5. Fresh \in Cohort /\ Fresh.outcome = "none" /\ \A c \in Children : Fresh.children[c] = "none"
  <2>1. Fresh \in [phase: {"thinking"}, outcome: {"none"}, children: [Children -> {"none"}], terminal: {FALSE}]
    BY <1>4 DEF Fresh
  <2> QED BY <2>1 DEF Cohort
<1>6. Bounded(NoCohort) /\ Bounded(Fresh)
  BY <1>2, <1>3, <1>5
<1> QED BY <1>1, <1>5, <1>6

\* A hook's change of the cohorts keeps the invariant when no cohort that an activity
\* with a live lease holds goes.
LEMMA CohortsGoOn ==
  ASSUME IInv, UNCHANGED <<now, journal, asked, worker, epoch, history>>,
         work' \in [Turns -> Cohort \cup {NoCohort}], owner' \in [Children -> Turns \cup {NoTurn}],
         order' \in Seq(Turns), Len(order') <= WorkLimit,
         \A m, n \in DOMAIN order' : order'[m] = order'[n] => m = n,
         {order'[n] : n \in DOMAIN order'} = {t \in Turns : Known(t)'},
         CohortsBounded', HolderOK', holder'.phase \in {"idle", "selected"},
         \A t \in Bound \cap Turns : Known(t) => Known(t)'
  PROVE  IInv'
<1>1. /\ now' = now /\ grants' = grants /\ activities' = activities /\ pending' = pending /\ asked' = asked
      /\ worker' = worker /\ epoch' = epoch /\ binder' = binder /\ forgotten' = forgotten
  BY DEF journal, history
<1>2. TypeOK'
  BY <1>1 DEF IInv, TypeOK
<1>3. RowsOK' /\ UpdatesOK' /\ WorkerOK' /\ EndsLast' /\ Bindings' /\ TerminalNewest'
  BY <1>1 DEF IInv, RowsOK, UpdatesOK, InTime, WorkerOK, EndsLast, Bindings, TerminalNewest
<1>4. BoundWorkRetained'
  <2> SUFFICES ASSUME NEW a \in Activities, activities[a].turn # NoTurn, activities[a].lease > now, binder[a] = epoch
               PROVE  Known(activities[a].turn)'
    BY <1>1 DEF BoundWorkRetained
  <2>1. activities[a].turn \in Bound \cap Turns
    BY DEF Bound, IInv, TypeOK, Row
  <2>2. Known(activities[a].turn)
    BY DEF IInv, BoundWorkRetained
  <2>3. \A t \in Bound \cap Turns : Known(t) => work'[t] # NoCohort'
    BY DEF Known
  <2> QED BY <1>1, <2>1, <2>2, <2>3 DEF Known
<1> QED BY <1>2, <1>3, <1>4 DEF IInv

\* The tail of a hook: the cohort it changed is kept, settled or not, and its state queued.
LEMMA PublishKeeps ==
  ASSUME IInv, NEW t \in Turns, NEW w \in Cohort, Bounded(w), NEW bind, Publish(t, w, bind),
         UNCHANGED <<now, journal, asked, worker, epoch, history>>,
         owner' \in [Children -> Turns \cup {NoTurn}],
         \/ Known(t) /\ order' = order
         \/ ~Known(t) /\ HasSlot /\ order' = Append(order, t)
  PROVE  IInv'
<1>1. Settled(w) \in Cohort /\ Settled(w) # NoCohort /\ Settled(w).outcome = w.outcome /\ Settled(w).children = w.children
  BY CohortsAre
<1>2. work \in [Turns -> Cohort \cup {NoCohort}] /\ work' = [work EXCEPT ![t] = Settled(w)]
  BY DEF IInv, TypeOK, Publish
<1>3. /\ work' \in [Turns -> Cohort \cup {NoCohort}] /\ work'[t] = Settled(w)
      /\ \A u \in Turns \ {t} : work'[u] = work[u]
  BY <1>1, <1>2
<1>4. Known(t)' /\ \A u \in Turns \ {t} : Known(u)' <=> Known(u)
  BY <1>1, <1>3 DEF Known
<1>5. CohortsBounded'
  <2> SUFFICES ASSUME NEW u \in Turns
               PROVE  Bounded(work'[u])
    BY DEF CohortsBounded
  <2>1. CASE u = t
    <3>1. KnownChildren(work'[u]) = KnownChildren(w)
      BY <1>1, <1>3, <2>1 DEF KnownChildren
    <3> QED BY <3>1 DEF Bounded
  <2>2. CASE u # t
    BY <1>3, <2>2 DEF IInv, CohortsBounded
  <2> QED BY <2>1, <2>2
<1>6. HolderOK' /\ holder'.phase \in {"idle", "selected"}
  <2>1. /\ Queueing(t, Projection(w), bind) /\ activities' = activities /\ forgotten' = forgotten
        /\ work'[t].outcome = w.outcome /\ work'[t].children = w.children
    BY <1>1, <1>3 DEF Publish, journal, history
  <2> QED BY <1>4, <2>1, QueueingHolds
<1>7. /\ order \in Seq(Turns) /\ Len(order) <= WorkLimit /\ \A m, n \in DOMAIN order : order[m] = order[n] => m = n
      /\ {order[n] : n \in DOMAIN order} = {u \in Turns : Known(u)}
  BY DEF IInv, TypeOK
<1>8. /\ order' \in Seq(Turns) /\ Len(order') <= WorkLimit
      /\ \A m, n \in DOMAIN order' : order'[m] = order'[n] => m = n
      /\ {order'[n] : n \in DOMAIN order'} = {u \in Turns : Known(u)'}
  <2>1. CASE Known(t) /\ order' = order
    BY <1>4, <1>7, <2>1
  <2>2. CASE ~Known(t) /\ HasSlot /\ order' = Append(order, t)
    <3>1. /\ order' \in Seq(Turns) /\ Len(order') = Len(order) + 1 /\ order'[Len(order) + 1] = t
          /\ \A n \in DOMAIN order : order'[n] = order[n] /\ order[n] # t
          /\ DOMAIN order' = DOMAIN order \cup {Len(order) + 1}
      BY <1>7, <2>2
    <3>2. Len(order') <= WorkLimit
      BY <1>7, <2>2, <3>1, ShapeAssumption DEF HasSlot
    <3>3. \A m, n \in DOMAIN order' : order'[m] = order'[n] => m = n
      BY <1>7, <3>1
    <3>4. {order'[n] : n \in DOMAIN order'} = {order[n] : n \in DOMAIN order} \cup {t}
      BY <3>1
    <3>5. {u \in Turns : Known(u)'} = {u \in Turns : Known(u)} \cup {t}
      BY <1>4
    <3> QED BY <1>7, <3>1, <3>2, <3>3, <3>4, <3>5
  <2> QED BY <2>1, <2>2
<1>9. \A u \in Bound \cap Turns : Known(u) => Known(u)'
  BY <1>4
<1> QED BY <1>3, <1>5, <1>6, <1>8, <1>9, CohortsGoOn
\* A turn starts when the store of cohorts is full: the oldest settled cohort that no
\* activity with a live lease holds makes room.
LEMMA EvictionKeeps ==
  ASSUME IInv, NEW t \in Turns, ~Known(t), NEW n \in Evictable,
         order' = Append(Without(n), t),
         work' = [work EXCEPT ![order[n]] = NoCohort, ![t] = Fresh],
         owner' = [c \in Children |-> IF owner[c] = order[n] /\ SessionOf[c] = SessionOf[order[n]]
                                      THEN NoTurn ELSE owner[c]],
         Queueing(t, Projection(Fresh), TRUE), UNCHANGED <<now, journal, asked, worker, epoch, history>>
  PROVE  IInv'
<1>1. /\ n \in DOMAIN order /\ order[n] \notin Bound /\ order \in Seq(Turns) /\ Len(order) <= WorkLimit
      /\ {order[m] : m \in DOMAIN order} = {u \in Turns : Known(u)}
      /\ work \in [Turns -> Cohort \cup {NoCohort}] /\ owner \in [Children -> Turns \cup {NoTurn}]
  BY DEF IInv, TypeOK, Evictable
<1> DEFINE old == order[n]
<1>2. old \in Turns /\ Known(old) /\ old # t
  BY <1>1
<1> HIDE DEF old
<1>3. /\ Fresh \in Cohort /\ Bounded(Fresh) /\ Fresh.outcome = "none" /\ Fresh # NoCohort /\ Bounded(NoCohort)
  BY CohortsAre
<1>4. /\ work' \in [Turns -> Cohort \cup {NoCohort}] /\ work'[t] = Fresh /\ work'[old] = NoCohort
      /\ \A u \in Turns \ {t, old} : work'[u] = work[u]
  BY <1>1, <1>2, <1>3 DEF old
<1>5. Known(t)' /\ work'[old] = NoCohort /\ \A u \in Turns \ {t, old} : Known(u)' <=> Known(u)
  BY <1>3, <1>4 DEF Known
<1>6. owner' \in [Children -> Turns \cup {NoTurn}]
  BY <1>1
<1>7. CohortsBounded'
  BY <1>3, <1>4 DEF IInv, CohortsBounded
<1>8. HolderOK' /\ holder'.phase \in {"idle", "selected"}
  <2>1. /\ activities' = activities /\ forgotten' = forgotten
        /\ work'[t].outcome = Fresh.outcome /\ work'[t].children = Fresh.children
    BY <1>4 DEF journal, history
  <2> QED BY <1>3, <1>5, <2>1, QueueingHolds
<1>9. /\ Without(n) \in Seq(Turns) /\ Len(Without(n)) = Len(order) - 1
      /\ \A k, l \in DOMAIN Without(n) : Without(n)[k] = Without(n)[l] => k = l
      /\ {Without(n)[k] : k \in DOMAIN Without(n)} = {u \in Turns : Known(u)} \ {old}
  BY <1>1, WithoutIs DEF IInv, old
<1> DEFINE left == Without(n)
<1> HIDE DEF left
<1>10. /\ order' \in Seq(Turns) /\ Len(order') <= WorkLimit
       /\ \A k, l \in DOMAIN order' : order'[k] = order'[l] => k = l
       /\ {order'[k] : k \in DOMAIN order'} = {u \in Turns : Known(u)'}
  <2>1. /\ left \in Seq(Turns) /\ Len(left) = Len(order) - 1 /\ \A k, l \in DOMAIN left : left[k] = left[l] => k = l
        /\ {left[k] : k \in DOMAIN left} = {u \in Turns : Known(u)} \ {old} /\ order' = Append(left, t)
    BY <1>9 DEF left
  <2>2. /\ order' \in Seq(Turns) /\ Len(order') = Len(left) + 1 /\ order'[Len(left) + 1] = t
        /\ \A k \in DOMAIN left : order'[k] = left[k] /\ left[k] # t
        /\ DOMAIN order' = DOMAIN left \cup {Len(left) + 1}
    BY <2>1
  <2>3. Len(order') <= WorkLimit
    BY <1>1, <2>1, <2>2
  <2>4. \A k, l \in DOMAIN order' : order'[k] = order'[l] => k = l
    BY <2>1, <2>2
  <2>5. {order'[k] : k \in DOMAIN order'} = {left[k] : k \in DOMAIN left} \cup {t}
    BY <2>2
  <2>6. {u \in Turns : Known(u)'} = ({u \in Turns : Known(u)} \ {old}) \cup {t}
    <3>1. \A u \in Turns : Known(u)' <=> (u = t \/ (Known(u) /\ u # old))
      BY <1>2, <1>3, <1>4 DEF Known
    <3> QED BY <1>2, <3>1
  <2> QED BY <2>1, <2>2, <2>3, <2>4, <2>5, <2>6
<1>11. \A u \in Bound \cap Turns : Known(u) => Known(u)'
  BY <1>1, <1>5 DEF old
<1> QED BY <1>4, <1>6, <1>7, <1>8, <1>10, <1>11, CohortsGoOn

\* A cohort whose children were given other states of the known is as bounded as it was.
LEMMA ChildrenBounded ==
  ASSUME NEW w, NEW v, Bounded(w), KnownChildren(v) \subseteq KnownChildren(w)
  PROVE  Bounded(v)
<1>1. /\ IsFiniteSet(KnownChildren(v)) /\ Cardinality(KnownChildren(v)) <= Cardinality(KnownChildren(w))
      /\ Cardinality(KnownChildren(v)) \in Nat /\ Cardinality(KnownChildren(w)) \in Nat
      /\ Cardinality(KnownChildren(w)) <= ChildLimit
  BY FS_Subset, FS_CardinalityType DEF Bounded
<1> QED BY <1>1, ShapeAssumption DEF Bounded

\* A hook keeps the invariant.
LEMMA HooksKeep ==
  ASSUME IInv, Hook
  PROVE  IInv'
<1>1. ASSUME NEW t \in Turns, Known(t)
      PROVE  work[t] \in Cohort /\ Bounded(work[t])
  BY <1>1 DEF IInv, TypeOK, CohortsBounded, Known
<1>2. owner \in [Children -> Turns \cup {NoTurn}]
  BY DEF IInv, TypeOK
<1>3. ASSUME NEW t \in Turns, PreLlmCall(t)
      PROVE  IInv'
  <2>1. UNCHANGED <<now, journal, asked, worker, epoch, history>>
    BY <1>3 DEF PreLlmCall
  <2>2. CASE Open(t) /\ Publish(t, work[t], TRUE) /\ UNCHANGED <<order, owner>>
    BY <1>1, <1>2, <2>1, <2>2, PublishKeeps DEF Open
  <2>3. CASE ~Known(t) /\ HasSlot /\ order' = Append(order, t) /\ Publish(t, Fresh, TRUE) /\ UNCHANGED owner
    BY <1>2, <2>1, <2>3, CohortsAre, PublishKeeps
  <2>4. ASSUME ~Known(t), NEW n \in Evictable, order' = Append(Without(n), t),
               work' = [work EXCEPT ![order[n]] = NoCohort, ![t] = Fresh],
               owner' = [c \in Children |-> IF owner[c] = order[n] /\ SessionOf[c] = SessionOf[order[n]]
                                            THEN NoTurn ELSE owner[c]],
               Queueing(t, Projection(Fresh), TRUE)
        PROVE  IInv'
    BY <2>1, <2>4, EvictionKeeps
  <2> QED BY <1>3, <2>2, <2>3, <2>4 DEF PreLlmCall
<1>4. ASSUME NEW t \in Turns, NEW phase \in Progress, Report(t, phase)
      PROVE  IInv'
  <2> DEFINE w == [work[t] EXCEPT !.phase = phase]
  <2>1. work[t] \in Cohort /\ Bounded(work[t]) /\ Known(t)
    BY <1>1, <1>4 DEF Report, Open
  <2>2. w \in Cohort /\ w.children = work[t].children
    BY <2>1 DEF Cohort
  <2>3. /\ Publish(t, w, FALSE) /\ order' = order /\ owner' = owner
        /\ UNCHANGED <<now, journal, asked, worker, epoch, history>>
    BY <1>4 DEF Report
  <2> HIDE DEF w
  <2>4. Bounded(w)
    BY <2>1, <2>2, ChildrenBounded DEF KnownChildren
  <2> QED BY <1>2, <2>1, <2>2, <2>3, <2>4, PublishKeeps
<1>5. ASSUME NEW t \in Turns, NEW outcome \in Outcomes, SessionEnd(t, outcome)
      PROVE  IInv'
  <2> DEFINE w == [work[t] EXCEPT !.outcome = outcome]
  <2>1. work[t] \in Cohort /\ Bounded(work[t]) /\ Known(t)
    BY <1>1, <1>5 DEF SessionEnd, Open
  <2>2. w \in Cohort /\ w.children = work[t].children
    BY <2>1 DEF Cohort
  <2>3. /\ Publish(t, w, FALSE) /\ order' = order /\ owner' = owner
        /\ UNCHANGED <<now, journal, asked, worker, epoch, history>>
    BY <1>5 DEF SessionEnd
  <2> HIDE DEF w
  <2>4. Bounded(w)
    BY <2>1, <2>2, ChildrenBounded DEF KnownChildren
  <2> QED BY <1>2, <2>1, <2>2, <2>3, <2>4, PublishKeeps
<1>6. ASSUME NEW t \in Turns, NEW c \in Children, SubagentStart(t, c)
      PROVE  IInv'
  <2> DEFINE w == Started(work[t], c)
             new == [work[t] EXCEPT !.children[c] = "active"]
  <2>1. work[t] \in Cohort /\ Bounded(work[t]) /\ Known(t)
    BY <1>1, <1>6 DEF SubagentStart, Open
  <2>2. /\ Publish(t, w, FALSE) /\ order' = order /\ owner' = [owner EXCEPT ![c] = t]
        /\ UNCHANGED <<now, journal, asked, worker, epoch, history>>
    BY <1>6 DEF SubagentStart
  <2>3. owner' \in [Children -> Turns \cup {NoTurn}]
    BY <1>2, <2>2
  <2>4. w \in Cohort /\ Bounded(w)
    <3>1. CASE work[t].children[c] # "none"
      BY <2>1, <3>1 DEF Started
    <3>2. CASE work[t].children[c] = "none"
      <4>1. w = new /\ new \in Cohort /\ new.children = [work[t].children EXCEPT ![c] = "active"]
        BY <2>1, <3>2 DEF Started, Cohort
      <4>2. work[t].children \in [Children -> {"none", "active", "ended"}]
        BY <2>1 DEF Cohort
      <4> HIDE DEF w, new
      <4>3. KnownChildren(new) = KnownChildren(work[t]) \cup {c}
        BY <4>1, <4>2 DEF KnownChildren
      <4>4. IsFiniteSet(KnownChildren(work[t])) /\ Cardinality(KnownChildren(work[t])) < ChildLimit
        BY <1>6, <2>1, <3>2 DEF SubagentStart, Adopts, Bounded, KnownChildren
      <4>5. /\ IsFiniteSet(KnownChildren(work[t]) \cup {c})
            /\ Cardinality(KnownChildren(work[t]) \cup {c}) \in {Cardinality(KnownChildren(work[t])),
                                                                Cardinality(KnownChildren(work[t])) + 1}
            /\ Cardinality(KnownChildren(work[t])) \in Nat
        BY <4>4, FS_AddElement, FS_CardinalityType
      <4>6. Cardinality(KnownChildren(work[t]) \cup {c}) <= ChildLimit
        BY <4>4, <4>5, ShapeAssumption
      <4> QED BY <4>1, <4>3, <4>5, <4>6 DEF Bounded
    <3> QED BY <3>1, <3>2
  <2> HIDE DEF w
  <2> QED BY <2>1, <2>2, <2>3, <2>4, PublishKeeps
<1>7. ASSUME NEW c \in Children, SubagentStop(c)
      PROVE  IInv'
  <2> DEFINE t == owner[c]
             w == [work[t] EXCEPT !.children[c] = "ended"]
  <2>1. t \in Turns /\ work[t] \in Cohort /\ Bounded(work[t]) /\ Known(t) /\ work[t].children[c] = "active"
    BY <1>1, <1>2, <1>7 DEF SubagentStop, Open
  <2>2. w \in Cohort /\ w.children = [work[t].children EXCEPT ![c] = "ended"]
    BY <2>1 DEF Cohort
  <2>3. /\ Publish(t, w, FALSE) /\ order' = order /\ owner' = owner
        /\ UNCHANGED <<now, journal, asked, worker, epoch, history>>
    BY <1>7 DEF SubagentStop
  <2>4. work[t].children \in [Children -> {"none", "active", "ended"}]
    BY <2>1 DEF Cohort
  <2> HIDE DEF w, t
  <2>5. KnownChildren(w) \subseteq KnownChildren(work[t])
    BY <2>1, <2>2, <2>4 DEF KnownChildren
  <2>6. Bounded(w)
    BY <2>1, <2>5, ChildrenBounded
  <2> QED BY <1>2, <2>1, <2>2, <2>3, <2>6, PublishKeeps
<1> QED BY <1>3, <1>4, <1>5, <1>6, <1>7 DEF Hook
-----------------------------------------------------------------------------
\* The theorems.

\* At first nothing is known, read or sent.
LEMMA InitHolds ==
  ASSUME Init
  PROVE  IInv
<1>1. /\ now = 0 /\ epoch = 0 /\ pending = {} /\ order = <<>> /\ holder = Idle /\ asked = {} /\ worker = NoWorker
      /\ forgotten = {} /\ grants = [g \in Grants |-> "absent"] /\ activities = [a \in Activities |-> NoActivity]
      /\ work = [t \in Turns |-> NoCohort] /\ owner = [c \in Children |-> NoTurn] /\ binder = [a \in Activities |-> 0]
  BY DEF Init
<1>2. NoActivity \in Row /\ NoActivity.state = "none" /\ NoActivity.turn = NoTurn
  BY DEF NoActivity, Row
<1>3. TypeOK
  <2>1. MaxTime \in Nat /\ MaxEpoch \in Nat /\ WorkLimit \in Nat
    BY ShapeAssumption
  <2>2. now \in 0..MaxTime /\ epoch \in 0..MaxEpoch /\ binder \in [Activities -> 0..MaxEpoch]
    BY <1>1, <2>1
  <2>3. /\ grants \in [Grants -> {"absent", "active", "removed"}] /\ activities \in [Activities -> Row]
        /\ work \in [Turns -> Cohort \cup {NoCohort}] /\ owner \in [Children -> Turns \cup {NoTurn}]
    BY <1>1, <1>2
  <2>4. /\ order \in Seq(Turns) /\ Len(order) = 0 /\ DOMAIN order = {}
    BY <1>1
  <2>5. Len(order) <= WorkLimit /\ {order[n] : n \in DOMAIN order} = {t \in Turns : Known(t)}
    BY <1>1, <2>1, <2>4 DEF Known
  <2>6. worker \in [phase: {"idle", "drain", "transport", "answered"}, batch: SUBSET Update,
                    row: SUBSET Update, answer: Answers \cup {"none"}]
    BY <1>1 DEF NoWorker
  <2>7. holder.phase = "idle"
    BY <1>1 DEF Idle
  <2> QED BY <1>1, <2>2, <2>3, <2>4, <2>5, <2>6, <2>7 DEF TypeOK
<1>4. CohortsBounded
  BY <1>1, CohortsAre DEF CohortsBounded
<1>5. RowsOK
  BY <1>1, <1>2 DEF RowsOK
<1>6. WorkerOK
  BY <1>1 DEF WorkerOK, NoWorker
<1>7. HolderOK
  BY <1>1 DEF HolderOK, Idle
<1>8. Bindings
  BY <1>1 DEF Bindings
<1>9. BoundWorkRetained
  BY <1>1, <1>2 DEF BoundWorkRetained
<1> QED BY <1>1, <1>3, <1>4, <1>5, <1>6, <1>7, <1>8, <1>9 DEF IInv, UpdatesOK, EndsLast, TerminalNewest

\* Every step keeps the invariant.
LEMMA NextKeeps ==
  ASSUME IInv, [Next]_vars
  PROVE  IInv'
<1>1. CASE Tick \/ Restart
  BY <1>1, TickAndRestartKeep
<1>2. CASE Hook
  BY <1>2, HooksKeep
<1>3. CASE Handler
  <2>1. CASE \E ask \in asked : CheckActivity(ask[1], ask[2], ask[3])
    BY <2>1, SubscriptionsKeep
  <2> QED BY <1>3, <2>1, HandlersKeep DEF Handler
<1>4. CASE Locked
  <2>1. CASE holder.phase = "selected" /\ \E a \in DOMAIN holder.rows : PeekRow(a)
    BY <2>1, PeekKeeps
  <2> QED BY <1>4, <2>1, WriteKeeps, SubscriptionsKeep DEF Locked
<1>5. CASE Drain
  BY <1>5, WorkerKeeps
<1>6. CASE UNCHANGED vars
  <2>1. /\ now' = now /\ grants' = grants /\ activities' = activities /\ pending' = pending /\ work' = work
        /\ order' = order /\ owner' = owner /\ holder' = holder /\ asked' = asked /\ worker' = worker
        /\ epoch' = epoch /\ binder' = binder /\ forgotten' = forgotten
    BY <1>6 DEF vars
  <2>2. TypeOK' /\ CohortsBounded' /\ RowsOK' /\ UpdatesOK' /\ WorkerOK' /\ EndsLast'
    BY <2>1 DEF IInv, TypeOK, Known, CohortsBounded, RowsOK, UpdatesOK, InTime, WorkerOK, EndsLast
  <2>3. HolderOK'
    BY <2>1 DEF IInv, HolderOK, Selecting, Writing, Binding, Known, Over
  <2> QED BY <2>1, <2>2, <2>3 DEF IInv, Bindings, BoundWorkRetained, TerminalNewest, Known
<1> QED BY <1>1, <1>2, <1>3, <1>4, <1>5, <1>6 DEF Next

\* The invariant holds in every state of every behaviour.
LEMMA InvariantHolds == Spec => []IInv
BY InitHolds, NextKeeps, PTL DEF Spec

\* The tables, the cohorts and their order, and what hooks and worker carry from one
\* step to the next stay what managed_notifications.py makes them.
THEOREM ActivitiesTyping == Spec => []TypeOK
<1>1. IInv => TypeOK
  BY DEF IInv
<1> QED BY <1>1, InvariantHolds, PTL

\* Of all updates of an activity whose rows were never deleted, the terminal one has the
\* latest time: the phone, which drops what is older than what it shows, shows the end.
THEOREM EndIsNewest == Spec => []TerminalNewest
<1>1. IInv => TerminalNewest
  BY DEF IInv
<1> QED BY <1>1, InvariantHolds, PTL

\* While its lease lives, an activity this process bound has its cohort in memory: the
\* eviction of a full store never takes it.
THEOREM CohortsStay == Spec => []BoundWorkRetained
<1>1. IInv => BoundWorkRetained
  BY DEF IInv
<1> QED BY <1>1, InvariantHolds, PTL
-----------------------------------------------------------------------------
\* Only the transaction of _queue_activity adds an update.

NoneAdded == \A r \in pending' : \E s \in pending : Key(s) = Key(r)

\* An update whose state changes keeps its key.
LEMMA KeyStays ==
  ASSUME TypeOK, NEW r \in pending
  PROVE  /\ \A state : Key([r EXCEPT !.state = state]) = Key(r)
         /\ Key(SweptRow(r)) = Key(r)
<1>1. r \in Update
  BY DEF TypeOK
<1>2. \A state : Key([r EXCEPT !.state = state]) = Key(r)
  BY <1>1 DEF Key, Update
<1>3. Key(SweptRow(r)) = Key(r)
  BY <1>2 DEF SweptRow
<1> QED BY <1>2, <1>3

\* A statement that changes the state and the time of sending of some rows adds none.
LEMMA ChangedAddsNone ==
  ASSUME TypeOK, NEW state, NEW next,
         \A u \in pending' :
           \/ u \in pending
           \/ \E s \in pending : u = [s EXCEPT !.state = state]
           \/ \E s \in pending : u = [s EXCEPT !.state = state, !.next = next]
  PROVE  NoneAdded
<1> SUFFICES ASSUME NEW u \in pending'
             PROVE  \E s \in pending : Key(s) = Key(u)
  BY DEF NoneAdded
<1>1. CASE u \in pending
  BY <1>1
<1>2. ASSUME NEW s \in pending, u = [s EXCEPT !.state = state]
      PROVE  \E v \in pending : Key(v) = Key(u)
  <2>1. Key(u) = Key(s)
    BY <1>2, KeyStays
  <2> QED BY <2>1
<1>3. ASSUME NEW s \in pending, u = [s EXCEPT !.state = state, !.next = next]
      PROVE  \E v \in pending : Key(v) = Key(u)
  <2>1. Key(u) = Key(s)
    <3>1. s \in Update
      BY DEF TypeOK
    <3> QED BY <1>3, <3>1 DEF Key, Update
  <2> QED BY <2>1
<1> QED BY <1>1, <1>2, <1>3

\* Handlers and worker add none.
LEMMA OthersAddNone ==
  ASSUME TypeOK, Tick \/ Hook \/ Handler \/ Drain \/ Restart
  PROVE  NoneAdded
<1>1. ASSUME pending' \subseteq pending PROVE NoneAdded
  BY <1>1 DEF NoneAdded
<1>2. ASSUME NEW S, Forget(S) PROVE pending' \subseteq pending
  BY <1>2 DEF Forget
<1>3. CASE Tick \/ Restart
  BY <1>1, <1>3 DEF Tick, Restart, journal
<1>4. CASE Hook
  BY <1>1, <1>4 DEF Hook, PreLlmCall, Report, SessionEnd, SubagentStart, SubagentStop, journal
<1>5. CASE Handler
  BY <1>1, <1>2, <1>5 DEF Handler, Enroll, Remove, RemoveRows, RemoveActivity, Unsubscribe, AskActivity, CheckActivity, journal
<1>6. CASE Drain
  <2>1. CASE Sweep
    <3>1. \A r \in pending' : \E s \in pending : r = SweptRow(s)
      BY <2>1 DEF Sweep
    <3> QED BY <3>1, KeyStays DEF NoneAdded
  <2>2. ASSUME NEW r \in worker.batch, Claim(r)
        PROVE  NoneAdded
    <3>1. CASE UNCHANGED pending
      BY <1>1, <3>1
    <3>2. CASE ~UNCHANGED pending
      <4> DEFINE rows == {s \in pending : Key(s) = Key(r) /\ s.state = "pending" /\ s.expires > now}
      <4>1. pending' = (pending \ rows) \cup {[s EXCEPT !.state = "sending", !.next = now + ClaimLease] : s \in rows}
        BY <2>2, <3>2 DEF Claim
      <4>2. rows \subseteq pending
        OBVIOUS
      <4> HIDE DEF rows
      <4>3. \A u \in pending' :
              u \in pending \/ \E s \in pending : u = [s EXCEPT !.state = "sending", !.next = now + ClaimLease]
        BY <4>1, <4>2
      <4> QED BY <4>3, ChangedAddsNone
    <3> QED BY <3>1, <3>2
  <2>3. ASSUME NEW r \in worker.row, NEW answer \in Answers, Transport(r, answer)
        PROVE  NoneAdded
    BY <1>1, <2>3 DEF Transport, journal
  <2>4. ASSUME NEW r \in worker.row, Record(r)
        PROVE  NoneAdded
    <3>1. Sending(r) \subseteq pending
      BY DEF Sending
    <3>2. ASSUME NEW state, NEW next, Rewritten(r, state, next)
          PROVE  NoneAdded
      <4>1. \A u \in pending' : u \in pending \/ \E s \in pending : u = [s EXCEPT !.state = state, !.next = next]
        BY <3>1, <3>2 DEF Rewritten
      <4> QED BY <4>1, ChangedAddsNone
    <3>3. CASE Accepted(r)
      <4>1. \A u \in pending' : u \in pending \/ \E s \in pending : u = [s EXCEPT !.state = "accepted"]
        BY <3>1, <3>3 DEF Accepted
      <4> QED BY <4>1, ChangedAddsNone
    <3>4. CASE Retried(r)
      BY <3>2, <3>4 DEF Retried
    <3>5. CASE Refused(r)
      BY <3>2, <3>5 DEF Refused
    <3>6. CASE RemoveRows(GrantOf[r.act])
      BY <1>1, <1>2, <3>6 DEF RemoveRows
    <3> QED BY <2>4, <3>3, <3>4, <3>5, <3>6 DEF Record
  <2> QED BY <1>6, <2>1, <2>2, <2>3, <2>4 DEF Drain
<1> QED BY <1>3, <1>4, <1>5, <1>6

\* The end of a turn is told only when it is one: a step that adds a terminal update finds
\* its parent ended and no child running, although hooks, handlers and worker ran between
\* the hook that read the cohort and the transaction that writes.
THEOREM EndsAreReal == Spec => TerminalIsTrue
<1>1. ASSUME IInv, Next
      PROVE  EndIsTrue
  <2>1. CASE NoneAdded
    BY <2>1 DEF NoneAdded, EndIsTrue
  <2>2. CASE pending' = pending
    BY <2>2 DEF EndIsTrue
  <2>3. CASE WriteUpdates
    <3> DEFINE made(picks) == {holder.first} \cup
                 {u \in {UpdateFor(a, holder.rows[a], holder.turn, holder.sig, picks[a]) : a \in DOMAIN picks} :
                    u.expires > u.stamp}
    <3>1. PICK picks \in [DOMAIN holder.rows -> {{}} \cup {{r} : r \in pending}] :
            /\ \A a \in DOMAIN picks : picks[a] \in Replaced(a)
            /\ pending' \subseteq pending \cup made(picks)
      BY <2>3 DEF WriteUpdates
    <3>2. holder.phase = "writing" /\ Selecting
      BY <1>1, <2>3 DEF WriteUpdates, IInv, HolderOK
    <3>3. Batched(made(picks))
      <4>1. DOMAIN picks = DOMAIN holder.rows /\ \A a \in DOMAIN picks : picks[a] \in Replaced(a)
        BY <3>1
      <4> QED BY <1>1, <3>2, <4>1, PickedAreBatched
    <3> HIDE DEF made
    <3> SUFFICES ASSUME NEW r \in pending', r.sig.phase \in Ends, \A s \in pending : Key(s) # Key(r)
                 PROVE  work[r.turn].outcome # "none" /\ ActiveChildren(work[r.turn]) = {}
      BY DEF EndIsTrue
    <3>4. r \in made(picks)
      BY <3>1
    <3>5. r.turn = holder.turn /\ r.sig = holder.sig
      BY <3>3, <3>4 DEF Batched
    <3> QED BY <3>2, <3>5 DEF Selecting, Over
  <2>4. CASE Locked
    BY <2>2, <2>3, <2>4 DEF Locked, PeekRow, BindActivity, SelectBound, journal
  <2> QED BY <1>1, <2>1, <2>4, OthersAddNone DEF Next, IInv
<1>2. IInv /\ [Next]_vars => [EndIsTrue]_vars
  BY <1>1
<1> QED BY <1>2, InvariantHolds, PTL DEF Spec, TerminalIsTrue
=============================================================================
