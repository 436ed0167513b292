------------------------ MODULE DeviceToolBridgeProofs ------------------------
(***************************************************************************)
(* Proofs about DeviceToolBridge, for any calls, requests, connections,    *)
(* capacities and bounds: types, and that a mutation crosses to the phone  *)
(* again only when the bridge has lost the memory of it.  About            *)
(* ProviderLeases, for any threads, providers and bounds: types, and that  *)
(* a provider is closed once and unused.  About TurnReplies: types, and    *)
(* that a turn's replies go to who asked.  And about the behaviours of     *)
(* MCDeviceLinks: that the results of native calls are kept.               *)
(***************************************************************************)
EXTENDS MCDeviceLinks, ProviderLeases, FiniteSetTheorems, SequenceTheorems, TLAPS

\* The executions whose send is under way and has not crossed.
Sending(r) == {c \in Calls : calls[c].at = "sending" /\ RequestOf[c] = r}

\* The bridge has a pending entry or an outcome of the request.
Remembered(r) == slot[r] # NoCall \/ OutcomesOf(r) # {}

\* What was sent and is about to be sent is paid for: once by what the bridge remembers,
\* and once by each time it forgot.
Paid(r) ==
  /\ IsFiniteSet(Sending(r))
  /\ sent[r] + Cardinality(Sending(r)) <= forgotten[r] + (IF Remembered(r) THEN 1 ELSE 0)
AllPaid == \A r \in Requests \ Reads : Paid(r)
-----------------------------------------------------------------------------
\* Sequences of outcomes.

\* Without the outcome of r, the others are there in their order.
LEMMA OthersAre ==
  ASSUME TypeOK, NEW r \in Requests
  PROVE  /\ Others(r) \in Seq(Outcome) /\ Len(Others(r)) <= Len(outcomes)
         /\ \A k \in DOMAIN Others(r) : Others(r)[k].request # r
         /\ \A q \in Requests \ {r} : \A i \in OutcomesOf(q) :
              \E k \in DOMAIN Others(r) : Others(r)[k] = outcomes[i]
         /\ \A k, l \in DOMAIN Others(r) : Others(r)[k].request = Others(r)[l].request => k = l
         /\ OutcomesOf(r) # {} => Len(Others(r)) < Len(outcomes)
<1>s. /\ outcomes \in Seq(Outcome)
      /\ \A i, j \in DOMAIN outcomes : outcomes[i].request = outcomes[j].request => i = j
  BY DEF TypeOK, Outcome
<1>t. Len(outcomes) \in Nat /\ DOMAIN outcomes = 1 .. Len(outcomes)
  BY <1>s
<1>1. CASE OutcomesOf(r) = {}
  <2>1. Others(r) = outcomes
    BY <1>1 DEF Others
  <2> QED BY <1>1, <1>s, <1>t, <2>1 DEF OutcomesOf
<1>2. CASE OutcomesOf(r) # {}
  <2>1. PICK i \in OutcomesOf(r) :
          Others(r) = SubSeq(outcomes, 1, i - 1) \o SubSeq(outcomes, i + 1, Len(outcomes))
    <3> DEFINE i == CHOOSE j \in OutcomesOf(r) : TRUE
    <3>1. i \in OutcomesOf(r)
      BY <1>2
    <3> QED BY <1>2, <3>1 DEF Others
  <2>2. i \in 1 .. Len(outcomes) /\ outcomes[i].request = r
    BY <1>t DEF OutcomesOf
  <2> DEFINE left == SubSeq(outcomes, 1, i - 1)
             right == SubSeq(outcomes, i + 1, Len(outcomes))
  <2>3. /\ left \in Seq(Outcome) /\ Len(left) = i - 1
        /\ \A k \in 1 .. i - 1 : left[k] = outcomes[k]
    BY <1>s, <1>t, <2>2
  <2>4. /\ right \in Seq(Outcome) /\ Len(right) = Len(outcomes) - i
        /\ \A k \in 1 .. Len(outcomes) - i : right[k] = outcomes[k + i]
    <3>1. PICK n \in Nat, m \in Nat : n = Len(outcomes) /\ m = i /\ 1 <= m /\ m <= n
      <4> HIDE DEF left, right
      <4>1. i \in 1 .. Len(outcomes) /\ Len(outcomes) \in Nat
        BY <1>t, <2>2
      <4> QED BY <4>1
    <3>2. \A j \in (m + 1) .. n : outcomes[j] \in Outcome
      <4>1. \A j \in 1 .. n : outcomes[j] \in Outcome
        BY <1>s, <3>1, ElementOfSeq
      <4> QED BY <3>1, <4>1
    <3>3. right = SubSeq(outcomes, m + 1, n)
      BY <3>1
    <3> HIDE DEF right
    <3>4. /\ right \in Seq(Outcome) /\ Len(right) = IF m + 1 <= n THEN n - (m + 1) + 1 ELSE 0
          /\ \A k \in 1 .. n - (m + 1) + 1 : right[k] = outcomes[m + 1 + k - 1]
      BY <3>1, <3>2, <3>3, SubSeqProperties
    <3>5. (IF m + 1 <= n THEN n - (m + 1) + 1 ELSE 0) = n - m /\ n - (m + 1) + 1 = n - m
      BY <3>1
    <3>6. \A k \in 1 .. n - m : m + 1 + k - 1 = k + m
      BY <3>1
    <3>7. \A k \in 1 .. n - m : right[k] = outcomes[k + m]
      BY <3>4, <3>5, <3>6
    <3> QED BY <3>1, <3>4, <3>5, <3>7
  <2> HIDE DEF left, right
  <2>5. Others(r) = left \o right
    BY <2>1 DEF left, right
  <2>6. /\ Others(r) \in Seq(Outcome) /\ Len(Others(r)) = Len(outcomes) - 1
        /\ DOMAIN Others(r) = 1 .. Len(outcomes) - 1
    <3>1. Others(r) \in Seq(Outcome) /\ Len(Others(r)) = Len(left) + Len(right)
      BY <2>3, <2>4, <2>5, ConcatProperties
    <3>2. Len(left) + Len(right) = Len(outcomes) - 1
      BY <1>t, <2>2, <2>3, <2>4
    <3> QED BY <3>1, <3>2
  <2>7. ASSUME NEW k \in 1 .. Len(outcomes) - 1
        PROVE  Others(r)[k] = outcomes[IF k < i THEN k ELSE k + 1]
    <3>1. CASE k < i
      <4>1. k \in 1 .. i - 1 /\ k <= Len(left) /\ k \in 1 .. Len(left) + Len(right)
        BY <1>t, <2>2, <2>3, <2>4, <3>1
      <4>2. (left \o right)[k] = left[k]
        BY <2>3, <2>4, <4>1, ConcatProperties
      <4> QED BY <2>3, <2>5, <3>1, <4>1, <4>2
    <3>2. CASE ~(k < i)
      <4>1. Others(r)[k] = right[k - (i - 1)]
        <5>1. k \in 1 .. Len(left) + Len(right) /\ ~(k <= Len(left))
          BY <1>t, <2>2, <2>3, <2>4, <3>2
        <5>2. (left \o right)[k] = right[k - Len(left)]
          BY <2>3, <2>4, <5>1, ConcatProperties
        <5> QED BY <2>3, <2>5, <5>2
      <4>2. k - (i - 1) \in 1 .. Len(outcomes) - i
        BY <1>s, <1>t, <2>2, <3>2
      <4> QED BY <1>s, <1>t, <2>2, <2>4, <3>2, <4>1, <4>2
    <3> QED BY <3>1, <3>2
  <2> DEFINE at(k) == IF k < i THEN k ELSE k + 1
  <2>8. \A k \in 1 .. Len(outcomes) - 1 : at(k) \in DOMAIN outcomes /\ at(k) # i
    BY <1>s, <1>t, <2>2
  <2>9. \A k, l \in 1 .. Len(outcomes) - 1 : at(k) = at(l) => k = l
    BY <1>s, <1>t, <2>2
  <2>10. \A m \in DOMAIN outcomes : m # i => \E k \in 1 .. Len(outcomes) - 1 : at(k) = m
    <3> SUFFICES ASSUME NEW m \in DOMAIN outcomes, m # i
                 PROVE  \E k \in 1 .. Len(outcomes) - 1 : at(k) = m
      OBVIOUS
    <3>1. CASE m < i
      <4>1. m \in 1 .. Len(outcomes) - 1 /\ at(m) = m
        BY <1>s, <1>t, <2>2, <3>1
      <4> QED BY <4>1
    <3>2. CASE m > i
      <4>1. m - 1 \in 1 .. Len(outcomes) - 1 /\ at(m - 1) = m
        BY <1>s, <1>t, <2>2, <3>2
      <4> QED BY <4>1
    <3> QED BY <1>s, <1>t, <2>2, <3>1, <3>2
  <2>11. \A k \in 1 .. Len(outcomes) - 1 : Others(r)[k] = outcomes[at(k)]
    BY <2>7
  <2> HIDE DEF at
  <2>12. \A k \in DOMAIN Others(r) : Others(r)[k].request # r
    BY <1>s, <1>t, <2>2, <2>6, <2>8, <2>11
  <2>13. \A q \in Requests \ {r} : \A m \in OutcomesOf(q) :
           \E k \in DOMAIN Others(r) : Others(r)[k] = outcomes[m]
    <3> SUFFICES ASSUME NEW q \in Requests \ {r}, NEW m \in OutcomesOf(q)
                 PROVE  \E k \in DOMAIN Others(r) : Others(r)[k] = outcomes[m]
      OBVIOUS
    <3>1. m \in DOMAIN outcomes /\ m # i
      BY <2>2 DEF OutcomesOf
    <3>2. PICK k \in 1 .. Len(outcomes) - 1 : at(k) = m
      BY <2>10, <3>1
    <3>3. k \in DOMAIN Others(r) /\ Others(r)[k] = outcomes[m]
      BY <2>6, <2>11, <3>2
    <3> QED BY <3>3
  <2>14. \A k, l \in DOMAIN Others(r) : Others(r)[k].request = Others(r)[l].request => k = l
    <3> SUFFICES ASSUME NEW k \in 1 .. Len(outcomes) - 1, NEW l \in 1 .. Len(outcomes) - 1,
                        outcomes[at(k)].request = outcomes[at(l)].request
                 PROVE  k = l
      BY <2>6, <2>11
    <3>1. at(k) = at(l)
      <4>1. at(k) \in DOMAIN outcomes /\ at(l) \in DOMAIN outcomes
        BY <2>8
      <4> QED BY <1>s, <4>1
    <3> QED BY <2>9, <3>1
  <2> QED BY <1>s, <1>t, <2>6, <2>12, <2>13, <2>14
<1> QED BY <1>1, <1>2

\* The newest outcome is the last of a sequence of at most MaxOutcomes.
LEMMA RecordedAre ==
  ASSUME TypeOK, NEW r \in Requests, NEW print \in {PrintOf[c] : c \in Calls}, NEW code \in {"ok", "failed"}
  PROVE  LET kept == Recorded(r, print, code) IN
         /\ kept \in Seq(Outcome) /\ Len(kept) <= MaxOutcomes
         /\ \A k, l \in DOMAIN kept : kept[k].request = kept[l].request => k = l
         /\ r \in Reads => kept = outcomes
         /\ r \notin Reads => \E k \in DOMAIN kept : kept[k].request = r
<1> DEFINE new == [request |-> r, print |-> print, code |-> code]
           all == Append(Others(r), new)
           from == (IF Len(all) > MaxOutcomes THEN Len(all) - MaxOutcomes ELSE 0) + 1
           kept == SubSeq(all, from, Len(all))
<1>t. /\ outcomes \in Seq(Outcome) /\ Len(outcomes) <= MaxOutcomes /\ MaxOutcomes \in Nat \ {0}
      /\ \A i, j \in DOMAIN outcomes : outcomes[i].request = outcomes[j].request => i = j
  BY BridgeAssumption DEF TypeOK, Outcome
<1>1. CASE r \in Reads
  BY <1>1, <1>t DEF Recorded
<1>2. CASE r \notin Reads
  <2>1. new \in Outcome /\ new.request = r
    BY DEF Outcome
  <2> HIDE DEF new
  <2> DEFINE n == Len(Others(r))
  <2>2. Others(r) \in Seq(Outcome) /\ n \in Nat
    BY OthersAre
  <2>3. /\ all \in Seq(Outcome) /\ Len(all) = n + 1 /\ all[n + 1] = new
        /\ \A k \in 1 .. n : all[k] = Others(r)[k]
    BY <2>1, <2>2
  <2>4. \A k, l \in 1 .. n + 1 : all[k].request = all[l].request => k = l
    <3>1. \A k \in 1 .. n : all[k].request # r
      BY <2>2, <2>3, OthersAre
    <3>2. \A k, l \in 1 .. n : all[k].request = all[l].request => k = l
      BY <2>2, <2>3, OthersAre
    <3> QED BY <2>1, <2>2, <2>3, <3>1, <3>2
  <2> HIDE DEF all, n
  <2>5. from \in 1 .. n + 1 /\ (n + 1) - from + 1 <= MaxOutcomes
    BY <1>t, <2>2, <2>3
  <2> HIDE DEF from
  <2>6. /\ kept \in Seq(Outcome) /\ Len(kept) = (n + 1) - from + 1
        /\ \A k \in 1 .. (n + 1) - from + 1 : kept[k] = all[from + k - 1]
    BY <2>2, <2>3, <2>5
  <2>7. DOMAIN kept = 1 .. (n + 1) - from + 1
    BY <2>6
  <2> HIDE DEF kept
  <2>8. \A k, l \in DOMAIN kept : kept[k].request = kept[l].request => k = l
    <3> SUFFICES ASSUME NEW k \in DOMAIN kept, NEW l \in DOMAIN kept, kept[k].request = kept[l].request
                 PROVE  k = l
      OBVIOUS
    <3>1. k \in Int /\ l \in Int /\ from \in Int
      BY <2>2, <2>5, <2>7
    <3>2. from + k - 1 \in 1 .. n + 1 /\ from + l - 1 \in 1 .. n + 1
      BY <2>2, <2>5, <2>7
    <3>3. kept[k] = all[from + k - 1] /\ kept[l] = all[from + l - 1]
      BY <2>6, <2>7
    <3>4. from + k - 1 = from + l - 1
      BY <2>4, <3>2, <3>3
    <3> QED BY <3>1, <3>4
  <2>9. (n + 1) - from + 1 \in DOMAIN kept /\ kept[(n + 1) - from + 1] = new
    BY <2>2, <2>3, <2>5, <2>6, <2>7
  <2>10. Recorded(r, print, code) = kept
    BY <1>2 DEF Recorded, kept, from, all, new
  <2> QED BY <1>2, <2>1, <2>5, <2>6, <2>8, <2>9, <2>10
<1> QED BY <1>1, <1>2
-----------------------------------------------------------------------------
\* Types.

\* An execution past its start knows whose pending entry it waits on.
Joined == \A c \in Calls : calls[c].at \in {"sending", "written", "waiting"} => calls[c].joins \in Calls

\* What becomes of an execution changes neither the others nor whose entry it waits on.
LEMMA MovesOn ==
  ASSUME TypeOK, NEW c \in Calls,
         NEW at \in {"queued", "sending", "written", "waiting", "done"},
         calls' = [calls EXCEPT ![c].at = at]
  PROVE  /\ calls' \in [Calls -> Execution]
         /\ calls'[c].at = at /\ calls'[c].joins = calls[c].joins
         /\ \A d \in Calls \ {c} : calls'[d] = calls[d]
         /\ Joined /\ (at = "done" \/ calls[c].at \in {"sending", "written", "waiting"}) => Joined'
<1>1. calls \in [Calls -> Execution]
  BY DEF TypeOK
<1>2. /\ calls' \in [Calls -> Execution]
      /\ calls'[c].at = at /\ calls'[c].joins = calls[c].joins
      /\ \A d \in Calls \ {c} : calls'[d] = calls[d]
  BY <1>1 DEF Execution
<1>3. ASSUME Joined, at = "done" \/ calls[c].at \in {"sending", "written", "waiting"}
      PROVE  Joined'
  BY <1>2, <1>3 DEF Joined
<1> QED BY <1>2, <1>3

\* A call that ends keeps the types, whoever made the request pending.
LEMMA EndsTypes ==
  ASSUME TypeOK, NEW c \in Calls, NEW o \in Calls, NEW code \in {"ok", "failed"}, Ends(c, o, code)
  PROVE  /\ outcomes' \in Seq(Outcome) /\ Len(outcomes') <= MaxOutcomes
         /\ \A i, j \in DOMAIN outcomes' : outcomes'[i].request = outcomes'[j].request => i = j
         /\ forgotten' \in [Requests -> Nat] /\ slot' \in [Requests -> Calls \cup {NoCall}]
         /\ calls' = [calls EXCEPT ![c].at = "done"]
         /\ answer' \in [Calls -> {"", "ok", "failed", "cancelled"}]
<1>1. RequestOf[c] \in Requests /\ PrintOf[o] \in {PrintOf[d] : d \in Calls}
  BY BridgeAssumption
<1>2. outcomes' = Recorded(RequestOf[c], PrintOf[o], code)
  BY DEF Ends
<1>3. /\ outcomes' \in Seq(Outcome) /\ Len(outcomes') <= MaxOutcomes
      /\ \A i, j \in DOMAIN outcomes' : outcomes'[i].request = outcomes'[j].request => i = j
  BY <1>1, <1>2, RecordedAre
<1>4. forgotten' \in [Requests -> Nat]
  <2>1. forgotten' = [r \in Requests |-> forgotten[r]
          + (IF OutcomesOf(r) # {} /\ \A i \in DOMAIN outcomes' : outcomes'[i].request # r THEN 1 ELSE 0)]
    BY <1>2 DEF Ends, Forgets
  <2>2. forgotten \in [Requests -> Nat]
    BY DEF TypeOK
  <2> QED BY <2>1, <2>2
<1>5. slot' \in [Requests -> Calls \cup {NoCall}]
  BY DEF TypeOK, Ends
<1>6. calls' = [calls EXCEPT ![c].at = "done"] /\ answer' = [answer EXCEPT ![c] = code]
  BY DEF Ends
<1>7. answer' \in [Calls -> {"", "ok", "failed", "cancelled"}]
  BY <1>6 DEF TypeOK
<1> QED BY <1>3, <1>4, <1>5, <1>6, <1>7

\* The future of the pending executions fails; their types stay.
LEMMA FailsTypes ==
  ASSUME TypeOK, NEW owners
  PROVE  Fails(pending, owners) \in [Calls -> Pending]
<1>1. \A c \in Calls : pending[c] \in Pending
  BY DEF TypeOK
<1>2. \A p \in Pending : [p EXCEPT !.future = "error"] \in Pending
  BY DEF Pending
<1> QED BY <1>1, <1>2 DEF Fails

\* The oldest answer of the request moves to the newest place.
LEMMA ReplaysTypes ==
  ASSUME TypeOK, NEW r \in Requests, NEW i \in OutcomesOf(r), NEW kept,
         kept = Append(Others(r), outcomes[i])
  PROVE  /\ kept \in Seq(Outcome) /\ Len(kept) <= MaxOutcomes
         /\ \A k, l \in DOMAIN kept : kept[k].request = kept[l].request => k = l
         /\ \A q \in Requests : OutcomesOf(q) # {} => \E k \in DOMAIN kept : kept[k].request = q
<1> DEFINE n == Len(Others(r))
<1>1. /\ outcomes[i] \in Outcome /\ outcomes[i].request = r /\ OutcomesOf(r) # {}
      /\ Len(outcomes) \in Nat /\ Len(outcomes) <= MaxOutcomes /\ MaxOutcomes \in Nat
  <2>1. outcomes \in Seq(Outcome) /\ Len(outcomes) <= MaxOutcomes /\ MaxOutcomes \in Nat
    BY BridgeAssumption DEF TypeOK, Outcome
  <2>2. i \in DOMAIN outcomes /\ outcomes[i].request = r
    BY DEF OutcomesOf
  <2> QED BY <2>1, <2>2
<1>2. /\ Others(r) \in Seq(Outcome) /\ n \in Nat /\ n < Len(outcomes) /\ DOMAIN Others(r) = 1 .. n
  BY <1>1, OthersAre
<1>3. /\ kept \in Seq(Outcome) /\ Len(kept) = n + 1 /\ kept[n + 1] = outcomes[i]
      /\ \A k \in 1 .. n : kept[k] = Others(r)[k]
  BY <1>1, <1>2
<1>4. DOMAIN kept = 1 .. n + 1
  BY <1>3, <1>2
<1>5. \A k \in 1 .. n : kept[k].request # r
  BY <1>2, <1>3, OthersAre
<1>6. \A k, l \in 1 .. n : kept[k].request = kept[l].request => k = l
  BY <1>2, <1>3, OthersAre
<1> HIDE DEF n
<1>7. \A k, l \in DOMAIN kept : kept[k].request = kept[l].request => k = l
  BY <1>1, <1>2, <1>3, <1>4, <1>5, <1>6
<1>8. ASSUME NEW q \in Requests, OutcomesOf(q) # {}
      PROVE  \E k \in DOMAIN kept : kept[k].request = q
  <2>1. CASE q = r
    BY <1>1, <1>2, <1>3, <1>4, <2>1
  <2>2. CASE q # r
    <3>1. PICK m \in OutcomesOf(q) : TRUE
      BY <1>8
    <3>2. outcomes[m].request = q
      BY <3>1 DEF OutcomesOf
    <3>3. PICK k \in 1 .. n : Others(r)[k] = outcomes[m]
      BY <1>2, <2>2, <3>1, OthersAre
    <3>4. k \in DOMAIN kept /\ kept[k] = outcomes[m]
      BY <1>2, <1>3, <1>4, <3>3
    <3> QED BY <3>2, <3>4
  <2> QED BY <2>1, <2>2
<1> QED BY <1>1, <1>2, <1>3, <1>7, <1>8
\* Every step keeps the types, and that an execution knows whose entry it waits on.
LEMMA TypesStep ==
  ASSUME TypeOK, Joined, [Next]_vars
  PROVE  TypeOK' /\ Joined'
<1>a. /\ outcomes \in Seq(Outcome) /\ <<>> \in Seq(Outcome)
      /\ now \in Nat /\ binds \in Nat /\ statuses \in Nat /\ MaxTime \in Nat /\ MaxOutcomes \in Nat
      /\ sent \in [Requests -> Nat] /\ forgotten \in [Requests -> Nat]
      /\ \A c \in Calls : RequestOf[c] \in Requests
  <2>1. <<>> \in Seq(Outcome)
    OBVIOUS
  <2>2. \A c \in Calls : RequestOf[c] \in Requests
    BY BridgeAssumption
  <2> QED BY <2>1, <2>2, BridgeAssumption DEF TypeOK
<1>b. NoStatus \in [at: 0..(MaxTime + 1), on: BOOLEAN, route: Directs \cup {Link}, known: BOOLEAN]
  BY <1>a DEF NoStatus
<1>1. ASSUME NEW c \in Calls, Execute(c)
      PROVE  TypeOK' /\ Joined'
  <2> DEFINE new == [at |-> "queued", client |-> client, joins |-> NoCall]
  <2>1. calls' = [calls EXCEPT ![c] = new] /\ new \in Execution /\ new.at = "queued"
    BY <1>1 DEF Execute, TypeOK, Execution
  <2> HIDE DEF new
  <2>2. calls' \in [Calls -> Execution] /\ Joined'
    BY <2>1 DEF TypeOK, Joined
  <2> QED BY <1>1, <2>2 DEF TypeOK, Execute
<1>2. ASSUME NEW c \in Calls, Start(c)
      PROVE  TypeOK' /\ Joined'
  <2>1. CASE Answers(c, "failed")
    <3>1. calls' \in [Calls -> Execution] /\ Joined'
      BY <2>1, MovesOn DEF Answers
    <3>2. answer' \in [Calls -> {"", "ok", "failed", "cancelled"}]
      BY <2>1 DEF Answers, TypeOK
    <3> QED BY <1>2, <2>1, <3>1, <3>2 DEF TypeOK, Start, Answers
  <2>2. CASE Joins(c)
    <3> DEFINE new == [calls[c] EXCEPT !.at = "waiting", !.joins = slot[RequestOf[c]]]
    <3>1. slot[RequestOf[c]] \in Calls
      BY <1>a, <2>2 DEF Joins, TypeOK
    <3>2. calls' = [calls EXCEPT ![c] = new]
      BY <2>2 DEF Joins, TypeOK
    <3>3. new \in Execution /\ new.joins \in Calls
      <4>1. calls[c] \in Execution
        BY DEF TypeOK
      <4> QED BY <3>1, <4>1 DEF Execution
    <3> HIDE DEF new
    <3>4. calls' \in [Calls -> Execution] /\ Joined'
      BY <3>2, <3>3 DEF TypeOK, Joined
    <3> QED BY <1>2, <2>2, <3>4 DEF TypeOK, Start, Joins
  <2>3. CASE Replays(c)
    <3>1. PICK i \in OutcomesOf(RequestOf[c]) :
            /\ outcomes' = Append(Others(RequestOf[c]), outcomes[i])
            /\ answer' = [answer EXCEPT ![c] = outcomes[i].code]
      BY <2>3 DEF Replays
    <3>2. outcomes[i].code \in {"ok", "failed"}
      <4>1. i \in DOMAIN outcomes
        BY DEF OutcomesOf
      <4>2. outcomes[i] \in Outcome
        BY <1>a, <4>1
      <4> QED BY <4>2 DEF Outcome
    <3>3. /\ outcomes' \in Seq(Outcome) /\ Len(outcomes') <= MaxOutcomes
          /\ \A k, l \in DOMAIN outcomes' : outcomes'[k].request = outcomes'[l].request => k = l
      <4>1. RequestOf[c] \in Requests
        BY <1>a
      <4> QED BY <3>1, <4>1, ReplaysTypes
    <3>4. answer' \in [Calls -> {"", "ok", "failed", "cancelled"}]
      BY <3>1, <3>2 DEF TypeOK
    <3>5. calls' \in [Calls -> Execution] /\ Joined'
      BY <2>3, MovesOn DEF Replays
    <3> QED BY <1>2, <2>3, <3>3, <3>4, <3>5 DEF TypeOK, Start, Replays
  <2>4. CASE Sends(c)
    <3> DEFINE new == [calls[c] EXCEPT !.at = "sending", !.joins = c]
               made == [future |-> "open", client |-> client]
    <3>1. calls' = [calls EXCEPT ![c] = new]
      BY <2>4 DEF Sends, TypeOK
    <3>2. new \in Execution /\ new.joins = c /\ made \in Pending
      BY DEF TypeOK, Execution, Pending
    <3>3. pending' = [pending EXCEPT ![c] = made]
      BY <2>4 DEF Sends
    <3> HIDE DEF new, made
    <3>4. calls' \in [Calls -> Execution] /\ Joined'
      BY <3>1, <3>2 DEF TypeOK, Joined
    <3>5. pending' \in [Calls -> Pending]
      BY <3>2, <3>3 DEF TypeOK
    <3>6. slot' \in [Requests -> Calls \cup {NoCall}]
      BY <2>4 DEF Sends, TypeOK
    <3> QED BY <1>2, <2>4, <3>4, <3>5, <3>6 DEF TypeOK, Start, Sends
  <2> QED BY <1>2, <2>1, <2>2, <2>3, <2>4 DEF Start
<1>3. ASSUME NEW c \in Calls, Crosses(c)
      PROVE  TypeOK' /\ Joined'
  <2>1. sent' \in [Requests -> Nat]
    BY <1>a, <1>3 DEF Crosses
  <2>2. calls' \in [Calls -> Execution] /\ Joined'
    BY <1>3, MovesOn DEF Crosses
  <2> QED BY <1>3, <2>1, <2>2 DEF TypeOK, Crosses
<1>4. ASSUME NEW c \in Calls, Returns(c)
      PROVE  TypeOK' /\ Joined'
  <2>1. calls' \in [Calls -> Execution] /\ Joined'
    BY <1>4, MovesOn DEF Returns
  <2> QED BY <1>4, <2>1 DEF TypeOK, Returns
<1>5. ASSUME NEW c \in Calls, NEW o \in Calls, NEW code \in {"ok", "failed"}, Ends(c, o, code),
             UNCHANGED <<client, connected, binds, current, status, pending, now, statuses, sent>>
      PROVE  TypeOK' /\ Joined'
  <2>1. /\ outcomes' \in Seq(Outcome) /\ Len(outcomes') <= MaxOutcomes
        /\ \A i, j \in DOMAIN outcomes' : outcomes'[i].request = outcomes'[j].request => i = j
        /\ forgotten' \in [Requests -> Nat] /\ slot' \in [Requests -> Calls \cup {NoCall}]
        /\ calls' = [calls EXCEPT ![c].at = "done"]
        /\ answer' \in [Calls -> {"", "ok", "failed", "cancelled"}]
    BY <1>5, EndsTypes
  <2>2. calls' \in [Calls -> Execution] /\ Joined'
    BY <2>1, MovesOn
  <2> QED BY <1>5, <2>1, <2>2 DEF TypeOK
<1>6. ASSUME NEW c \in Calls, SendFails(c)
      PROVE  TypeOK' /\ Joined'
  BY <1>5, <1>6 DEF SendFails
<1>7. ASSUME NEW c \in Calls, Resolves(c)
      PROVE  TypeOK' /\ Joined'
  BY <1>5, <1>7 DEF Resolves, Joined
<1>8. ASSUME NEW c \in Calls, TimesOut(c)
      PROVE  TypeOK' /\ Joined'
  BY <1>5, <1>8 DEF TimesOut, Joined
<1>9. ASSUME NEW c \in Calls, Cancel(c)
      PROVE  TypeOK' /\ Joined'
  <2>1. forgotten' \in [Requests -> Nat]
    BY <1>a, <1>9 DEF Cancel
  <2>2. slot' \in [Requests -> Calls \cup {NoCall}]
    BY <1>a, <1>9 DEF TypeOK, Cancel
  <2>3. answer' \in [Calls -> {"", "ok", "failed", "cancelled"}]
    BY <1>9 DEF TypeOK, Cancel
  <2>4. calls' \in [Calls -> Execution] /\ Joined'
    BY <1>9, MovesOn DEF Cancel
  <2> QED BY <1>9, <2>1, <2>2, <2>3, <2>4 DEF TypeOK, Cancel
<1>10. ASSUME NEW r \in Requests, NEW via, Result(r, via)
       PROVE  TypeOK' /\ Joined'
  <2>1. slot[r] \in Calls /\ pending' = [pending EXCEPT ![slot[r]].future = "ok"]
    BY <1>10 DEF TypeOK, Result
  <2>2. pending' \in [Calls -> Pending]
    <3>1. pending[slot[r]] \in Pending
      BY <2>1 DEF TypeOK
    <3>2. [pending[slot[r]] EXCEPT !.future = "ok"] \in Pending
      BY <3>1 DEF Pending
    <3>3. pending' = [pending EXCEPT ![slot[r]] = [pending[slot[r]] EXCEPT !.future = "ok"]]
      BY <2>1
    <3> QED BY <3>2, <3>3 DEF TypeOK
  <2> QED BY <1>10, <2>2 DEF TypeOK, Joined, Result
<1>11. ASSUME NEW at \in now..(now + 1), at <= MaxTime + 1, NEW on \in BOOLEAN,
              NEW via \in Directs \cup {Link}, Status(at, on, via)
       PROVE  TypeOK' /\ Joined'
  <2>1. status' = [at |-> at, on |-> on, route |-> via, known |-> TRUE]
    BY <1>11 DEF Status
  <2>2. at \in 0..(MaxTime + 1)
    BY <1>a, <1>11
  <2>3. status' \in [at: 0..(MaxTime + 1), on: BOOLEAN, route: Directs \cup {Link}, known: BOOLEAN]
    BY <2>1, <2>2
  <2>4. pending' \in [Calls -> Pending]
    BY <1>11, FailsTypes DEF TypeOK, Status
  <2>5. statuses' \in Nat
    BY <1>a, <1>11 DEF Status
  <2> QED BY <1>11, <2>3, <2>4, <2>5 DEF TypeOK, Joined, Status
<1>12. CASE StatusEvicted
  BY <1>b, <1>12 DEF TypeOK, Joined, StatusEvicted
<1>13. ASSUME forgotten' = [r \in Requests |-> forgotten[r] + (IF OutcomesOf(r) # {} THEN 1 ELSE 0)],
              outcomes' = <<>>
       PROVE  /\ forgotten' \in [Requests -> Nat]
              /\ outcomes' \in Seq(Outcome) /\ Len(outcomes') <= MaxOutcomes /\ DOMAIN outcomes' = {}
  BY <1>a, <1>13
<1>14. CASE Unbind
  <2>1. pending' \in [Calls -> Pending]
    BY <1>14, FailsTypes DEF Unbind
  <2>2. /\ forgotten' \in [Requests -> Nat]
        /\ outcomes' \in Seq(Outcome) /\ Len(outcomes') <= MaxOutcomes /\ DOMAIN outcomes' = {}
    BY <1>13, <1>14 DEF Unbind
  <2> QED BY <1>b, <1>14, <2>1, <2>2 DEF TypeOK, Joined, Unbind
<1>15. ASSUME NEW k \in Clients, Bind(k)
       PROVE  TypeOK' /\ Joined'
  <2>1. binds' \in Nat
    BY <1>a, <1>15 DEF Bind
  <2>2. /\ forgotten' \in [Requests -> Nat]
        /\ outcomes' \in Seq(Outcome) /\ Len(outcomes') <= MaxOutcomes /\ DOMAIN outcomes' = {}
    BY <1>13, <1>15 DEF Bind
  <2> QED BY <1>15, <2>1, <2>2 DEF TypeOK, Joined, Bind
<1>16. CASE Disconnects \/ Reconnects
  BY <1>16 DEF TypeOK, Joined, Disconnects, Reconnects
<1>17. CASE Tick
  <2>1. now' \in Nat
    BY <1>a, <1>17 DEF Tick
  <2> QED BY <1>17, <2>1 DEF TypeOK, Joined, Tick
<1>18. ASSUME NEW d \in Directs, Closes(d)
       PROVE  TypeOK' /\ Joined'
  BY <1>18 DEF TypeOK, Joined, Closes
<1>19. ASSUME NEW d \in Directs, RetireDirect(d)
       PROVE  TypeOK' /\ Joined'
  <2>1. pending' \in [Calls -> Pending]
    BY <1>19, FailsTypes DEF RetireDirect
  <2>2. status' \in [at: 0..(MaxTime + 1), on: BOOLEAN, route: Directs \cup {Link}, known: BOOLEAN]
    BY <1>b, <1>19 DEF TypeOK, RetireDirect
  <2> QED BY <1>19, <2>1, <2>2 DEF TypeOK, Joined, RetireDirect
<1>20. CASE UNCHANGED vars
  BY <1>20 DEF TypeOK, Joined, vars
<1> QED
  BY <1>1, <1>2, <1>3, <1>4, <1>6, <1>7, <1>8, <1>9, <1>10, <1>11, <1>12, <1>14, <1>15, <1>16, <1>17,
     <1>18, <1>19, <1>20 DEF Next

\* The bridge keeps its types (device_tools.py: DeviceToolBridge): no request has two
\* outcomes, the outcomes never exceed MAX_DEVICE_TOOL_OUTCOMES, and an execution past
\* its start waits on an entry that some execution made.
THEOREM BridgeTyping == Spec => [](TypeOK /\ Joined)
<1>1. Init => TypeOK /\ Joined
  <2> SUFFICES ASSUME Init PROVE TypeOK /\ Joined
    OBVIOUS
  <2>1. outcomes \in Seq(Outcome) /\ Len(outcomes) <= MaxOutcomes /\ DOMAIN outcomes = {}
    <3>1. outcomes = <<>> /\ MaxOutcomes \in Nat
      BY BridgeAssumption DEF Init
    <3> QED BY <3>1
  <2>2. status \in [at: 0..(MaxTime + 1), on: BOOLEAN, route: Directs \cup {Link}, known: BOOLEAN]
    <3>1. status = [at |-> 0, on |-> FALSE, route |-> Link, known |-> FALSE] /\ MaxTime \in Nat
      BY BridgeAssumption DEF Init, NoStatus
    <3>2. 0 \in 0..(MaxTime + 1)
      BY <3>1
    <3> QED BY <3>1, <3>2
  <2>3. calls \in [Calls -> Execution] /\ pending \in [Calls -> Pending]
    BY DEF Init, Execution, Pending, Fresh, NoPending
  <2> QED BY <2>1, <2>2, <2>3 DEF Init, TypeOK, Joined, Fresh
<1>2. TypeOK /\ Joined /\ [Next]_vars => TypeOK' /\ Joined'
  BY TypesStep
<1> QED BY <1>1, <1>2, PTL DEF Spec
-----------------------------------------------------------------------------
\* A mutation is sent once.

\* A step that sends nothing keeps a request paid: no send of it begins, and the bridge
\* still remembers it or counts that it forgot.
LEMMA PaidStays ==
  ASSUME TypeOK, TypeOK', NEW r \in Requests, Paid(r),
         sent' = sent, Sending(r)' \subseteq Sending(r), forgotten[r] <= forgotten'[r],
         Remembered(r) => Remembered(r)' \/ forgotten[r] + 1 <= forgotten'[r]
  PROVE  Paid(r)'
<1> DEFINE old == Sending(r) new == Sending(r)'
<1>1. /\ IsFiniteSet(old)
      /\ sent[r] + Cardinality(old) <= forgotten[r] + (IF Remembered(r) THEN 1 ELSE 0)
  BY DEF Paid
<1>2. /\ IsFiniteSet(new) /\ Cardinality(new) \in Nat /\ Cardinality(old) \in Nat
      /\ Cardinality(new) <= Cardinality(old)
  BY <1>1, FS_Subset, FS_CardinalityType
<1>3. sent[r] \in Nat /\ forgotten[r] \in Nat /\ forgotten'[r] \in Nat /\ sent'[r] = sent[r]
  BY DEF TypeOK
<1> HIDE DEF old, new
<1>4. sent'[r] + Cardinality(new) <= forgotten'[r] + (IF Remembered(r)' THEN 1 ELSE 0)
  BY <1>1, <1>2, <1>3
<1> QED BY <1>2, <1>4 DEF Paid, new

\* An execution that moves on, but to its send, is sending no more.
LEMMA SendingShrinks ==
  ASSUME TypeOK, NEW c \in Calls, NEW at \in {"queued", "written", "waiting", "done"},
         calls' = [calls EXCEPT ![c].at = at]
  PROVE  \A r \in Requests : Sending(r)' = Sending(r) \ {c}
<1>1. calls'[c].at = at /\ \A d \in Calls \ {c} : calls'[d] = calls[d]
  BY MovesOn
<1> QED BY <1>1 DEF Sending

\* The outcome of a call that ends is remembered, and what it evicts is counted.
LEMMA PaidAtEnd ==
  ASSUME TypeOK, TypeOK', NEW c \in Calls, NEW o \in Calls, NEW code \in {"ok", "failed"},
         Ends(c, o, code), sent' = sent, NEW r \in Requests \ Reads, Paid(r)
  PROVE  Paid(r)'
<1> DEFINE q == RequestOf[c]
<1>1. q \in Requests /\ PrintOf[o] \in {PrintOf[d] : d \in Calls}
  BY BridgeAssumption
<1>2. /\ outcomes' = Recorded(q, PrintOf[o], code) /\ calls' = [calls EXCEPT ![c].at = "done"]
      /\ slot' = IF slot[q] = o THEN [slot EXCEPT ![q] = NoCall] ELSE slot
  BY DEF Ends
<1>3. forgotten'[r] = forgotten[r]
        + (IF OutcomesOf(r) # {} /\ \A i \in DOMAIN outcomes' : outcomes'[i].request # r THEN 1 ELSE 0)
  BY <1>2 DEF Ends, Forgets
<1>4. forgotten[r] \in Nat
  BY DEF TypeOK
<1>5. Remembered(r) => Remembered(r)' \/ forgotten[r] + 1 <= forgotten'[r]
  <2>1. CASE q = r
    <3>1. \E k \in DOMAIN outcomes' : outcomes'[k].request = r
      BY <1>1, <1>2, <2>1, RecordedAre
    <3> QED BY <3>1 DEF Remembered, OutcomesOf
  <2>2. CASE q # r
    <3>1. slot'[r] = slot[r]
      BY <1>2, <2>2 DEF TypeOK
    <3>2. CASE OutcomesOf(r) = {}
      BY <3>1, <3>2 DEF Remembered
    <3>3. CASE OutcomesOf(r) # {}
      BY <1>3, <1>4, <3>3 DEF Remembered, OutcomesOf
    <3> QED BY <3>2, <3>3
  <2> QED BY <2>1, <2>2
<1>6. Sending(r)' \subseteq Sending(r)
  BY <1>2, SendingShrinks
<1>7. forgotten[r] <= forgotten'[r]
  BY <1>3, <1>4
<1> QED BY <1>5, <1>6, <1>7, PaidStays

\* Every step keeps every mutation paid.
LEMMA PaidStep ==
  ASSUME TypeOK, TypeOK', Joined, AllPaid, [Next]_vars
  PROVE  AllPaid'
<1> SUFFICES ASSUME NEW r \in Requests \ Reads
             PROVE  Paid(r)'
  BY DEF AllPaid
<1>a. /\ Paid(r) /\ r \in Requests /\ forgotten[r] \in Nat /\ sent[r] \in Nat
      /\ \A c \in Calls : RequestOf[c] \in Requests
  BY BridgeAssumption DEF AllPaid, TypeOK
<1>q. ASSUME slot' = slot, outcomes' = outcomes, sent' = sent, forgotten' = forgotten, Sending(r)' \subseteq Sending(r)
      PROVE  Paid(r)'
  BY <1>a, <1>q, PaidStays DEF Remembered, OutcomesOf
<1>1. ASSUME NEW c \in Calls, Execute(c)
      PROVE  Paid(r)'
  <2>1. calls[c].at = "idle" /\ calls' = [calls EXCEPT ![c] = [at |-> "queued", client |-> client, joins |-> NoCall]]
    BY <1>1 DEF Execute, Fresh
  <2>2. Sending(r)' \subseteq Sending(r)
    BY <2>1 DEF Sending, TypeOK
  <2> QED BY <1>1, <1>q, <2>2 DEF Execute
<1>2. ASSUME NEW c \in Calls, Start(c)
      PROVE  Paid(r)'
  <2>s. sent' = sent /\ forgotten' = forgotten /\ calls[c].at = "queued"
    BY <1>2 DEF Start
  <2>1. CASE Answers(c, "failed")
    <3>1. Sending(r)' \subseteq Sending(r)
      BY <1>a, <2>1, SendingShrinks DEF Answers
    <3> QED BY <1>q, <2>s, <2>1, <3>1 DEF Answers
  <2>2. CASE Joins(c)
    <3> DEFINE new == [calls[c] EXCEPT !.at = "waiting", !.joins = slot[RequestOf[c]]]
    <3>1. calls' = [calls EXCEPT ![c] = new] /\ new.at = "waiting"
      <4>1. calls \in [Calls -> Execution] /\ calls[c] \in Execution
        BY DEF TypeOK
      <4>2. new.at = "waiting"
        BY <4>1 DEF Execution
      <4> QED BY <2>2, <4>1, <4>2 DEF Joins
    <3> HIDE DEF new
    <3>2. calls'[c].at = "waiting" /\ \A d \in Calls \ {c} : calls'[d] = calls[d]
      BY <3>1 DEF TypeOK
    <3>3. Sending(r)' \subseteq Sending(r)
      BY <3>2 DEF Sending
    <3> QED BY <1>q, <2>s, <2>2, <3>3 DEF Joins
  <2>3. CASE Replays(c)
    <3>1. PICK i \in OutcomesOf(RequestOf[c]) : outcomes' = Append(Others(RequestOf[c]), outcomes[i])
      BY <2>3 DEF Replays
    <3>2. OutcomesOf(r) # {} => \E k \in DOMAIN outcomes' : outcomes'[k].request = r
      <4>1. RequestOf[c] \in Requests /\ r \in Requests
        BY <1>a
      <4>3. PICK s \in Requests : s = RequestOf[c]
        BY <4>1
      <4>4. PICK kept : kept = Append(Others(s), outcomes[i])
        OBVIOUS
      <4>5. i \in OutcomesOf(s) /\ outcomes' = kept
        BY <3>1, <4>3, <4>4
      <4>6. \A q \in Requests : OutcomesOf(q) # {} => \E k \in DOMAIN kept : kept[k].request = q
        BY <4>4, <4>5, ReplaysTypes
      <4>2. \A q \in Requests : OutcomesOf(q) # {} => \E k \in DOMAIN outcomes' : outcomes'[k].request = q
        BY <4>5, <4>6
      <4> QED BY <4>1, <4>2
    <3>3. Remembered(r) => Remembered(r)'
      BY <2>3, <3>2 DEF Remembered, OutcomesOf, Replays
    <3>4. Sending(r)' \subseteq Sending(r)
      <4>1. calls' = [calls EXCEPT ![c].at = "done"]
        BY <2>3 DEF Replays
      <4>2. Sending(r)' = Sending(r) \ {c}
        BY <1>a, <4>1, SendingShrinks
      <4> QED BY <4>2
    <3> QED BY <1>a, <2>s, <3>3, <3>4, PaidStays
  <2>4. CASE Sends(c)
    <3> DEFINE new == [calls[c] EXCEPT !.at = "sending", !.joins = c]
    <3>1. calls' = [calls EXCEPT ![c] = new] /\ new.at = "sending"
      <4>1. calls \in [Calls -> Execution] /\ calls[c] \in Execution
        BY DEF TypeOK
      <4>2. new.at = "sending"
        BY <4>1 DEF Execution
      <4> QED BY <2>4, <4>1, <4>2 DEF Sends
    <3> HIDE DEF new
    <3>2. calls'[c].at = "sending" /\ \A d \in Calls \ {c} : calls'[d] = calls[d]
      BY <3>1 DEF TypeOK
    <3>3. CASE RequestOf[c] # r
      <4>1. Sending(r)' \subseteq Sending(r)
        BY <3>2, <3>3 DEF Sending
      <4>2. slot'[r] = slot[r] /\ outcomes' = outcomes
        BY <2>4, <3>3 DEF Sends, TypeOK
      <4> QED BY <1>a, <2>s, <4>1, <4>2, PaidStays DEF Remembered, OutcomesOf
    <3>4. CASE RequestOf[c] = r
      <4>1. ~Remembered(r) /\ Remembered(r)'
        <5>1. slot[r] = NoCall /\ OutcomesOf(r) = {} /\ slot' = [slot EXCEPT ![r] = c]
          BY <2>4, <3>4 DEF Sends
        <5>2. slot'[r] = c /\ c # NoCall
          <6>1. c # NoCall /\ slot \in [Requests -> Calls \cup {NoCall}]
            <7>1. NoCall \notin Calls
              BY BridgeAssumption
            <7> QED BY <7>1 DEF TypeOK
          <6> QED BY <1>a, <5>1, <6>1
        <5> QED BY <5>1, <5>2 DEF Remembered
      <4>2. Sending(r)' = Sending(r) \cup {c} /\ c \notin Sending(r)
        BY <2>s, <3>2, <3>4 DEF Sending
      <4>3. IsFiniteSet(Sending(r)) /\ sent[r] + Cardinality(Sending(r)) <= forgotten[r]
        BY <1>a, <4>1 DEF Paid
      <4>4. /\ IsFiniteSet(Sending(r)') /\ Cardinality(Sending(r)) \in Nat
            /\ Cardinality(Sending(r)') = Cardinality(Sending(r)) + 1
        BY <4>2, <4>3, FS_AddElement, FS_CardinalityType
      <4>5. sent'[r] + Cardinality(Sending(r)') <= forgotten'[r] + 1
        BY <1>a, <2>s, <4>3, <4>4
      <4> QED BY <4>1, <4>4, <4>5 DEF Paid
    <3> QED BY <3>3, <3>4
  <2> QED BY <1>2, <2>1, <2>2, <2>3, <2>4 DEF Start
<1>3. ASSUME NEW c \in Calls, Crosses(c)
      PROVE  Paid(r)'
  <2>1. /\ Sending(r)' = Sending(r) \ {c} /\ calls[c].at = "sending"
        /\ Remembered(r)' = Remembered(r) /\ forgotten' = forgotten
        /\ sent' = [sent EXCEPT ![RequestOf[c]] = @ + 1]
    BY <1>a, <1>3, SendingShrinks DEF Crosses, Remembered, OutcomesOf
  <2>2. /\ IsFiniteSet(Sending(r))
        /\ sent[r] + Cardinality(Sending(r)) <= forgotten[r] + (IF Remembered(r) THEN 1 ELSE 0)
    BY <1>a DEF Paid
  <2>3. /\ IsFiniteSet(Sending(r)') /\ Cardinality(Sending(r)) \in Nat
        /\ Cardinality(Sending(r)') = IF c \in Sending(r) THEN Cardinality(Sending(r)) - 1 ELSE Cardinality(Sending(r))
    BY <2>1, <2>2, FS_RemoveElement, FS_CardinalityType
  <2>4. sent'[r] = IF c \in Sending(r) THEN sent[r] + 1 ELSE sent[r]
    BY <1>a, <2>1 DEF Sending, TypeOK
  <2>5. sent'[r] + Cardinality(Sending(r)') = sent[r] + Cardinality(Sending(r))
    BY <1>a, <2>3, <2>4
  <2> QED BY <2>1, <2>2, <2>3, <2>5 DEF Paid
<1>4. ASSUME NEW c \in Calls, Returns(c)
      PROVE  Paid(r)'
  <2>1. Sending(r)' \subseteq Sending(r)
    <3>1. calls' = [calls EXCEPT ![c].at = "waiting"]
      BY <1>4 DEF Returns
    <3> QED BY <1>a, <3>1, SendingShrinks
  <2> QED BY <1>4, <1>q, <2>1 DEF Returns
<1>6. ASSUME NEW c \in Calls, SendFails(c)
      PROVE  Paid(r)'
  BY <1>a, <1>6, PaidAtEnd DEF SendFails
<1>7. ASSUME NEW c \in Calls, Resolves(c)
      PROVE  Paid(r)'
  <2>1. calls[c].joins \in Calls
    BY <1>7 DEF Resolves, Joined
  <2> QED BY <1>a, <1>7, <2>1, PaidAtEnd DEF Resolves
<1>8. ASSUME NEW c \in Calls, TimesOut(c)
      PROVE  Paid(r)'
  <2>1. calls[c].joins \in Calls
    BY <1>8 DEF TimesOut, Joined
  <2> QED BY <1>a, <1>8, <2>1, PaidAtEnd DEF TimesOut
<1>9. ASSUME NEW c \in Calls, Cancel(c)
      PROVE  Paid(r)'
  <2>1. Sending(r)' \subseteq Sending(r)
    BY <1>a, <1>9, SendingShrinks DEF Cancel
  <2>2. CASE RequestOf[c] = r
    <3>1. forgotten'[r] = forgotten[r] + 1
      <4>1. forgotten \in [Requests -> Nat] /\ r \in Requests
        BY <1>a DEF TypeOK
      <4>2. forgotten' = [forgotten EXCEPT ![r] = @ + 1]
        BY <1>9, <2>2 DEF Cancel
      <4> QED BY <4>1, <4>2
    <3> QED BY <1>a, <1>9, <2>1, <3>1, PaidStays DEF Cancel
  <2>3. CASE RequestOf[c] # r
    <3>1. forgotten'[r] = forgotten[r] /\ slot'[r] = slot[r] /\ outcomes' = outcomes
      BY <1>9, <2>3, <1>a DEF Cancel, TypeOK
    <3> QED BY <1>a, <1>9, <2>1, <3>1, PaidStays DEF Cancel, Remembered, OutcomesOf
  <2> QED BY <2>2, <2>3
<1>10. ASSUME NEW q \in Requests, NEW via, Result(q, via)
       PROVE  Paid(r)'
  BY <1>10, <1>q DEF Result, Sending
<1>11. ASSUME NEW at, NEW on, NEW via, Status(at, on, via)
       PROVE  Paid(r)'
  BY <1>11, <1>q DEF Status, Sending
<1>12. CASE StatusEvicted
  BY <1>12, <1>q DEF StatusEvicted, Sending
<1>13. ASSUME forgotten' = [q \in Requests |-> forgotten[q] + (IF OutcomesOf(q) # {} THEN 1 ELSE 0)],
              slot' = slot, sent' = sent, calls' = calls
       PROVE  Paid(r)'
  <2>1. forgotten'[r] = forgotten[r] + (IF OutcomesOf(r) # {} THEN 1 ELSE 0)
    BY <1>13
  <2>2. Remembered(r) => Remembered(r)' \/ forgotten[r] + 1 <= forgotten'[r]
    BY <1>a, <1>13, <2>1 DEF Remembered
  <2>3. forgotten[r] <= forgotten'[r] /\ Sending(r)' \subseteq Sending(r)
    BY <1>a, <1>13, <2>1 DEF Sending
  <2> QED BY <1>a, <1>13, <2>2, <2>3, PaidStays
<1>14. CASE Unbind
  BY <1>13, <1>14 DEF Unbind
<1>15. ASSUME NEW k \in Clients, Bind(k)
       PROVE  Paid(r)'
  BY <1>13, <1>15 DEF Bind
<1>16. CASE Disconnects \/ Reconnects \/ Tick
  BY <1>16, <1>q DEF Disconnects, Reconnects, Tick, Sending
<1>18. ASSUME NEW d \in Directs, Closes(d) \/ RetireDirect(d)
       PROVE  Paid(r)'
  BY <1>18, <1>q DEF Closes, RetireDirect, Sending
<1>20. CASE UNCHANGED vars
  BY <1>20, <1>q DEF vars, Sending
<1> QED
  BY <1>1, <1>2, <1>3, <1>4, <1>6, <1>7, <1>8, <1>9, <1>10, <1>11, <1>12, <1>14, <1>15, <1>16,
     <1>18, <1>20 DEF Next

\* A mutation goes to the phone again only when the bridge has lost the memory of it
\* (device_tools.py, _execute, "This is one send"), however many executions, connections,
\* retries and time-outs there are.
THEOREM MutationGoesOnce == Spec => []MutationSentOnce
<1>1. Init => AllPaid
  <2> SUFFICES ASSUME Init, NEW r \in Requests \ Reads PROVE Paid(r)
    BY DEF AllPaid
  <2>1. Sending(r) = {}
    BY DEF Init, Fresh, Sending
  <2>2. sent[r] = 0 /\ forgotten[r] = 0
    BY DEF Init
  <2> QED BY <2>1, <2>2, FS_EmptySet DEF Paid
<1>2. TypeOK /\ Joined /\ AllPaid /\ [Next]_vars => AllPaid'
  BY TypesStep, PaidStep
<1>3. TypeOK /\ AllPaid => MutationSentOnce
  <2> SUFFICES ASSUME TypeOK, AllPaid, NEW r \in Requests \ Reads PROVE sent[r] <= 1 + forgotten[r]
    BY DEF MutationSentOnce
  <2>1. /\ IsFiniteSet(Sending(r))
        /\ sent[r] + Cardinality(Sending(r)) <= forgotten[r] + (IF Remembered(r) THEN 1 ELSE 0)
    BY DEF AllPaid, Paid
  <2>2. Cardinality(Sending(r)) \in Nat /\ sent[r] \in Nat /\ forgotten[r] \in Nat
    BY <2>1, FS_CardinalityType DEF TypeOK
  <2> QED BY <2>1, <2>2
<1> QED BY <1>1, <1>2, <1>3, BridgeTyping, PTL DEF Spec
-----------------------------------------------------------------------------
(* ProviderLeases.                                                           *)

\* The sends that hold a lease of the provider, and the threads that retire one.
Users(p) == {s \in Senders : sender[s] = p}
Retirers == Admins \cup Senders
Busy(a) == admin[a].at # "idle"

LeasesTypes ==
  /\ installed \in Providers \cup {NoProvider}
  /\ identity \subseteq Providers
  /\ inflight \in [Providers -> Nat]
  /\ sender \in [Senders -> Providers \cup {NoProvider}]
  /\ admin \in [Retirers -> [at: {"idle", "retire", "wait", "close", "shut"},
                             provider: Providers \cup {NoProvider}]]

\* What is known of providers: nothing of those Python may allocate again, nothing bad of
\* the one that is installed; who waits, waits for one that leases no more.
Known ==
  /\ installed # NoProvider => installed \in identity \ retired
  /\ retired \subseteq identity /\ closing \subseteq retired /\ events \subseteq retired

\* A thread that retires a provider is the only one to do so, and the provider is not
\* installed any more; nobody holds it once it is about to be closed.
Custodian(a) == Busy(a) =>
  /\ admin[a].provider \in identity \ {installed}
  /\ admin[a].at = "retire" => admin[a].provider \notin retired
  /\ admin[a].at \in {"wait", "close"} => admin[a].provider \in retired \ closing
  /\ admin[a].at = "shut" => admin[a].provider \in closing
  /\ admin[a].at \in {"close", "shut"} => inflight[admin[a].provider] = 0
Alone == \A a, b \in Retirers :
  Busy(a) /\ Busy(b) /\ admin[a].provider = admin[b].provider => a = b

\* The count of a provider is that of its sends, which are of known providers; those of a
\* retired one have somebody to wake.
Accounted(p) ==
  /\ inflight[p] = Cardinality(Users(p))
  /\ inflight[p] > 0 => p \in identity /\ (p \in retired => p \in events)

LeasesInv ==
  /\ LeasesTypes /\ Known /\ Alone
  /\ \A a \in Retirers : Custodian(a)
  /\ \A p \in Providers : Accounted(p)
  /\ ClosedOnceUnused

LEMMA UsersCounted ==
  ASSUME LeaseAssumption, NEW p
  PROVE  /\ IsFiniteSet(Users(p)) /\ Cardinality(Users(p)) \in 0 .. Cardinality(Senders)
         /\ Cardinality(Users(p)) = 0 <=> Users(p) = {}
<1>1. IsFiniteSet(Users(p)) /\ Cardinality(Users(p)) <= Cardinality(Senders)
  BY FS_Subset DEF Users, LeaseAssumption
<1>2. Cardinality(Users(p)) \in Nat /\ Cardinality(Senders) \in Nat
  BY <1>1, FS_CardinalityType DEF LeaseAssumption
<1> QED BY <1>1, <1>2, FS_EmptySet

\* A provider with a send has a count above zero, so is known.
LEMMA HeldIsKnown ==
  ASSUME LeaseAssumption, LeasesInv, NEW s \in Senders, sender[s] # NoProvider
  PROVE  /\ sender[s] \in identity /\ inflight[sender[s]] \in Nat \ {0}
         /\ sender[s] \in retired => sender[s] \in events
<1> DEFINE p == sender[s]
<1>1. p \in Providers
  BY DEF LeasesInv, LeasesTypes
<1>2. s \in Users(p)
  BY DEF Users
<1>3. Cardinality(Users(p)) \in Nat \ {0}
  BY <1>2, UsersCounted
<1> QED BY <1>1, <1>3 DEF LeasesInv, Accounted

\* A provider nobody has an object of has no sends.
LEMMA NewIsFree ==
  ASSUME LeaseAssumption, LeasesInv, NEW p \in Installable
  PROVE  /\ p \in Providers /\ Cardinality(Users(p)) = 0
         /\ p \notin retired /\ p \notin closing /\ p \notin events
         /\ \A a \in Retirers : Busy(a) => admin[a].provider # p
<1>1. p \in Providers /\ p \notin identity
  BY DEF Installable
<1>2. Users(p) = {}
  BY <1>1, HeldIsKnown DEF Users, LeaseAssumption
<1> QED BY <1>1, <1>2, FS_EmptySet DEF LeasesInv, Known, Custodian

LEMMA LeaseCounts ==
  ASSUME LeaseAssumption, NEW s \in Senders, NEW p \in Providers,
         sender \in [Senders -> Providers \cup {NoProvider}],
         sender[s] = NoProvider, sender' = [sender EXCEPT ![s] = p]
  PROVE  \A q \in Providers : Cardinality(Users(q)') =
           IF q = p THEN Cardinality(Users(q)) + 1 ELSE Cardinality(Users(q))
<1> SUFFICES ASSUME NEW q \in Providers
             PROVE  Cardinality(Users(q)') =
                      IF q = p THEN Cardinality(Users(q)) + 1 ELSE Cardinality(Users(q))
  OBVIOUS
<1>0. NoProvider \notin Providers
  BY DEF LeaseAssumption
<1>1. Users(q)' = IF q = p THEN Users(q) \cup {s} ELSE Users(q)
  BY <1>0 DEF Users
<1>2. s \notin Users(q)
  BY <1>0 DEF Users
<1> QED BY <1>1, <1>2, UsersCounted, FS_AddElement

LEMMA ReleaseCounts ==
  ASSUME LeaseAssumption, NEW s \in Senders,
         sender \in [Senders -> Providers \cup {NoProvider}],
         sender[s] # NoProvider, sender' = [sender EXCEPT ![s] = NoProvider]
  PROVE  \A q \in Providers : Cardinality(Users(q)') =
           IF q = sender[s] THEN Cardinality(Users(q)) - 1 ELSE Cardinality(Users(q))
<1> SUFFICES ASSUME NEW q \in Providers
             PROVE  Cardinality(Users(q)') =
                      IF q = sender[s] THEN Cardinality(Users(q)) - 1 ELSE Cardinality(Users(q))
  OBVIOUS
<1>0. NoProvider \notin Providers
  BY DEF LeaseAssumption
<1>1. Users(q)' = IF q = sender[s] THEN Users(q) \ {s} ELSE Users(q)
  BY <1>0 DEF Users
<1>2. q = sender[s] => s \in Users(q)
  BY DEF Users
<1> QED BY <1>1, <1>2, UsersCounted, FS_RemoveElement

LEMMA MakeKeeps ==
  ASSUME LeaseAssumption, LeasesInv, NEW p \in Providers, Make(p)
  PROVE  LeasesInv'
<1>0. /\ installed = NoProvider /\ p \in Installable /\ installed' = p
      /\ identity' = identity \cup {p} /\ inflight' = [inflight EXCEPT ![p] = 0]
      /\ retired' = retired \ {p} /\ events' = events \ {p} /\ closing' = closing \ {p}
      /\ UNCHANGED <<sender, admin, broken>>
  BY DEF Make
<1>n. /\ Cardinality(Users(p)) = 0 /\ p \notin retired /\ p \notin closing /\ p \notin events
      /\ \A a \in Retirers : Busy(a) => admin[a].provider # p
  BY <1>0, NewIsFree
<1>c. /\ LeasesTypes /\ Known /\ Alone /\ ~broken
      /\ \A a \in Retirers : Custodian(a)
      /\ \A q \in Providers : Accounted(q)
  BY DEF LeasesInv, ClosedOnceUnused
<1>1. LeasesTypes'
  BY <1>0, <1>c DEF LeasesTypes
<1>2. Known'
  BY <1>0, <1>n, <1>c DEF Known
<1>3. Alone'
  BY <1>0, <1>c DEF Alone, Busy
<1>4. ASSUME NEW a \in Retirers PROVE Custodian(a)'
  <2>1. Custodian(a) /\ (Busy(a) => admin[a].provider \in Providers)
    BY <1>c DEF LeasesTypes, Custodian
  <2> QED BY <2>1, <1>0, <1>n, <1>c DEF Custodian, Busy, LeasesTypes
<1>5. ASSUME NEW q \in Providers PROVE Accounted(q)'
  <2>1. Users(q)' = Users(q)
    BY <1>0 DEF Users
  <2> QED BY <2>1, <1>0, <1>n, <1>c DEF Accounted, LeasesTypes
<1> QED BY <1>0, <1>c, <1>1, <1>2, <1>3, <1>4, <1>5 DEF LeasesInv, ClosedOnceUnused

LEMMA LeaseKeeps ==
  ASSUME LeaseAssumption, LeasesInv, NEW s \in Senders, Lease(s)
  PROVE  LeasesInv'
<1> DEFINE p == installed
<1>c. /\ LeasesTypes /\ Known /\ Alone /\ ~broken
      /\ \A a \in Retirers : Custodian(a)
      /\ \A q \in Providers : Accounted(q)
  BY DEF LeasesInv, ClosedOnceUnused
<1>0. /\ sender[s] = NoProvider /\ p \in Providers /\ p \in identity /\ p \notin retired
      /\ inflight' = [inflight EXCEPT ![p] = @ + 1] /\ sender' = [sender EXCEPT ![s] = p]
      /\ UNCHANGED <<installed, identity, retired, events, closing, admin, broken>>
  BY <1>c DEF Lease, MayLease, LeasesTypes
<1>n. \A q \in Providers : Cardinality(Users(q)') =
        IF q = p THEN Cardinality(Users(q)) + 1 ELSE Cardinality(Users(q))
  BY <1>0, <1>c, LeaseCounts DEF LeasesTypes
<1>1. LeasesTypes'
  BY <1>0, <1>c DEF LeasesTypes
<1>2. Known' /\ Alone'
  BY <1>0, <1>c DEF Known, Alone, Busy
<1>4. ASSUME NEW a \in Retirers PROVE Custodian(a)'
  BY <1>0, <1>c DEF Custodian, Busy, LeasesTypes
<1>5. ASSUME NEW q \in Providers PROVE Accounted(q)'
  BY <1>0, <1>n, <1>c DEF Accounted, LeasesTypes
<1> QED BY <1>0, <1>c, <1>1, <1>2, <1>4, <1>5 DEF LeasesInv, ClosedOnceUnused

\* The last lease of a retired provider wakes its custodian and closes nothing itself.
LEMMA ReleaseKeeps ==
  ASSUME LeaseAssumption, LeasesInv, NEW s \in Senders, Release(s)
  PROVE  LeasesInv'
<1> DEFINE p == sender[s]
           last == inflight[p] <= 1
<1>c. /\ LeasesTypes /\ Known /\ Alone /\ ~broken
      /\ \A a \in Retirers : Custodian(a)
      /\ \A q \in Providers : Accounted(q)
  BY DEF LeasesInv, ClosedOnceUnused
<1>h. /\ p # NoProvider /\ p \in Providers /\ p \in identity /\ inflight[p] \in Nat \ {0}
      /\ p \in retired => p \in events
  BY <1>c, HeldIsKnown DEF Release, LeasesTypes
<1>0. /\ inflight' = [inflight EXCEPT ![p] = IF last THEN 0 ELSE @ - 1]
      /\ events' = IF last THEN events \ {p} ELSE events
      /\ sender' = [sender EXCEPT ![s] = NoProvider]
      /\ UNCHANGED <<installed, identity, retired, closing, admin, broken>>
  BY <1>h DEF Release, Last
<1>i. inflight' = [inflight EXCEPT ![p] = inflight[p] - 1] /\ (last => inflight'[p] = 0)
  <2>1. (IF last THEN 0 ELSE inflight[p] - 1) = inflight[p] - 1
    BY <1>h
  <2> QED BY <2>1, <1>0, <1>h, <1>c DEF LeasesTypes
<1>n. \A q \in Providers : Cardinality(Users(q)') =
        IF q = p THEN Cardinality(Users(q)) - 1 ELSE Cardinality(Users(q))
  BY <1>0, <1>h, <1>c, ReleaseCounts DEF LeasesTypes
<1>1. LeasesTypes'
  BY <1>0, <1>i, <1>h, <1>c DEF LeasesTypes
<1>2. Known' /\ Alone'
  BY <1>0, <1>c DEF Known, Alone, Busy
<1>4. ASSUME NEW a \in Retirers PROVE Custodian(a)'
  <2>1. Custodian(a)
    BY <1>c
  <2>2. Busy(a) /\ admin[a].at \in {"close", "shut"} => admin[a].provider # p
    BY <2>1, <1>h DEF Custodian
  <2> QED BY <2>1, <2>2, <1>0, <1>c, <1>h DEF Custodian, Busy, LeasesTypes
<1>5. ASSUME NEW q \in Providers PROVE Accounted(q)'
  <2>1. Accounted(q) /\ inflight[q] \in Nat
    BY <1>c DEF LeasesTypes
  <2>2. CASE q = p
    BY <2>1, <2>2, <1>0, <1>h, <1>i, <1>n, <1>c DEF Accounted, LeasesTypes
  <2>3. CASE q # p
    <3>1. inflight'[q] = inflight[q] /\ (q \in events => q \in events')
      BY <2>3, <1>0, <1>c DEF LeasesTypes
    <3> QED BY <2>1, <2>3, <3>1, <1>0, <1>n DEF Accounted
  <2> QED BY <2>2, <2>3
<1> QED BY <1>0, <1>c, <1>1, <1>2, <1>4, <1>5 DEF LeasesInv, ClosedOnceUnused

LEMMA ReplaceKeeps ==
  ASSUME LeaseAssumption, LeasesInv, NEW b \in Admins, NEW p \in Providers \cup {NoProvider},
         Replace(b, p)
  PROVE  LeasesInv'
<1> DEFINE old == installed
<1>c. /\ LeasesTypes /\ Known /\ Alone /\ ~broken
      /\ \A a \in Retirers : Custodian(a)
      /\ \A q \in Providers : Accounted(q)
  BY DEF LeasesInv, ClosedOnceUnused
<1>0. /\ ~Busy(b) /\ old # NoProvider /\ old \in identity \ retired /\ installed' = p
      /\ retired' = retired \ {p} /\ events' = events \ {p} /\ closing' = closing \ {p}
      /\ admin' = [admin EXCEPT ![b] = [at |-> "retire", provider |-> old]]
      /\ UNCHANGED <<sender, broken>> /\ b \in Retirers
  BY <1>c DEF Replace, Busy, Idle, Known, Retirers
<1>p. /\ p = NoProvider => identity' = identity /\ inflight' = inflight
      /\ p # NoProvider => /\ p \in Installable /\ identity' = identity \cup {p}
                           /\ inflight' = [inflight EXCEPT ![p] = 0]
  BY DEF Replace
<1>n. /\ p # NoProvider => p \in Providers /\ Cardinality(Users(p)) = 0
      /\ p \notin retired /\ p \notin closing /\ p \notin events
      /\ \A a \in Retirers : Busy(a) => admin[a].provider # p
      /\ p # old
  <2>1. CASE p = NoProvider
    <3>1. NoProvider \notin identity
      BY <1>c DEF LeasesTypes, LeaseAssumption
    <3> QED BY <2>1, <3>1, <1>0, <1>c DEF Known, Custodian
  <2>2. CASE p # NoProvider
    <3>1. p \notin identity
      BY <2>2, <1>p DEF Installable
    <3> QED BY <2>2, <3>1, <1>0, <1>p, NewIsFree
  <2> QED BY <2>1, <2>2
<1>i. identity \subseteq identity' /\ \A q \in Providers \ {p} : inflight'[q] = inflight[q]
  BY <1>p, <1>c DEF LeasesTypes
<1>1. LeasesTypes'
  <2>1. identity' \subseteq Providers /\ inflight' \in [Providers -> Nat]
    BY <1>p, <1>n, <1>c DEF LeasesTypes
  <2>2. admin' \in [Retirers -> [at: {"idle", "retire", "wait", "close", "shut"},
                                 provider: Providers \cup {NoProvider}]]
    BY <1>0, <1>c DEF LeasesTypes
  <2> QED BY <2>1, <2>2, <1>0, <1>c DEF LeasesTypes, Retirers
<1>2. Known'
  <2>1. p # NoProvider => p \in identity'
    BY <1>p
  <2> QED BY <2>1, <1>0, <1>n, <1>i, <1>c DEF Known
<1>a. \A a \in Retirers : /\ admin'[a] = IF a = b THEN [at |-> "retire", provider |-> old] ELSE admin[a]
                          /\ Busy(a)' <=> a = b \/ Busy(a)
  BY <1>0, <1>c DEF LeasesTypes, Busy
<1>o. \A a \in Retirers : Busy(a) => admin[a].provider # old /\ admin[a].provider \in Providers \ {p}
  BY <1>c, <1>n DEF Custodian, LeasesTypes
<1>3. Alone'
  BY <1>a, <1>o, <1>0, <1>c DEF Alone
<1>4. ASSUME NEW a \in Retirers PROVE Custodian(a)'
  <2>1. CASE a = b
    BY <2>1, <1>a, <1>0, <1>n, <1>i DEF Custodian
  <2>2. CASE a # b
    <3>1. Custodian(a)
      BY <1>c
    <3> QED BY <2>2, <3>1, <1>a, <1>o, <1>0, <1>n, <1>i DEF Custodian
  <2> QED BY <2>1, <2>2
<1>5. ASSUME NEW q \in Providers PROVE Accounted(q)'
  <2>1. Users(q)' = Users(q)
    BY <1>0 DEF Users
  <2>2. CASE q = p
    <3>1. p # NoProvider
      BY <2>2 DEF LeaseAssumption
    <3>2. inflight'[q] = 0
      BY <2>2, <3>1, <1>p, <1>c DEF LeasesTypes
    <3> QED BY <2>1, <2>2, <3>1, <3>2, <1>n DEF Accounted
  <2>3. CASE q # p
    <3>1. Accounted(q) /\ inflight'[q] = inflight[q]
      BY <2>3, <1>i, <1>c
    <3> QED BY <2>1, <2>3, <3>1, <1>0, <1>i DEF Accounted
  <2> QED BY <2>2, <2>3
<1> QED BY <1>0, <1>c, <1>1, <1>2, <1>3, <1>4, <1>5 DEF LeasesInv, ClosedOnceUnused

LEMMA RetireKeeps ==
  ASSUME LeaseAssumption, LeasesInv, NEW b \in Retirers, Retire(b) \/ Woken(b)
  PROVE  LeasesInv'
<1> DEFINE p == admin[b].provider
<1>c. /\ LeasesTypes /\ Known /\ Alone /\ ~broken
      /\ \A a \in Retirers : Custodian(a)
      /\ \A q \in Providers : Accounted(q)
  BY DEF LeasesInv, ClosedOnceUnused
<1>b. Busy(b) /\ p \in Providers /\ p \in identity /\ p # installed /\ Accounted(p)
      /\ inflight[p] \in Nat
  <2>1. Busy(b)
    BY DEF Retire, Woken, Busy
  <2> QED BY <2>1, <1>c DEF Custodian, LeasesTypes
<1>0. PICK at \in {"wait", "close"} :
        /\ admin' = [admin EXCEPT ![b].at = at]
        /\ p \in retired' /\ p \notin closing
        /\ at = "close" => inflight[p] = 0
        /\ retired \subseteq retired' /\ retired' \subseteq retired \cup {p}
        /\ events \subseteq events' /\ events' \subseteq events \cup {p}
        /\ inflight[p] > 0 => p \in events'
        /\ UNCHANGED <<installed, identity, inflight, closing, sender, broken>>
  <2>1. CASE Retire(b)
    <3>1. p \notin retired /\ p \notin closing
      BY <2>1, <1>b, <1>c DEF Retire, Custodian, Known
    <3>2. CASE MustWait(p)
      BY <2>1, <3>1, <3>2, <1>b DEF Retire, MustWait
    <3>3. CASE ~MustWait(p)
      BY <2>1, <3>1, <3>3, <1>b DEF Retire, MustWait
    <3> QED BY <3>2, <3>3
  <2>2. CASE Woken(b)
    <3>1. p \in retired /\ p \notin closing /\ p \notin events
      BY <2>2, <1>b, <1>c DEF Woken, Custodian
    <3>2. inflight[p] = 0
      BY <3>1, <1>b DEF Accounted
    <3> QED BY <2>2, <3>1, <3>2 DEF Woken
  <2> QED BY <2>1, <2>2
<1>1. LeasesTypes'
  BY <1>0, <1>c DEF LeasesTypes
<1>2. Known'
  BY <1>0, <1>b, <1>c DEF Known
<1>a. \A a \in Retirers : /\ admin'[a].provider = admin[a].provider
                          /\ admin'[a].at = IF a = b THEN at ELSE admin[a].at
                          /\ Busy(a)' <=> Busy(a)
  <2>1. \A a \in Retirers : /\ admin'[a].provider = admin[a].provider
                            /\ admin'[a].at = IF a = b THEN at ELSE admin[a].at
    BY <1>0, <1>c DEF LeasesTypes
  <2> QED BY <2>1, <1>b DEF Busy
<1>3. Alone'
  BY <1>a, <1>c DEF Alone
<1>4. ASSUME NEW a \in Retirers PROVE Custodian(a)'
  <2>1. CASE a = b
    BY <2>1, <1>a, <1>0, <1>b DEF Custodian
  <2>2. CASE a # b
    <3>1. Custodian(a) /\ (Busy(a) => admin[a].provider # p)
      BY <2>2, <1>c, <1>b DEF Alone
    <3> QED BY <2>2, <3>1, <1>a, <1>0 DEF Custodian
  <2> QED BY <2>1, <2>2
<1>5. ASSUME NEW q \in Providers PROVE Accounted(q)'
  <2>1. Users(q)' = Users(q) /\ Accounted(q)
    BY <1>0, <1>c DEF Users
  <2> QED BY <2>1, <1>0 DEF Accounted
<1> QED BY <1>0, <1>c, <1>1, <1>2, <1>3, <1>4, <1>5 DEF LeasesInv, ClosedOnceUnused

LEMMA CloseKeeps ==
  ASSUME LeaseAssumption, LeasesInv, NEW b \in Retirers, Close(b)
  PROVE  LeasesInv'
<1> DEFINE p == admin[b].provider
<1>c. /\ LeasesTypes /\ Known /\ Alone /\ ~broken
      /\ \A a \in Retirers : Custodian(a)
      /\ \A q \in Providers : Accounted(q)
  BY DEF LeasesInv, ClosedOnceUnused
<1>b. /\ admin[b].at = "close" /\ Busy(b) /\ p \in Providers /\ p \in identity
      /\ p \in retired /\ p \notin closing /\ inflight[p] = 0
  <2>1. admin[b].at = "close" /\ Busy(b)
    BY DEF Close, Busy
  <2> QED BY <2>1, <1>c DEF Custodian, LeasesTypes
<1>u. \A s \in Senders : sender[s] # p
  <2>1. Users(p) = {}
    BY <1>b, <1>c, UsersCounted DEF Accounted
  <2> QED BY <2>1 DEF Users
<1>0. /\ closing' = closing \cup {p} /\ broken' = FALSE
      /\ admin' = [admin EXCEPT ![b].at = "shut"]
      /\ UNCHANGED <<installed, identity, inflight, retired, events, sender>>
  BY <1>b, <1>u, <1>c DEF Close
<1>1. LeasesTypes'
  BY <1>0, <1>c DEF LeasesTypes
<1>2. Known'
  BY <1>0, <1>b, <1>c DEF Known
<1>a. \A a \in Retirers : /\ admin'[a].provider = admin[a].provider
                          /\ admin'[a].at = IF a = b THEN "shut" ELSE admin[a].at
                          /\ Busy(a)' <=> Busy(a)
  <2>1. \A a \in Retirers : /\ admin'[a].provider = admin[a].provider
                            /\ admin'[a].at = IF a = b THEN "shut" ELSE admin[a].at
    BY <1>0, <1>c DEF LeasesTypes
  <2> QED BY <2>1, <1>b DEF Busy
<1>3. Alone'
  BY <1>a, <1>c DEF Alone
<1>4. ASSUME NEW a \in Retirers PROVE Custodian(a)'
  <2>0. Custodian(a) /\ Custodian(b)
    BY <1>c
  <2>1. CASE a = b
    BY <2>0, <2>1, <1>a, <1>0, <1>b DEF Custodian
  <2>2. CASE a # b
    <3>1. Busy(a) => admin[a].provider # p
      BY <2>2, <1>c, <1>b DEF Alone
    <3> QED BY <2>0, <2>2, <3>1, <1>a, <1>0 DEF Custodian
  <2> QED BY <2>1, <2>2
<1>5. ASSUME NEW q \in Providers PROVE Accounted(q)'
  <2>1. Users(q)' = Users(q) /\ Accounted(q)
    BY <1>0, <1>c DEF Users
  <2> QED BY <2>1, <1>0 DEF Accounted
<1> QED BY <1>0, <1>1, <1>2, <1>3, <1>4, <1>5 DEF LeasesInv, ClosedOnceUnused

LEMMA ShutKeeps ==
  ASSUME LeaseAssumption, LeasesInv, NEW b \in Retirers, Shut(b)
  PROVE  LeasesInv'
<1> DEFINE p == admin[b].provider
<1>c. /\ LeasesTypes /\ Known /\ Alone /\ ~broken
      /\ \A a \in Retirers : Custodian(a)
      /\ \A q \in Providers : Accounted(q)
  BY DEF LeasesInv, ClosedOnceUnused
<1>b. /\ Busy(b) /\ p \in Providers /\ p \in identity /\ p # installed
      /\ p \in closing /\ inflight[p] = 0
  <2>1. admin[b].at = "shut" /\ Busy(b)
    BY DEF Shut, Busy
  <2> QED BY <2>1, <1>c DEF Custodian, LeasesTypes
<1>0. /\ inflight' = [inflight EXCEPT ![p] = 0]
      /\ events' = events \ {p} /\ retired' = retired \ {p}
      /\ closing' = closing \ {p} /\ identity' = identity \ {p}
      /\ broken' = FALSE /\ admin' = [admin EXCEPT ![b] = Idle]
      /\ UNCHANGED <<installed, sender>>
  BY <1>b, <1>c DEF Shut
<1>i. inflight' = inflight
  BY <1>0, <1>b, <1>c DEF LeasesTypes
<1>1. LeasesTypes'
  BY <1>0, <1>i, <1>c DEF LeasesTypes, Idle
<1>2. Known'
  BY <1>0, <1>b, <1>c DEF Known
<1>a. \A a \in Retirers : a # b => admin'[a] = admin[a] /\ (Busy(a)' <=> Busy(a))
  BY <1>0, <1>c DEF LeasesTypes, Busy
<1>f. ~Busy(b)'
  BY <1>0, <1>c DEF LeasesTypes, Busy, Idle
<1>3. Alone'
  BY <1>a, <1>f, <1>c DEF Alone
<1>4. ASSUME NEW a \in Retirers PROVE Custodian(a)'
  <2>1. CASE a = b
    BY <2>1, <1>f DEF Custodian
  <2>2. CASE a # b
    <3>1. Custodian(a) /\ (Busy(a) => admin[a].provider # p)
      BY <2>2, <1>c, <1>b DEF Alone
    <3> QED BY <2>2, <3>1, <1>a, <1>0, <1>i DEF Custodian
  <2> QED BY <2>1, <2>2
<1>5. ASSUME NEW q \in Providers PROVE Accounted(q)'
  <2>1. Users(q)' = Users(q) /\ Accounted(q)
    BY <1>0, <1>c DEF Users
  <2>2. inflight[q] > 0 => q # p
    BY <1>b
  <2> QED BY <2>1, <2>2, <1>0, <1>i DEF Accounted
<1> QED BY <1>0, <1>1, <1>2, <1>3, <1>4, <1>5 DEF LeasesInv, ClosedOnceUnused

LEMMA LeasesSafety == ASSUME LeaseAssumption PROVE LeasesSpec => []LeasesInv
<1>1. ASSUME LeasesInit PROVE LeasesInv
  <2>1. LeasesTypes /\ Known /\ ClosedOnceUnused
    BY <1>1 DEF LeasesInit, LeasesTypes, Known, ClosedOnceUnused, Idle, Retirers
  <2>2. \A a \in Retirers : ~Busy(a)
    BY <1>1 DEF LeasesInit, Busy, Idle, Retirers
  <2>3. ASSUME NEW p \in Providers PROVE Accounted(p)
    <3>1. Users(p) = {}
      BY <1>1 DEF LeasesInit, Users, LeaseAssumption
    <3> QED BY <3>1, <1>1, FS_EmptySet DEF LeasesInit, Accounted
  <2> QED BY <2>1, <2>2, <2>3 DEF LeasesInv, Alone, Custodian
<1>2. ASSUME LeasesInv, [LeasesNext]_leaseVars PROVE LeasesInv'
  <2>1. CASE \E p \in Providers : Make(p)
    BY <1>2, <2>1, MakeKeeps
  <2>2. CASE \E s \in Senders : Lease(s) \/ Release(s)
    BY <1>2, <2>2, LeaseKeeps, ReleaseKeeps
  <2>3. CASE \E a \in Admins, p \in Providers \cup {NoProvider} : Replace(a, p)
    BY <1>2, <2>3, ReplaceKeeps
  <2>4. CASE \E a \in Retirers : Retire(a) \/ Woken(a) \/ Close(a) \/ Shut(a)
    BY <1>2, <2>4, RetireKeeps, CloseKeeps, ShutKeeps
  <2>5. CASE UNCHANGED leaseVars
    BY <1>2, <2>5 DEF leaseVars, LeasesInv, LeasesTypes, Known, Alone, Busy, Custodian, Accounted,
       Users, ClosedOnceUnused
  <2> QED BY <1>2, <2>1, <2>2, <2>3, <2>4, <2>5 DEF LeasesNext, Retirers
<1> QED BY <1>1, <1>2, PTL DEF LeasesSpec

\* Types of the lifecycle bookkeeping of LoopdyService's providers; no count of leases in
\* flight exceeds the threads that send.
THEOREM LeasesTyping == ASSUME LeaseAssumption PROVE LeasesSpec => []LeasesTypeOK
<1>1. ASSUME LeasesInv PROVE LeasesTypeOK
  <2>1. /\ LeasesTypes /\ retired \subseteq Providers /\ events \subseteq Providers
        /\ closing \subseteq Providers
    BY <1>1 DEF LeasesInv, Known, LeasesTypes
  <2>2. inflight \in [Providers -> 0 .. Cardinality(Senders)]
    <3>1. \A p \in Providers : inflight[p] \in 0 .. Cardinality(Senders)
      BY <1>1, UsersCounted DEF LeasesInv, Accounted
    <3> QED BY <2>1, <3>1 DEF LeasesTypes
  <2> QED BY <2>1, <2>2 DEF LeasesTypeOK, LeasesTypes, Retirers
<1> QED BY <1>1, LeasesSafety, PTL

\* No provider is closed while a send holds its lease, and none twice, by the thread that
\* retired it and by the last send (service.py, _release_provider: "both paths must never
\* close the same provider independently"), though Python may give its identity again.
THEOREM ProvidersCloseOnce == ASSUME LeaseAssumption PROVE LeasesSpec => []ClosedOnceUnused
<1>1. LeasesInv => ClosedOnceUnused
  BY DEF LeasesInv
<1> QED BY <1>1, LeasesSafety, PTL
-----------------------------------------------------------------------------
(* TurnReplies.                                                             *)

\* A lease belongs to a run of the message it is kept under, that was delivered.
Leased(m) == leases[m] # NoRun => phase[leases[m]] # "none" /\ message[leases[m]] = m

\* The lease in a run's context, once the run was started, is of its own message.
Carries(r) == phase[r] \in {"processing", "over"} /\ held[r] # NoRun =>
  phase[held[r]] # "none" /\ message[held[r]] = message[r]

\* A session that a run was asked for over a direct connection is fenced.
FencedRun(r) == origin[r] \in Direct => phase[r] # "none" /\ SessionOf[message[r]] \in fences

\* A run that was not delivered said nothing.
Silent(r) == phase[r] = "none" => delivered[r] = {}

\* Where a run's words may go.
Askers(r) == {origin[q] : q \in {p \in Runs : phase[p] # "none" /\ message[p] = message[r]}}

RepliesInv ==
  /\ RepliesTypeOK
  /\ \A m \in Messages : Leased(m)
  /\ \A r \in Runs : Carries(r) /\ FencedRun(r) /\ Silent(r)
  /\ RepliesToTheAsker

LEMMA RepliesTypesStep ==
  ASSUME TurnRepliesAssumption, RepliesTypeOK, [RepliesNext]_replyVars
  PROVE  RepliesTypeOK'
<1> USE DEF RepliesTypeOK, TurnRepliesAssumption
<1>1. ASSUME NEW r \in Runs, NEW m \in Messages, NEW c \in Connections, NEW s \in Runs, Receive(r, m, c, s)
      PROVE  RepliesTypeOK'
  BY <1>1 DEF Receive
<1>2. ASSUME NEW r \in Runs, DispatchEnds(r) \/ StartTurn(r) \/ Complete(r)
      PROVE  RepliesTypeOK'
  BY <1>2 DEF DispatchEnds, LeasesWithout, StartTurn, BindLease, Complete
<1>3. ASSUME NEW r \in Runs, NEW named \in BOOLEAN, NEW final \in BOOLEAN, Send(r, named, final)
      PROVE  RepliesTypeOK'
  <2>1. Target(r, named) \in Connections \cup {Broadcast}
    BY <1>3 DEF Send, Connections
  <2>2. delivered' \in [Runs -> SUBSET (Connections \cup {Broadcast})]
    BY <1>3, <2>1 DEF Send
  <2>3. draft' \subseteq Messages
    BY <1>3 DEF Send
  <2> QED BY <1>3, <2>2, <2>3 DEF Send
<1>4. ASSUME (\E c \in Connections : Lose(c)) \/ Reconnect
      PROVE  RepliesTypeOK'
  BY <1>4 DEF Lose, Reconnect, Clear
<1>5. CASE UNCHANGED replyVars
  BY <1>5 DEF replyVars
<1> QED BY <1>1, <1>2, <1>3, <1>4, <1>5 DEF RepliesNext, RunStep

\* A callback goes out to a connection its message was asked over.
LEMMA TargetAsked ==
  ASSUME TurnRepliesAssumption, RepliesInv, NEW r \in Runs, NEW named \in BOOLEAN,
         phase[r] \in {"processing", "over"}, origin[r] \in Direct, RouteResolves(r, named)
  PROVE  Target(r, named) \in Askers(r)
<1>1. message[r] \in Messages /\ SessionOf[message[r]] \in fences
  BY DEF RepliesInv, RepliesTypeOK, FencedRun
<1>2. CASE held[r] # NoRun
  <2>1. held[r] \in Runs /\ phase[held[r]] # "none" /\ message[held[r]] = message[r]
    BY <1>2 DEF RepliesInv, RepliesTypeOK, Carries
  <2>2. leases[message[held[r]]] = held[r]
    BY <1>2 DEF RouteResolves
  <2> QED BY <1>2, <2>1, <2>2 DEF Target, Askers
<1>3. CASE held[r] = NoRun
  <2>1. named /\ leases[message[r]] # NoRun
    BY <1>1, <1>3 DEF RouteResolves, Session
  <2>2. /\ leases[message[r]] \in Runs /\ phase[leases[message[r]]] # "none"
        /\ message[leases[message[r]]] = message[r]
    BY <1>1, <2>1 DEF RepliesInv, RepliesTypeOK, Leased
  <2> QED BY <1>3, <2>1, <2>2 DEF Target, Askers
<1> QED BY <1>2, <1>3

\* Runs that go on or end, and leases that are given back, change nobody's route.
LEMMA PhasesGoOn ==
  ASSUME RepliesInv, RepliesTypeOK', UNCHANGED <<fences, message, origin, held, delivered>>,
         \A q \in Runs : /\ phase'[q] # "none" <=> phase[q] # "none"
                         /\ phase'[q] \in {"processing", "over"} => phase[q] \in {"processing", "over"},
         \A n \in Messages : leases'[n] \in {leases[n], NoRun}
  PROVE  RepliesInv'
<1>1. ASSUME NEW n \in Messages PROVE Leased(n)'
  <2>1. Leased(n) /\ leases[n] \in Runs \cup {NoRun}
    BY DEF RepliesInv, RepliesTypeOK
  <2> QED BY <2>1 DEF Leased
<1>2. ASSUME NEW q \in Runs PROVE Carries(q)'
  <2>1. Carries(q) /\ held[q] \in Runs \cup {NoRun}
    BY DEF RepliesInv, RepliesTypeOK
  <2> QED BY <2>1 DEF Carries
<1>3. ASSUME NEW q \in Runs PROVE FencedRun(q)' /\ Silent(q)' /\ Askers(q)' = Askers(q)
  BY DEF RepliesInv, FencedRun, Silent, Askers
<1>4. RepliesToTheAsker'
  BY <1>3 DEF RepliesInv, RepliesToTheAsker, Askers
<1> QED BY <1>1, <1>2, <1>3, <1>4 DEF RepliesInv

LEMMA RepliesStep ==
  ASSUME TurnRepliesAssumption, RepliesInv, [RepliesNext]_replyVars
  PROVE  RepliesInv'
<1>t. RepliesTypeOK /\ RepliesTypeOK'
  BY RepliesTypesStep DEF RepliesInv
<1>1. ASSUME NEW r \in Runs, NEW m \in Messages, NEW c \in Connections, NEW s \in Runs, Receive(r, m, c, s)
      PROVE  RepliesInv'
  <2>1. /\ phase[r] = "none" /\ phase'[r] = "waiting" /\ message'[r] = m /\ origin'[r] = c
        /\ leases'[m] = r /\ delivered' = delivered
        /\ \A q \in Runs \ {r} : /\ phase'[q] = phase[q] /\ message'[q] = message[q]
                                 /\ origin'[q] = origin[q] /\ held'[q] = held[q]
        /\ \A n \in Messages \ {m} : leases'[n] = leases[n]
        /\ fences \subseteq fences' /\ (c \in Direct => SessionOf[m] \in fences')
    BY <1>1, <1>t DEF Receive, RepliesTypeOK
  <2>2. ASSUME NEW n \in Messages PROVE Leased(n)'
    <3>1. CASE n = m
      BY <2>1, <3>1 DEF Leased
    <3>2. CASE n # m
      <4>1. leases'[n] = leases[n] /\ leases[n] \in Runs \cup {NoRun} /\ Leased(n)
        BY <2>1, <3>2 DEF RepliesInv, RepliesTypeOK
      <4> QED BY <2>1, <4>1 DEF Leased
    <3> QED BY <3>1, <3>2
  <2>3. ASSUME NEW q \in Runs PROVE Carries(q)' /\ FencedRun(q)' /\ Silent(q)'
    <3>1. CASE q = r
      BY <2>1, <3>1 DEF Carries, FencedRun, Silent
    <3>2. CASE q # r
      <4>1. held[q] \in Runs \cup {NoRun} /\ Carries(q) /\ FencedRun(q) /\ Silent(q)
        BY DEF RepliesInv, RepliesTypeOK
      <4>2. Carries(q)'
        BY <2>1, <3>2, <4>1 DEF Carries
      <4>3. FencedRun(q)' /\ Silent(q)'
        BY <2>1, <3>2, <4>1 DEF FencedRun, Silent
      <4> QED BY <4>2, <4>3
    <3> QED BY <3>1, <3>2
  <2>4. ASSUME NEW q \in Runs, origin'[q] \in Direct
        PROVE  delivered'[q] \subseteq Askers(q)'
    <3>1. CASE q = r
      <4>1. delivered[r] = {}
        BY <2>1 DEF RepliesInv, Silent
      <4> QED BY <2>1, <3>1, <4>1
    <3>2. CASE q # r
      <4>1. phase[q] # "none" /\ delivered[q] \subseteq Askers(q)
        BY <2>1, <2>4, <3>2 DEF RepliesInv, FencedRun, RepliesToTheAsker, Askers
      <4>2. Askers(q) \subseteq Askers(q)'
        BY <2>1, <3>2 DEF Askers
      <4> QED BY <2>1, <4>1, <4>2
    <3> QED BY <3>1, <3>2
  <2> QED BY <1>t, <2>2, <2>3, <2>4 DEF RepliesInv, RepliesToTheAsker, Askers
<1>2. ASSUME NEW r \in Runs, StartTurn(r)
      PROVE  RepliesInv'
  <2>1. /\ phase[r] = "waiting" /\ phase'[r] = "processing" /\ held'[r] = leases[message[r]]
        /\ \A q \in Runs \ {r} : phase'[q] = phase[q] /\ held'[q] = held[q]
        /\ UNCHANGED <<leases, fences, message, origin, delivered>>
    BY <1>2, <1>t DEF StartTurn, BindLease, RepliesTypeOK
  <2>2. \A q \in Runs : phase'[q] # "none" <=> phase[q] # "none"
    BY <2>1
  <2>3. ASSUME NEW n \in Messages PROVE Leased(n)'
    BY <1>t, <2>1, <2>2 DEF RepliesInv, Leased, RepliesTypeOK
  <2>4. ASSUME NEW q \in Runs PROVE Carries(q)'
    <3>1. CASE q = r
      <4>1. message[r] \in Messages /\ Leased(message[r]) /\ leases[message[r]] \in Runs \cup {NoRun}
        BY DEF RepliesInv, RepliesTypeOK
      <4> QED BY <2>1, <2>2, <3>1, <4>1 DEF Leased, Carries
    <3>2. CASE q # r
      <4>1. held[q] \in Runs \cup {NoRun} /\ Carries(q)
        BY DEF RepliesInv, RepliesTypeOK
      <4> QED BY <2>1, <2>2, <3>2, <4>1 DEF Carries
    <3> QED BY <3>1, <3>2
  <2>5. ASSUME NEW q \in Runs PROVE FencedRun(q)' /\ Silent(q)' /\ Askers(q)' = Askers(q)
    BY <2>1, <2>2 DEF RepliesInv, FencedRun, Silent, Askers
  <2>6. RepliesToTheAsker'
    BY <2>1, <2>5 DEF RepliesInv, RepliesToTheAsker, Askers
  <2> QED BY <1>t, <2>3, <2>4, <2>5, <2>6 DEF RepliesInv
<1>3. ASSUME NEW r \in Runs, DispatchEnds(r) \/ Complete(r)
      PROVE  RepliesInv'
  <2>1. /\ phase[r] \in {"waiting", "processing"} /\ phase'[r] \in {"dropped", "over"}
        /\ phase'[r] = "over" => phase[r] = "processing"
        /\ \A q \in Runs \ {r} : phase'[q] = phase[q]
        /\ \A n \in Messages : leases'[n] \in {leases[n], NoRun}
        /\ UNCHANGED <<fences, message, origin, held, delivered>>
    BY <1>3, <1>t DEF DispatchEnds, Complete, LeasesWithout, RepliesTypeOK
  <2> QED BY <1>t, <2>1, PhasesGoOn
<1>4. ASSUME NEW r \in Runs, NEW named \in BOOLEAN, NEW final \in BOOLEAN, Send(r, named, final)
      PROVE  RepliesInv'
  <2>1. /\ phase[r] \in {"processing", "over"} /\ RouteResolves(r, named)
        /\ delivered'[r] = delivered[r] \cup {Target(r, named)}
        /\ \A q \in Runs \ {r} : delivered'[q] = delivered[q]
        /\ UNCHANGED <<leases, fences, message, origin, phase, held>>
    BY <1>4, <1>t DEF Send, RepliesTypeOK
  <2>2. ASSUME NEW q \in Runs, origin[q] \in Direct
        PROVE  delivered'[q] \subseteq Askers(q)
    <3>1. delivered[q] \subseteq Askers(q)
      BY <2>2 DEF RepliesInv, RepliesToTheAsker, Askers
    <3>2. CASE q = r
      <4>1. Target(r, named) \in Askers(r)
        BY <2>1, <2>2, <3>2, TargetAsked
      <4> QED BY <2>1, <3>1, <3>2, <4>1
    <3> QED BY <2>1, <3>1, <3>2
  <2>3. RepliesToTheAsker'
    BY <2>1, <2>2 DEF RepliesToTheAsker, Askers
  <2>4. \A q \in Runs : Carries(q)' /\ FencedRun(q)' /\ Silent(q)'
    BY <2>1 DEF RepliesInv, Carries, FencedRun, Silent
  <2>5. \A n \in Messages : Leased(n)'
    BY <2>1 DEF RepliesInv, Leased
  <2> QED BY <1>t, <2>3, <2>4, <2>5 DEF RepliesInv
<1>5. ASSUME (\E c \in Connections : Lose(c)) \/ Reconnect \/ UNCHANGED replyVars
      PROVE  RepliesInv'
  <2>1. /\ \A n \in Messages : leases'[n] \in {leases[n], NoRun}
        /\ UNCHANGED <<fences, message, origin, phase, held, delivered>>
    BY <1>5 DEF Lose, Reconnect, Clear, replyVars
  <2> QED BY <1>t, <2>1, PhasesGoOn
<1> QED BY <1>1, <1>2, <1>3, <1>4, <1>5 DEF RepliesNext, RunStep

LEMMA RepliesSafety == ASSUME TurnRepliesAssumption PROVE RepliesSpec => []RepliesInv
<1>1. ASSUME RepliesInit PROVE RepliesInv
  <2>1. RepliesTypeOK
    <3>1. (CHOOSE m \in Messages : TRUE) \in Messages
      BY DEF TurnRepliesAssumption
    <3> QED BY <1>1, <3>1 DEF RepliesInit, RepliesTypeOK, Connections
  <2>2. \A r \in Runs : origin[r] \notin Direct
    BY <1>1 DEF RepliesInit, TurnRepliesAssumption
  <2> QED BY <1>1, <2>1, <2>2 DEF RepliesInit, RepliesInv, Leased, Carries, FencedRun, Silent, RepliesToTheAsker
<1> QED BY <1>1, RepliesStep, PTL DEF RepliesSpec

(* Types of the reply routes.                                               *)
THEOREM RepliesTyping == ASSUME TurnRepliesAssumption PROVE RepliesSpec => []RepliesTypeOK
<1>1. RepliesInv => RepliesTypeOK
  BY DEF RepliesInv
<1> QED BY <1>1, RepliesSafety, PTL

(* What a turn asked over a direct connection says goes out on a connection *)
(* its message was asked over, or not at all: whatever runs, messages,      *)
(* connections and capacity, however often connections are lost and made    *)
(* again, in whichever task's context a callback comes and however late.    *)
THEOREM AskerIsAnswered == ASSUME TurnRepliesAssumption PROVE RepliesSpec => []RepliesToTheAsker
<1>1. RepliesInv => RepliesToTheAsker
  BY DEF RepliesInv
<1> QED BY <1>1, RepliesSafety, PTL

-----------------------------------------------------------------------------
(* NativeDeviceTools: what NativeDeviceToolsProofs proves, of the instances  *)
(* of MCDeviceLinks.  A definition of the instance of the proofs is the same *)
(* formula as that of the instance of the model; only the names differ.      *)

NP == INSTANCE NativeDeviceToolsProofs WITH
       Channels <- {c1, c2}, Sessions <- {s1}, Calls <- {k1, k2}, Executions <- {x1, x2},
       SessionOf <- [o \in {c1, c2, x1, x2} |-> s1], CallOf <- [o \in {x1, x2} |-> k1],
       WorkOf <- [o \in {x1, x2} |-> "w"], LeaseSeconds <- 2, MaxChannels <- 2, MaxQueue <- 2,
       MaxCompleted <- 2, MaxPollItems <- 1, Cancels <- FALSE, LoopLags <- FALSE, MaxTime <- 2,
       now <- clock, calls <- executions
EP == INSTANCE NativeDeviceToolsProofs WITH
       Channels <- {c1}, Sessions <- {s1}, Calls <- {k1, k2}, Executions <- {x1, x2, x3},
       SessionOf <- [o \in {c1, x1, x2, x3} |-> s1],
       CallOf <- [o \in {x1, x2, x3} |-> IF o = x3 THEN k2 ELSE k1],
       WorkOf <- [o \in {x1, x2, x3} |-> "w"], LeaseSeconds <- 2, MaxChannels <- 1, MaxQueue <- 1,
       MaxCompleted <- 1, MaxPollItems <- 1, Cancels <- TRUE, LoopLags <- TRUE, MaxTime <- 1,
       now <- clock, calls <- executions

LEMMA NPSteps == [N!Next]_N!vars => [NP!Next]_NP!vars
BY Zenon DEF N!Channel, NP!Channel, N!Request, NP!Request, N!Phases, NP!Phases, N!Execution,
    NP!Execution, N!Fresh, NP!Fresh, N!Expired, NP!Expired, N!Holders, NP!Holders, N!Outstanding,
    NP!Outstanding, N!Awaited, NP!Awaited, N!Last, NP!Last, N!Tombstones, NP!Tombstones,
    N!Completed, NP!Completed, N!Answered, NP!Answered, N!Retired, NP!Retired, N!RetiredRequests,
    NP!RetiredRequests, N!Lapsed, NP!Lapsed, N!Usable, NP!Usable, N!Connect, NP!Connect, N!Refuse,
    NP!Refuse, N!Smaller, NP!Smaller, N!Larger, NP!Larger, N!PollWith, NP!PollWith, N!Poll,
    NP!Poll, N!PostResult, NP!PostResult, N!Close, NP!Close, N!Unload, NP!Unload, N!Goes, NP!Goes,
    N!Match, NP!Match, N!Join, NP!Join, N!Queue, NP!Queue, N!Enqueue, NP!Enqueue, N!Asked,
    NP!Asked, N!Receive, NP!Receive, N!TimeOut, NP!TimeOut, N!GiveUp, NP!GiveUp, N!Cancel,
    NP!Cancel, N!Leave, NP!Leave, N!Tick, NP!Tick, N!Wakes, NP!Wakes, N!Next, NP!Next, N!vars,
    NP!vars, N!Cardinality, NP!Cardinality

LEMMA NPBegins == N!Init => NP!Init
BY Zenon DEF N!Fresh, NP!Fresh, N!Init, NP!Init

LEMMA NPAssumes == N!HubAssumption => NP!HubAssumption
BY Zenon DEF N!HubAssumption, NP!HubAssumption

LEMMA EPSteps == [E!Next]_E!vars => [EP!Next]_EP!vars
BY Zenon DEF E!Channel, EP!Channel, E!Request, EP!Request, E!Phases, EP!Phases, E!Execution,
    EP!Execution, E!Fresh, EP!Fresh, E!Expired, EP!Expired, E!Holders, EP!Holders, E!Outstanding,
    EP!Outstanding, E!Awaited, EP!Awaited, E!Last, EP!Last, E!Tombstones, EP!Tombstones,
    E!Completed, EP!Completed, E!Answered, EP!Answered, E!Retired, EP!Retired, E!RetiredRequests,
    EP!RetiredRequests, E!Lapsed, EP!Lapsed, E!Usable, EP!Usable, E!Connect, EP!Connect, E!Refuse,
    EP!Refuse, E!Smaller, EP!Smaller, E!Larger, EP!Larger, E!PollWith, EP!PollWith, E!Poll,
    EP!Poll, E!PostResult, EP!PostResult, E!Close, EP!Close, E!Unload, EP!Unload, E!Goes, EP!Goes,
    E!Match, EP!Match, E!Join, EP!Join, E!Queue, EP!Queue, E!Enqueue, EP!Enqueue, E!Asked,
    EP!Asked, E!Receive, EP!Receive, E!TimeOut, EP!TimeOut, E!GiveUp, EP!GiveUp, E!Cancel,
    EP!Cancel, E!Leave, EP!Leave, E!Tick, EP!Tick, E!Wakes, EP!Wakes, E!Next, EP!Next, E!vars,
    EP!vars, E!Cardinality, EP!Cardinality

LEMMA EPBegins == E!Init => EP!Init
BY Zenon DEF E!Fresh, EP!Fresh, E!Init, EP!Init

LEMMA EPAssumes == E!HubAssumption => EP!HubAssumption
BY Zenon DEF E!HubAssumption, EP!HubAssumption

LEMMA NPTells ==
  ASSUME NP!TypeOK, NP!FeedHasNoHoles, NP!AcceptedIsDelivered, NP!NotReplayed
  PROVE  N!TypeOK /\ N!FeedHasNoHoles /\ N!AcceptedIsDelivered /\ N!NotReplayed
BY Zenon DEF N!TypeOK, NP!TypeOK, N!FeedHasNoHoles, NP!FeedHasNoHoles, N!AcceptedIsDelivered,
    NP!AcceptedIsDelivered, N!NotReplayed, NP!NotReplayed, N!Channel, NP!Channel, N!Request,
    NP!Request, N!Phases, NP!Phases, N!Execution, NP!Execution, N!Completed, NP!Completed, N!Last,
    NP!Last

LEMMA EPTells ==
  ASSUME EP!TypeOK, EP!FeedHasNoHoles
  PROVE  E!TypeOK /\ E!FeedHasNoHoles
BY Zenon DEF E!TypeOK, EP!TypeOK, E!FeedHasNoHoles, EP!FeedHasNoHoles, E!Channel, EP!Channel,
    E!Request, EP!Request, E!Phases, EP!Phases, E!Execution, EP!Execution, E!Completed,
    EP!Completed, E!Last, EP!Last

\* Two calls fit among two tombstones.
LEMMA NPRemembers == NP!Remembers
<1>1. IsFiniteSet({k1}) /\ Cardinality({k1}) = 1
  BY FS_Singleton
<1>2. {k1, k2} = {k1} \cup {k2}
  OBVIOUS
<1>3. IsFiniteSet({k1} \cup {k2}) /\ Cardinality({k1} \cup {k2}) <= 2
  BY <1>1, FS_AddElement
<1>4. IsFiniteSet({k1, k2}) /\ Cardinality({k1, k2}) <= 2
  BY <1>2, <1>3
<1>5. NP!IsFiniteSet({k1, k2}) /\ NP!Cardinality({k1, k2}) = Cardinality({k1, k2})
  BY <1>4 DEF IsFiniteSet, NP!IsFiniteSet, Cardinality, NP!Cardinality
<1> QED BY <1>4, <1>5 DEF NP!Remembers

\* Where the hub's steps are taken, and what holds there.
HubStep == IF focus = "overflow" THEN [E!Next]_E!vars ELSE [N!Next]_N!vars
HubHolds == IF focus = "overflow" THEN EP!HubInv ELSE NP!DeliveryInv /\ NP!ReplayInv

LEMMA HubSteps == [Step]_allVars => HubStep /\ focus' = focus
<1> SUFFICES ASSUME [Step]_allVars PROVE HubStep /\ focus' = focus
  OBVIOUS
<1>1. /\ focus' = focus
      /\ \/ focus = "native" /\ N!Next
         \/ focus = "overflow" /\ E!Next
         \/ UNCHANGED nativeVars
  BY DEF Step, allVars
<1>2. UNCHANGED nativeVars => UNCHANGED N!vars /\ UNCHANGED E!vars
  BY DEF nativeVars, N!vars, E!vars
<1> QED BY <1>1, <1>2 DEF HubStep

LEMMA HubBegins == Begins => HubHolds
<1> SUFFICES ASSUME Begins PROVE HubHolds
  OBVIOUS
<1>1. IF focus = "overflow" THEN E!Init ELSE N!Init
  BY DEF Begins
<1>2. CASE focus = "overflow"
  <2>1. EP!HubAssumption /\ EP!Init
    BY <1>1, <1>2, LinksAssumption, EPAssumes, EPBegins
  <2> QED BY <1>2, <2>1, EP!InitHub DEF HubHolds
<1>3. CASE focus # "overflow"
  <2>1. NP!HubAssumption /\ NP!Init
    BY <1>1, <1>3, LinksAssumption, NPAssumes, NPBegins
  <2> QED BY <1>3, <2>1, NP!DeliveryInit, NP!ReplayInit DEF HubHolds
<1> QED BY <1>2, <1>3

LEMMA HubStays == HubHolds /\ [Step]_allVars => HubHolds'
<1> SUFFICES ASSUME HubHolds, [Step]_allVars PROVE HubHolds'
  OBVIOUS
<1>1. HubStep /\ focus' = focus
  BY HubSteps
<1>2. CASE focus = "overflow"
  <2>1. EP!HubAssumption /\ EP!HubInv /\ [EP!Next]_EP!vars
    BY <1>1, <1>2, LinksAssumption, EPAssumes, EPSteps DEF HubStep, HubHolds
  <2>2. EP!HubInv'
    BY <2>1, EP!NextHub
  <2> QED BY <1>1, <1>2, <2>2 DEF HubHolds
<1>3. CASE focus # "overflow"
  <2>1. NP!HubAssumption /\ NP!DeliveryInv /\ NP!ReplayInv /\ [NP!Next]_NP!vars
    BY <1>1, <1>3, LinksAssumption, NPAssumes, NPSteps DEF HubStep, HubHolds
  <2>2. NP!DeliveryInv' /\ NP!ReplayInv'
    BY <2>1, NPRemembers, NP!DeliveryKeeps, NP!ReplayKeeps
  <2> QED BY <1>1, <1>3, <2>2 DEF HubHolds
<1> QED BY <1>2, <1>3

LEMMA HubKeepsResults == HubHolds => ResultsKept
<1> SUFFICES ASSUME HubHolds PROVE ResultsKept
  OBVIOUS
<1>1. CASE focus = "overflow"
  <2>1. EP!HubAssumption /\ EP!HubInv
    BY <1>1, LinksAssumption, EPAssumes DEF HubHolds
  <2>2. E!TypeOK /\ E!FeedHasNoHoles
    BY <2>1, EP!HubTells, EPTells
  <2> QED BY <1>1, <2>2 DEF ResultsKept
<1>2. CASE focus # "overflow"
  <2>1. NP!HubAssumption /\ NP!DeliveryInv /\ NP!ReplayInv
    BY <1>2, LinksAssumption, NPAssumes DEF HubHolds
  <2>2. NP!HubInv
    BY <2>1 DEF NP!DeliveryInv, NP!ResultInv
  <2>3. NP!TypeOK /\ NP!FeedHasNoHoles /\ NP!AcceptedIsDelivered /\ NP!NotReplayed
    BY <2>1, <2>2, NP!HubTells, NP!DeliveryTells, NP!ReplayTells
  <2>4. N!TypeOK /\ N!FeedHasNoHoles /\ N!AcceptedIsDelivered /\ N!NotReplayed
    BY <2>3, NPTells
  <2> QED BY <1>2, <2>4 DEF ResultsKept
<1> QED BY <1>1, <1>2

\* In every behaviour of the run, of whatever length: an accepted result is delivered, no call
\* is given to a phone again, and no phone's sequence has a hole (native_device_tools.py,
\* accept_result, execute and poll).
THEOREM ResultsStayKept == Behaviours => []ResultsKept
<1>1. Begins => HubHolds
  BY HubBegins
<1>2. HubHolds /\ [Step]_allVars => HubHolds'
  BY HubStays
<1>3. HubHolds => ResultsKept
  BY HubKeepsResults
<1> QED BY <1>1, <1>2, <1>3, PTL DEF Behaviours
=============================================================================
