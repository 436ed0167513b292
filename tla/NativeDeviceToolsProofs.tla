------------------------ MODULE NativeDeviceToolsProofs ------------------------
(***************************************************************************)
(* Proofs about NativeDeviceTools, for any channels, calls, executions and *)
(* limits: types, and that the phone sees its requests without a hole; and *)
(* while a channel's tombstones hold all its calls, that an accepted       *)
(* result is delivered (unless loops lag), and that no call is queued      *)
(* again (unless calls are cancelled).                                     *)
(***************************************************************************)
EXTENDS NativeDeviceTools, FiniteSetTheorems, SequenceTheorems, TLAPS

\* The executions that hold a place among the waiters of a request.
Active == {"waiting", "timed_out", "leaving"}
Waiters(c, q) ==
  {x \in Executions : calls[x].phase \in Active /\ calls[x].channel = c /\ calls[x].request = q}

HubTypes ==
  /\ now \in Nat
  /\ channels \in [Channels -> Channel]
  /\ requests \in [Channels -> Seq(Request)]
  /\ calls \in [Executions -> Execution]
  /\ phone \in [after: [Channels -> Nat], got: [Channels -> SUBSET Nat],
                accepted: SUBSET (Channels \X Nat)]

\* A channel finds a request under the call it was made for; it gave the phone the first of
\* its requests; a channel nobody opened has none.
Named(c) == \A k \in Calls : channels[c].pending[k] # 0 =>
  /\ channels[c].pending[k] <= Last(c)
  /\ requests[c][channels[c].pending[k]].call = k
Fed(c) == phone.after[c] <= Last(c) /\ phone.got[c] = 1 .. phone.after[c]
Unused(c) == channels[c].state = "new" => requests[c] = <<>>

\* An execution that waits has a request, which counts it.
Waits(x) ==
  /\ calls[x].phase = "matched" => calls[x].channel \in Channels
  /\ calls[x].phase \in Active => calls[x].channel \in Channels /\ calls[x].request \in 1 .. Last(calls[x].channel)
Counted(c, q) ==
  IsFiniteSet(Waiters(c, q)) /\ Cardinality(Waiters(c, q)) <= requests[c][q].waiters

HubInv ==
  /\ HubTypes
  /\ \A c \in Channels : Named(c) /\ Fed(c) /\ Unused(c) /\ \A q \in 1 .. Last(c) : Counted(c, q)
  /\ \A x \in Executions : Waits(x)

-----------------------------------------------------------------------------
(* What a step may do.                                                      *)

\* To a request: it is answered once, with a tombstone in a channel that stays open, and
\* "phone" only in time; or it is new, for a call without one.
RequestMoves(c) ==
  /\ Len(requests'[c]) \in {Last(c), Last(c) + 1}
  /\ \A q \in 1 .. Last(c) :
       /\ requests'[c][q].call = requests[c][q].call /\ requests'[c][q].expires = requests[c][q].expires
       /\ requests'[c][q].result # requests[c][q].result =>
            /\ requests[c][q].result = "none"
            /\ channels'[c].state = "open" => requests[c][q].call \in Completed(c)'
            /\ requests'[c][q].result = "phone" => now < requests[c][q].expires
  /\ Len(requests'[c]) # Last(c) =>
       /\ channels[c].state = "open" /\ requests'[c][Last(c) + 1].result = "none"
       /\ channels[c].pending[requests'[c][Last(c) + 1].call] = 0
       /\ channels'[c].pending[requests'[c][Last(c) + 1].call] = Last(c) + 1
       /\ requests'[c][Last(c) + 1].call \notin Completed(c)

\* To an open channel: a tombstone is added; a request is dropped by one that leaves it.
ChannelMoves(c) == channels'[c].state = "open" =>
  \/ channels[c].state = "new" /\ channels'[c].completed = <<>> /\ requests'[c] = <<>>
  \/ /\ channels[c].state = "open"
     /\ \/ channels'[c].completed = channels[c].completed
        \/ \E k \in Calls : channels'[c].completed = Tombstones(channels[c].completed, k)
     /\ \A k \in Calls : channels[c].pending[k] # 0 =>
          \/ channels'[c].pending[k] = channels[c].pending[k]
          \/ \E x \in Executions :
               calls[x].phase = "leaving" /\ calls[x].channel = c /\ calls[x].request = channels[c].pending[k]

\* To an execution that has a request, or gets one.
Same(x) == calls'[x].channel = calls[x].channel /\ calls'[x].request = calls[x].request
Reply(x) == requests'[calls[x].channel][calls[x].request].result
CallMoves(x) == calls'[x] # calls[x] =>
  \/ calls'[x].phase \notin {"timed_out", "leaving"} /\ (calls'[x].phase = "done" => calls'[x].request = 0)
  \/ /\ calls[x].phase = "waiting" /\ calls'[x].phase = "timed_out" /\ Same(x)
     /\ now >= Asked(x).expires /\ (Asked(x).result = "none" \/ LoopLags) /\ Reply(x) = Asked(x).result
  \/ /\ calls[x].phase = "waiting" /\ calls'[x].phase = "leaving" /\ Same(x)
     /\ calls'[x].result = Reply(x) /\ Reply(x) # "none"
  \/ Cancels /\ calls'[x].phase = "leaving" /\ Same(x) /\ calls[x].phase = "waiting" /\ calls'[x].result = "cancelled"
  \/ /\ calls[x].phase = "timed_out" /\ calls'[x].phase = "leaving" /\ Same(x)
     /\ calls'[x].result = "unavailable" /\ Reply(x) # "none"
     /\ Reply(x) # Asked(x).result => Reply(x) = "unavailable"
  \/ calls[x].phase = "leaving" /\ calls'[x].phase = "done" /\ Same(x) /\ calls'[x].result = calls[x].result

\* To what the phone was told is accepted.
Accepts(c, q) == <<c, q>> \in phone'.accepted /\ <<c, q>> \notin phone.accepted =>
  /\ q \in 1 .. Last(c) /\ channels[c].state = "open" /\ requests[c][q].call \notin Completed(c)
  /\ requests[c][q].result = "none" => requests'[c][q].result = "phone"

Moves ==
  /\ now <= now'
  /\ \A c \in Channels : RequestMoves(c) /\ ChannelMoves(c) /\ \A q \in Nat : Accepts(c, q)
  /\ \A x \in Executions : CallMoves(x)

-----------------------------------------------------------------------------
LEMMA AnsweredIs ==
  ASSUME NEW r \in Request, NEW v \in {"phone", "unavailable"}
  PROVE  /\ Answered(r, v) \in Request
         /\ Answered(r, v).call = r.call /\ Answered(r, v).expires = r.expires
         /\ Answered(r, v).waiters = r.waiters
         /\ Answered(r, v).result = IF r.result = "none" THEN v ELSE r.result
BY DEF Answered, Request

LEMMA TombstonesAre ==
  ASSUME HubAssumption, NEW s \in Seq(Calls), NEW k \in Calls
  PROVE  Tombstones(s, k) \in Seq(Calls) /\ \E i \in DOMAIN Tombstones(s, k) : Tombstones(s, k)[i] = k
<1> DEFINE t == Append(s, k)
<1>1. t \in Seq(Calls) /\ t # <<>> /\ Len(t) = Len(s) + 1 /\ t[Len(s) + 1] = k /\ Len(s) \in Nat
      /\ DOMAIN t = 1 .. Len(s) + 1 /\ MaxCompleted \in Nat \ {0}
  BY AppendProperties, LenProperties DEF HubAssumption
<1> HIDE DEF t
<1>2. CASE \E i \in DOMAIN s : s[i] = k
  BY <1>2 DEF Tombstones
<1>3. CASE ~(\E i \in DOMAIN s : s[i] = k) /\ Len(t) <= MaxCompleted
  <2>1. Tombstones(s, k) = t
    BY <1>3, <1>1 DEF Tombstones, t
  <2> QED BY <2>1, <1>1
<1>4. CASE ~(\E i \in DOMAIN s : s[i] = k) /\ Len(t) > MaxCompleted
  <2>1. Tombstones(s, k) = Tail(t)
    BY <1>4, <1>1 DEF Tombstones, t
  <2>2. Tail(t) \in Seq(Calls) /\ Len(Tail(t)) = Len(s) /\ Len(s) >= 1
        /\ \A i \in 1 .. Len(s) : Tail(t)[i] = t[i + 1]
    BY <1>1, <1>4, HeadTailProperties
  <2>3. DOMAIN Tail(t) = 1 .. Len(s) /\ Tail(t)[Len(s)] = k
    BY <2>2, <1>1, LenProperties
  <2>4. Tombstones(s, k) \in Seq(Calls) /\ DOMAIN Tombstones(s, k) = 1 .. Len(s) /\ Tombstones(s, k)[Len(s)] = k
    BY <2>1, <2>2, <2>3
  <2>5. Len(s) \in 1 .. Len(s)
    BY <1>1, <2>2
  <2> QED BY <2>4, <2>5
<1> QED BY <1>1, <1>2, <1>3, <1>4

\* Retiring channels changes no channel's requests but for their results.
LEMMA RetiredIs ==
  ASSUME HubAssumption, HubInv, NEW R \in SUBSET Channels
  PROVE  /\ Retired(R) \in [Channels -> Channel]
         /\ RetiredRequests(R) \in [Channels -> Seq(Request)]
         /\ \A c \in Channels :
              /\ Len(RetiredRequests(R)[c]) = Last(c)
              /\ c \notin R => Retired(R)[c] = channels[c] /\ RetiredRequests(R)[c] = requests[c]
              /\ c \in R => Retired(R)[c].state = "retired" /\ \A k \in Calls : Retired(R)[c].pending[k] = 0
              /\ \A q \in 1 .. Last(c) :
                   /\ RetiredRequests(R)[c][q].call = requests[c][q].call
                   /\ RetiredRequests(R)[c][q].expires = requests[c][q].expires
                   /\ RetiredRequests(R)[c][q].waiters = requests[c][q].waiters
                   /\ RetiredRequests(R)[c][q].result # requests[c][q].result =>
                        requests[c][q].result = "none" /\ RetiredRequests(R)[c][q].result = "unavailable"
<1>1. \A c \in Channels : requests[c] \in Seq(Request) /\ channels[c] \in Channel
  BY DEF HubInv, HubTypes
<1>2. \A c \in Channels : \A q \in 1 .. Last(c) : requests[c][q] \in Request
  BY <1>1, ElementOfSeq DEF Last
<1>3. \A c \in Channels : DOMAIN requests[c] = 1 .. Last(c) /\ Last(c) \in Nat
  BY <1>1, LenProperties DEF Last
<1>4. ASSUME NEW c \in Channels
      PROVE  /\ RetiredRequests(R)[c] \in Seq(Request) /\ Len(RetiredRequests(R)[c]) = Last(c)
             /\ c \notin R => RetiredRequests(R)[c] = requests[c]
             /\ \A q \in 1 .. Last(c) :
                  /\ RetiredRequests(R)[c][q].call = requests[c][q].call
                  /\ RetiredRequests(R)[c][q].expires = requests[c][q].expires
                  /\ RetiredRequests(R)[c][q].waiters = requests[c][q].waiters
                  /\ RetiredRequests(R)[c][q].result # requests[c][q].result =>
                       requests[c][q].result = "none" /\ RetiredRequests(R)[c][q].result = "unavailable"
  <2> DEFINE f == [q \in 1 .. Last(c) |-> IF c \in R /\ q \in Awaited(c) THEN Answered(requests[c][q], "unavailable")
                                          ELSE requests[c][q]]
  <2>1. RetiredRequests(R)[c] = f
    BY <1>3 DEF RetiredRequests
  <2>2. \A q \in 1 .. Last(c) :
          /\ f[q] \in Request /\ f[q].call = requests[c][q].call /\ f[q].expires = requests[c][q].expires
          /\ f[q].waiters = requests[c][q].waiters
          /\ f[q].result # requests[c][q].result => requests[c][q].result = "none" /\ f[q].result = "unavailable"
    BY <1>2, AnsweredIs
  <2>3. f \in Seq(Request) /\ Len(f) = Last(c)
    <3>1. f \in [1 .. Last(c) -> Request]
      BY <2>2
    <3> QED BY <3>1, <1>3
  <2>4. c \notin R => f = requests[c]
    <3>1. requests[c] = [q \in 1 .. Last(c) |-> requests[c][q]]
      BY <1>1, <1>3
    <3> QED BY <3>1
  <2> HIDE DEF f
  <2> QED BY <2>1, <2>2, <2>3, <2>4
<1>5. ASSUME NEW c \in Channels
      PROVE  /\ Retired(R)[c] \in Channel
             /\ c \notin R => Retired(R)[c] = channels[c]
             /\ c \in R => Retired(R)[c].state = "retired" /\ \A k \in Calls : Retired(R)[c].pending[k] = 0
  BY <1>1 DEF Retired, Channel
<1>6. Retired(R) \in [Channels -> Channel]
  BY <1>5 DEF Retired
<1>7. RetiredRequests(R) \in [Channels -> Seq(Request)]
  BY <1>4 DEF RetiredRequests
<1> QED BY <1>4, <1>5, <1>6, <1>7

-----------------------------------------------------------------------------
\* The executions that wait for a request, after one has moved.
LEMMA WaitersMove ==
  ASSUME HubInv, NEW x \in Executions, NEW r \in Execution, calls' = [calls EXCEPT ![x] = r],
         NEW c, NEW q
  PROVE  /\ r.phase \in Active /\ r.channel = c /\ r.request = q => Waiters(c, q)' = Waiters(c, q) \cup {x}
         /\ ~(r.phase \in Active /\ r.channel = c /\ r.request = q) => Waiters(c, q)' = Waiters(c, q) \ {x}
<1>1. \A y \in Executions : calls'[y] = IF y = x THEN r ELSE calls[y]
  BY DEF HubInv, HubTypes
<1> QED BY <1>1 DEF Waiters

\* One fewer, or one more, waits.
LEMMA CountsRise ==
  ASSUME NEW S, IsFiniteSet(S), NEW x, NEW T, T = S \cup {x}
  PROVE  IsFiniteSet(T) /\ Cardinality(T) <= Cardinality(S) + 1 /\ Cardinality(T) \in Nat /\ Cardinality(S) \in Nat
BY FS_AddElement, FS_CardinalityType

LEMMA CountsFall ==
  ASSUME NEW S, IsFiniteSet(S), NEW T \in SUBSET S
  PROVE  IsFiniteSet(T) /\ Cardinality(T) <= Cardinality(S) /\ Cardinality(T) \in Nat /\ Cardinality(S) \in Nat
BY FS_Subset, FS_CardinalityType

\* What a step that gives nobody a request keeps.
Steady ==
  \/ calls' = calls
  \/ \E x \in Executions : \E r \in Execution :
       /\ calls' = [calls EXCEPT ![x] = r]
       /\ r.phase \in Active => calls[x].phase \in Active /\ calls[x].channel = r.channel /\ calls[x].request = r.request
       /\ r.phase = "matched" => r.channel \in Channels

\* Nobody begins to wait, and the counts stay: the rest of the invariant.
LEMMA CountsStay ==
  ASSUME HubInv, requests' \in [Channels -> Seq(Request)],
         \A c \in Channels : /\ Len(requests'[c]) = Last(c)
                             /\ \A q \in 1 .. Last(c) : requests'[c][q].waiters = requests[c][q].waiters,
         Steady
  PROVE  /\ calls' \in [Executions -> Execution]
         /\ \A c \in Channels : \A q \in 1 .. Last(c)' : Counted(c, q)'
         /\ \A x \in Executions : Waits(x)'
<1>1. \A c \in Channels : Last(c)' = Last(c)
  BY DEF Last
<1>2. \A c, q : Waiters(c, q)' \subseteq Waiters(c, q)
  <2>1. CASE calls' = calls
    BY <2>1 DEF Waiters
  <2>2. CASE calls' # calls
    <3>1. PICK x \in Executions : \E r \in Execution :
              /\ calls' = [calls EXCEPT ![x] = r]
              /\ r.phase \in Active => calls[x].phase \in Active /\ calls[x].channel = r.channel /\ calls[x].request = r.request
      BY <2>2 DEF Steady
    <3>2. PICK r \in Execution :
              /\ calls' = [calls EXCEPT ![x] = r]
              /\ r.phase \in Active => calls[x].phase \in Active /\ calls[x].channel = r.channel /\ calls[x].request = r.request
      BY <3>1
    <3>3. \A y \in Executions : calls'[y] = IF y = x THEN r ELSE calls[y]
      BY <3>2 DEF HubInv, HubTypes
    <3> QED BY <3>2, <3>3 DEF Waiters
  <2> QED BY <2>1, <2>2
<1>3. calls' \in [Executions -> Execution]
  BY DEF HubInv, HubTypes, Steady
<1>4. ASSUME NEW c \in Channels, NEW q \in 1 .. Last(c) PROVE Counted(c, q)'
  <2>1. Counted(c, q) /\ Waiters(c, q)' \in SUBSET Waiters(c, q)
    BY <1>2 DEF HubInv
  <2>2. requests[c][q].waiters \in Nat
    <3>1. requests[c] \in Seq(Request)
      BY DEF HubInv, HubTypes
    <3>2. requests[c][q] \in Request
      BY <3>1, ElementOfSeq DEF Last
    <3> QED BY <3>2 DEF Request
  <2>3. requests'[c][q].waiters = requests[c][q].waiters
    OBVIOUS
  <2>4. IsFiniteSet(Waiters(c, q)') /\ Cardinality(Waiters(c, q)') <= Cardinality(Waiters(c, q))
        /\ Cardinality(Waiters(c, q)') \in Nat /\ Cardinality(Waiters(c, q)) \in Nat
    BY <2>1, CountsFall DEF Counted
  <2> QED BY <2>1, <2>2, <2>3, <2>4 DEF Counted
<1>5. ASSUME NEW y \in Executions PROVE Waits(y)'
  <2>1. Waits(y)
    BY DEF HubInv
  <2>2. CASE calls'[y] = calls[y]
    BY <2>1, <2>2, <1>1 DEF Waits
  <2>3. CASE calls'[y] # calls[y]
    <3>1. PICK x \in Executions : \E r \in Execution :
              /\ calls' = [calls EXCEPT ![x] = r]
              /\ r.phase \in Active => calls[x].phase \in Active /\ calls[x].channel = r.channel /\ calls[x].request = r.request
              /\ r.phase = "matched" => r.channel \in Channels
      BY <2>3 DEF Steady
    <3>2. PICK r \in Execution :
              /\ calls' = [calls EXCEPT ![x] = r]
              /\ r.phase \in Active => calls[x].phase \in Active /\ calls[x].channel = r.channel /\ calls[x].request = r.request
              /\ r.phase = "matched" => r.channel \in Channels
      BY <3>1
    <3>3. y = x /\ calls'[y] = r
      BY <3>1, <3>2, <2>3 DEF HubInv, HubTypes
    <3> QED BY <2>1, <3>2, <3>3, <1>1 DEF Waits
  <2> QED BY <2>2, <2>3
<1> QED BY <1>1, <1>3, <1>4, <1>5

\* Requests that keep their calls stay named, and a channel nobody opened stays without.
LEMMA NamesKeep ==
  ASSUME HubInv, channels' \in [Channels -> Channel], requests' \in [Channels -> Seq(Request)],
         NEW c \in Channels, Len(requests'[c]) = Last(c),
         \A q \in 1 .. Last(c) : requests'[c][q].call = requests[c][q].call,
         \A k \in Calls : channels'[c].pending[k] \in {0, channels[c].pending[k]},
         channels'[c].state = "new" => channels[c].state = "new"
  PROVE  Named(c)' /\ Unused(c)'
<1>1. Named(c) /\ Unused(c) /\ channels[c] \in Channel /\ requests[c] \in Seq(Request) /\ requests'[c] \in Seq(Request)
  BY DEF HubInv, HubTypes
<1>2. Last(c)' = Last(c) /\ Last(c) \in Nat
  BY <1>1, LenProperties DEF Last
<1>3. Named(c)'
  <2> SUFFICES ASSUME NEW k \in Calls, channels'[c].pending[k] # 0
               PROVE  /\ channels'[c].pending[k] <= Last(c)'
                      /\ requests'[c][channels'[c].pending[k]].call = k
    BY DEF Named
  <2>1. channels'[c].pending[k] = channels[c].pending[k]
    OBVIOUS
  <2>2. channels[c].pending[k] <= Last(c) /\ requests[c][channels[c].pending[k]].call = k
    BY <1>1, <2>1 DEF Named
  <2>3. channels[c].pending[k] \in Nat
    BY <1>1 DEF Channel
  <2>4. channels[c].pending[k] \in 1 .. Last(c)
    BY <2>1, <2>2, <2>3, <1>2
  <2> QED BY <2>1, <2>2, <2>4, <1>2
<1>4. Unused(c)'
  <2> SUFFICES ASSUME channels'[c].state = "new" PROVE requests'[c] = <<>>
    BY DEF Unused
  <2>1. requests[c] = <<>>
    BY <1>1 DEF Unused
  <2>2. Len(requests'[c]) = 0
    BY <2>1 DEF Last
  <2> QED BY <1>1, <2>2, EmptySeq
<1> QED BY <1>3, <1>4

LEMMA HubKeeps ==
  ASSUME HubInv, now' \in Nat, channels' \in [Channels -> Channel], requests' \in [Channels -> Seq(Request)],
         phone' \in [after: [Channels -> Nat], got: [Channels -> SUBSET Nat], accepted: SUBSET (Channels \X Nat)],
         \A c \in Channels :
           /\ Len(requests'[c]) = Last(c)
           /\ \A q \in 1 .. Last(c) : requests'[c][q].waiters = requests[c][q].waiters /\ requests'[c][q].call = requests[c][q].call
           /\ \A k \in Calls : channels'[c].pending[k] \in {0, channels[c].pending[k]}
           /\ channels'[c].state = "new" => channels[c].state = "new"
           /\ Fed(c)',
         Steady
  PROVE  HubInv'
<1>1. calls' \in [Executions -> Execution]
      /\ (\A c \in Channels : \A q \in 1 .. Last(c)' : Counted(c, q)')
      /\ \A x \in Executions : Waits(x)'
  <2>1. \A c \in Channels : /\ Len(requests'[c]) = Last(c)
                            /\ \A q \in 1 .. Last(c) : requests'[c][q].waiters = requests[c][q].waiters
    OBVIOUS
  <2> QED BY <2>1, CountsStay
<1>2. HubTypes'
  BY <1>1 DEF HubTypes
<1>3. \A c \in Channels : Named(c)' /\ Unused(c)'
  BY NamesKeep
<1> QED BY <1>1, <1>2, <1>3 DEF HubInv

\* A feed stays as it was with its channel's requests.
LEMMA FedStays ==
  ASSUME HubInv, phone'.after = phone.after, phone'.got = phone.got, NEW c \in Channels,
         Len(requests'[c]) >= Last(c), Len(requests'[c]) \in Nat, Last(c) \in Nat
  PROVE  Fed(c)'
<1>1. Fed(c) /\ phone.after[c] \in Nat
  BY DEF HubInv, HubTypes
<1> QED BY <1>1 DEF Fed, Last

\* Channels are retired, and at most one execution goes on without a request.
LEMMA RetiringKeeps ==
  ASSUME HubAssumption, HubInv, NEW R \in SUBSET Channels,
         channels' = Retired(R), requests' = RetiredRequests(R), phone' = phone, now' = now, Steady
  PROVE  HubInv' /\ \A c \in Channels : RequestMoves(c) /\ ChannelMoves(c) /\ \A q \in Nat : Accepts(c, q)
<1> DEFINE A(c) ==
      /\ Len(requests'[c]) = Last(c)
      /\ c \notin R => channels'[c] = channels[c] /\ requests'[c] = requests[c]
      /\ c \in R => channels'[c].state = "retired" /\ \A k \in Calls : channels'[c].pending[k] = 0
      /\ \A q \in 1 .. Last(c) :
           /\ requests'[c][q].call = requests[c][q].call
           /\ requests'[c][q].expires = requests[c][q].expires
           /\ requests'[c][q].waiters = requests[c][q].waiters
           /\ requests'[c][q].result # requests[c][q].result =>
                requests[c][q].result = "none" /\ requests'[c][q].result = "unavailable"
<1>1. channels' \in [Channels -> Channel] /\ requests' \in [Channels -> Seq(Request)] /\ \A c \in Channels : A(c)
  BY RetiredIs
<1>2. \A c \in Channels : Fed(c)'
  BY <1>1, FedStays
<1>3. now' \in Nat
      /\ phone' \in [after: [Channels -> Nat], got: [Channels -> SUBSET Nat], accepted: SUBSET (Channels \X Nat)]
  BY DEF HubInv, HubTypes
<1>4. HubInv'
  <2>1. \A c \in Channels :
           /\ Len(requests'[c]) = Last(c)
           /\ \A q \in 1 .. Last(c) : requests'[c][q].waiters = requests[c][q].waiters /\ requests'[c][q].call = requests[c][q].call
           /\ \A k \in Calls : channels'[c].pending[k] \in {0, channels[c].pending[k]}
           /\ channels'[c].state = "new" => channels[c].state = "new"
           /\ Fed(c)'
    <3> TAKE c \in Channels
    <3>1. A(c)
      BY <1>1
    <3>2. CASE c \in R
      BY <3>1, <3>2, <1>2
    <3>3. CASE c \notin R
      BY <3>1, <3>3, <1>2
    <3> QED BY <3>2, <3>3
  <2> QED BY <2>1, <1>1, <1>3, HubKeeps
<1>5. ASSUME NEW c \in Channels PROVE RequestMoves(c)
  <2>1. A(c) /\ Last(c) \in Nat
    BY <1>1, LenProperties DEF HubInv, HubTypes, Last
  <2>2. CASE c \in R
    BY <2>1, <2>2 DEF RequestMoves
  <2>3. CASE c \notin R
    BY <2>1, <2>3 DEF RequestMoves
  <2> QED BY <2>2, <2>3
<1>6. ASSUME NEW c \in Channels PROVE ChannelMoves(c)
  <2>1. A(c)
    BY <1>1
  <2>2. channels[c].state = "open" \/ channels'[c].state # "open"
    BY <2>1
  <2> QED BY <2>1, <2>2 DEF ChannelMoves
<1>7. \A c \in Channels, q \in Nat : Accepts(c, q)
  BY DEF Accepts
<1> QED BY <1>4, <1>5, <1>6, <1>7

-----------------------------------------------------------------------------
\* Nothing happens to an execution but a step that gives it no request.
LEMMA NobodyMoves == ASSUME calls' = calls PROVE Steady /\ \A x \in Executions : CallMoves(x)
BY DEF Steady, CallMoves

LEMMA RefuseKeeps == ASSUME HubAssumption, HubInv, NEW c \in Channels, Refuse(c) PROVE HubInv' /\ Moves
<1>1. HubInv' /\ \A d \in Channels : RequestMoves(d) /\ ChannelMoves(d) /\ \A q \in Nat : Accepts(d, q)
  <2>1. channels' = Retired({c}) /\ requests' = RetiredRequests({c}) /\ phone' = phone /\ now' = now /\ calls' = calls
    BY DEF Refuse
  <2> QED BY <2>1, RetiringKeeps, NobodyMoves
<1>2. calls' = calls /\ now' = now /\ now \in Nat
  BY DEF Refuse, HubInv, HubTypes
<1> QED BY <1>1, <1>2, NobodyMoves DEF Moves

LEMMA CloseKeeps == ASSUME HubAssumption, HubInv, NEW c \in Channels, Close(c) PROVE HubInv' /\ Moves
<1>1. HubInv' /\ \A d \in Channels : RequestMoves(d) /\ ChannelMoves(d) /\ \A q \in Nat : Accepts(d, q)
  <2>1. channels' = Retired({c}) /\ requests' = RetiredRequests({c}) /\ phone' = phone /\ now' = now /\ calls' = calls
    BY DEF Close
  <2> QED BY <2>1, RetiringKeeps, NobodyMoves
<1>2. calls' = calls /\ now' = now /\ now \in Nat
  BY DEF Close, HubInv, HubTypes
<1> QED BY <1>1, <1>2, NobodyMoves DEF Moves

LEMMA UnloadKeeps == ASSUME HubAssumption, HubInv, Unload PROVE HubInv' /\ Moves
<1> DEFINE open == {c \in Channels : channels[c].state = "open"}
<1>1. HubInv' /\ \A d \in Channels : RequestMoves(d) /\ ChannelMoves(d) /\ \A q \in Nat : Accepts(d, q)
  <2>1. channels' = Retired(open) /\ requests' = RetiredRequests(open) /\ phone' = phone /\ now' = now /\ calls' = calls
        /\ open \in SUBSET Channels
    BY DEF Unload
  <2> HIDE DEF open
  <2> QED BY <2>1, RetiringKeeps, NobodyMoves
<1>2. calls' = calls /\ now' = now /\ now \in Nat
  BY DEF Unload, HubInv, HubTypes
<1> QED BY <1>1, <1>2, NobodyMoves DEF Moves

\* An execution moves alone.
LEMMA OneMoves ==
  ASSUME HubInv, NEW x \in Executions, NEW r \in Execution, calls' = [calls EXCEPT ![x] = r], CallMoves(x)
  PROVE  \A y \in Executions : CallMoves(y)
<1>1. \A y \in Executions \ {x} : calls'[y] = calls[y]
  BY DEF HubInv, HubTypes
<1> QED BY <1>1 DEF CallMoves

LEMMA MatchKeeps == ASSUME HubAssumption, HubInv, NEW x \in Executions, Match(x) PROVE HubInv' /\ Moves
<1>1. Lapsed \in SUBSET Channels
  BY DEF Lapsed
<1>2. PICK r \in Execution :
        /\ calls' = [calls EXCEPT ![x] = r] /\ r.phase \in {"matched", "done"} /\ r.request = 0
        /\ r.phase = "matched" => r.channel \in Channels
  <2> DEFINE found == Holders(SessionOf[x]) \ Lapsed
  <2>1. CASE Cardinality(found) = 1
    <3>1. PICK c \in found : Goes(x, "matched", c, 0, "none")
      BY <2>1 DEF Match
    <3>2. c \in Channels
      BY DEF Holders
    <3> DEFINE r == [phase |-> "matched", channel |-> c, request |-> 0, result |-> "none"]
    <3>3. r \in Execution
      BY <3>2 DEF Execution, Phases
    <3> QED BY <3>1, <3>2, <3>3 DEF Goes
  <2>2. CASE Cardinality(found) # 1
    <3>1. Goes(x, "done", NoChannel, 0, "refused")
      BY <2>2 DEF Match
    <3> DEFINE r == [phase |-> "done", channel |-> NoChannel, request |-> 0, result |-> "refused"]
    <3>3. r \in Execution
      BY DEF Execution, Phases
    <3> QED BY <3>1, <3>3 DEF Goes
  <2> QED BY <2>1, <2>2
<1>3. Steady
  BY <1>2 DEF Steady, Active
<1>4. HubInv' /\ \A d \in Channels : RequestMoves(d) /\ ChannelMoves(d) /\ \A q \in Nat : Accepts(d, q)
  <2>1. channels' = Retired(Lapsed) /\ requests' = RetiredRequests(Lapsed) /\ phone' = phone /\ now' = now
    BY DEF Match
  <2> QED BY <2>1, <1>1, <1>3, RetiringKeeps
<1>5. calls'[x] = r
  BY <1>2 DEF HubInv, HubTypes
<1>6. CallMoves(x)
  BY <1>5, <1>2 DEF CallMoves
<1>7. now' = now /\ now \in Nat
  BY DEF Match, HubInv, HubTypes
<1>8. \A y \in Executions : CallMoves(y)
  BY <1>2, <1>6, OneMoves
<1> QED BY <1>4, <1>7, <1>8 DEF Moves

LEMMA ConnectKeeps == ASSUME HubAssumption, HubInv, NEW c \in Channels, Connect(c) PROVE HubInv' /\ Moves
<1>1. Lapsed \in SUBSET Channels
  BY DEF Lapsed
<1>2. calls' = calls /\ now' = now /\ phone' = phone /\ now \in Nat /\ requests' = RetiredRequests(Lapsed)
  BY DEF Connect, HubInv, HubTypes
<1>3. CASE channels' = Retired(Lapsed)
  <2>1. HubInv' /\ \A d \in Channels : RequestMoves(d) /\ ChannelMoves(d) /\ \A q \in Nat : Accepts(d, q)
    BY <1>1, <1>2, <1>3, RetiringKeeps, NobodyMoves
  <2> QED BY <2>1, <1>2, NobodyMoves DEF Moves
<1>4. CASE channels' # Retired(Lapsed)
  <2> DEFINE g == [Fresh EXCEPT !.state = "open", !.expires = now + LeaseSeconds]
  <2>1. channels' = [Retired(Lapsed) EXCEPT ![c] = g] /\ channels[c].state = "new"
    BY <1>4 DEF Connect
  <2>2. g \in Channel /\ g.state = "open" /\ g.completed = <<>> /\ \A k \in Calls : g.pending[k] = 0
    <3>1. LeaseSeconds \in Nat
      BY DEF HubAssumption
    <3>2. <<>> \in Seq(Calls)
      OBVIOUS
    <3>3. now + LeaseSeconds \in Nat
      BY <3>1, <1>2
    <3>4. Fresh \in Channel /\ Fresh.completed = <<>> /\ \A k \in Calls : Fresh.pending[k] = 0
      BY <3>2 DEF Fresh, Channel
    <3>5. g \in Channel
      BY <3>3, <3>4, Zenon DEF Channel
    <3>6. g.state = "open" /\ g.completed = Fresh.completed /\ g.pending = Fresh.pending
      BY <3>4, Zenon DEF Channel
    <3> QED BY <3>4, <3>5, <3>6
  <2> HIDE DEF g
  <2> DEFINE A(d) ==
      /\ Len(requests'[d]) = Last(d)
      /\ d \notin Lapsed => requests'[d] = requests[d]
      /\ d \in Lapsed => channels'[d].state = "retired" /\ \A k \in Calls : channels'[d].pending[k] = 0
      /\ d \notin Lapsed \cup {c} => channels'[d] = channels[d]
      /\ \A q \in 1 .. Last(d) :
           /\ requests'[d][q].call = requests[d][q].call
           /\ requests'[d][q].expires = requests[d][q].expires
           /\ requests'[d][q].waiters = requests[d][q].waiters
           /\ requests'[d][q].result # requests[d][q].result =>
                requests[d][q].result = "none" /\ requests'[d][q].result = "unavailable"
  <2>3. c \notin Lapsed
    BY <2>1 DEF Lapsed, Expired
  <2>4. channels' \in [Channels -> Channel] /\ requests' \in [Channels -> Seq(Request)] /\ channels'[c] = g
        /\ \A d \in Channels : A(d)
    <3>1. Retired(Lapsed) \in [Channels -> Channel] /\ requests' \in [Channels -> Seq(Request)]
      BY <1>1, <1>2, RetiredIs
    <3>2. channels' \in [Channels -> Channel] /\ channels'[c] = g /\ \A d \in Channels \ {c} : channels'[d] = Retired(Lapsed)[d]
      BY <3>1, <2>1, <2>2
    <3>3. ASSUME NEW d \in Channels PROVE A(d)
      <4>1. /\ Len(requests'[d]) = Last(d)
            /\ d \notin Lapsed => Retired(Lapsed)[d] = channels[d] /\ requests'[d] = requests[d]
            /\ d \in Lapsed => Retired(Lapsed)[d].state = "retired" /\ \A k \in Calls : Retired(Lapsed)[d].pending[k] = 0
            /\ \A q \in 1 .. Last(d) :
                 /\ requests'[d][q].call = requests[d][q].call
                 /\ requests'[d][q].expires = requests[d][q].expires
                 /\ requests'[d][q].waiters = requests[d][q].waiters
                 /\ requests'[d][q].result # requests[d][q].result =>
                      requests[d][q].result = "none" /\ requests'[d][q].result = "unavailable"
        BY <1>1, <1>2, RetiredIs
      <4> QED BY <4>1, <3>2, <2>3
    <3> QED BY <3>1, <3>2, <3>3
  <2>5. \A d \in Channels : Fed(d)'
    BY <2>4, <1>2, FedStays
  <2>6. HubInv'
    <3>1. \A d \in Channels :
           /\ Len(requests'[d]) = Last(d)
           /\ \A q \in 1 .. Last(d) : requests'[d][q].waiters = requests[d][q].waiters /\ requests'[d][q].call = requests[d][q].call
           /\ \A k \in Calls : channels'[d].pending[k] \in {0, channels[d].pending[k]}
           /\ channels'[d].state = "new" => channels[d].state = "new"
           /\ Fed(d)'
      <4> TAKE d \in Channels
      <4>1. A(d) /\ Fed(d)'
        BY <2>4, <2>5
      <4>2. CASE d = c
        BY <4>1, <4>2, <2>2, <2>4
      <4>3. CASE d # c
        BY <4>1, <4>3
      <4> QED BY <4>2, <4>3
    <3>2. phone' \in [after: [Channels -> Nat], got: [Channels -> SUBSET Nat], accepted: SUBSET (Channels \X Nat)]
      BY <1>2 DEF HubInv, HubTypes
    <3> QED BY <3>1, <3>2, <1>2, <2>4, HubKeeps, NobodyMoves
  <2>7. ASSUME NEW d \in Channels PROVE RequestMoves(d) /\ ChannelMoves(d)
    <3>1. A(d) /\ Last(d) \in Nat
      BY <2>4, LenProperties DEF HubInv, HubTypes, Last
    <3>2. RequestMoves(d)
      <4>1. CASE d \in Lapsed
        BY <3>1, <4>1 DEF RequestMoves
      <4>2. CASE d \notin Lapsed
        BY <3>1, <4>2 DEF RequestMoves
      <4> QED BY <4>1, <4>2
    <3>3. ChannelMoves(d)
      <4>1. CASE d = c
        <5>1. requests[c] = <<>>
          BY <2>1 DEF HubInv, Unused
        <5> QED BY <4>1, <5>1, <2>1, <2>2, <2>3, <2>4, <3>1 DEF ChannelMoves
      <4>2. CASE d # c
        <5>1. channels'[d].state # "open" \/ channels'[d] = channels[d]
          BY <4>2, <3>1
        <5> QED BY <5>1 DEF ChannelMoves
      <4> QED BY <4>1, <4>2
    <3> QED BY <3>2, <3>3
  <2>8. \A d \in Channels, q \in Nat : Accepts(d, q)
    BY <1>2 DEF Accepts
  <2> QED BY <1>2, <2>6, <2>7, <2>8, NobodyMoves DEF Moves
<1> QED BY <1>3, <1>4

\* What the phone hears is what comes next.
LEMMA PollKeeps ==
  ASSUME HubAssumption, HubInv, NEW c \in Channels, NEW heard \in BOOLEAN, Poll(c, heard)
  PROVE  HubInv' /\ Moves
<1> DEFINE first == Larger(channels[c].first, phone.after[c] + 1)
           last == Smaller(Last(c), first + MaxPollItems - 1)
           g == [channels[c] EXCEPT !.first = first, !.expires = now + LeaseSeconds]
<1>1. /\ channels' = [channels EXCEPT ![c] = g]
      /\ phone' = IF heard /\ first .. last # {}
                  THEN [phone EXCEPT !.after[c] = last, !.got[c] = phone.got[c] \cup (first .. last)]
                  ELSE phone
      /\ now' = now /\ requests' = requests /\ calls' = calls
      /\ ~(channels[c].first <= Last(c) /\ phone.after[c] < channels[c].first - 1)
  BY DEF Poll, PollWith
<1>2. /\ now \in Nat /\ channels[c] \in Channel /\ channels[c].first \in Nat \ {0} /\ phone.after[c] \in Nat /\ Last(c) \in Nat
      /\ MaxPollItems \in Nat \ {0} /\ LeaseSeconds \in Nat /\ Fed(c)
      /\ phone \in [after: [Channels -> Nat], got: [Channels -> SUBSET Nat], accepted: SUBSET (Channels \X Nat)]
  BY LenProperties DEF HubInv, HubTypes, Channel, HubAssumption, Last
<1>3. first \in Nat \ {0} /\ last \in Int /\ last <= Last(c)
      /\ (first <= last => first = phone.after[c] + 1)
  BY <1>1, <1>2 DEF Larger, Smaller
<1>4. g \in Channel /\ g.state = channels[c].state /\ g.pending = channels[c].pending /\ g.completed = channels[c].completed
  <2>1. now + LeaseSeconds \in Nat
    BY <1>2
  <2> HIDE DEF first
  <2>2. g \in Channel
    BY <2>1, <1>2, <1>3 DEF Channel
  <2> QED BY <2>2, <1>2 DEF Channel
<1> HIDE DEF g, first, last
<1>5. channels' \in [Channels -> Channel] /\ channels'[c] = g /\ \A d \in Channels \ {c} : channels'[d] = channels[d]
  BY <1>1, <1>4 DEF HubInv, HubTypes
<1>6. /\ phone' \in [after: [Channels -> Nat], got: [Channels -> SUBSET Nat], accepted: SUBSET (Channels \X Nat)]
      /\ phone'.accepted = phone.accepted /\ \A d \in Channels : Fed(d)'
  <2>1. CASE heard /\ first .. last # {}
    <3>1. last \in Nat /\ first <= last
      BY <2>1, <1>3
    <3>2. first .. last \in SUBSET Nat
      BY <1>3
    <3>3. phone' = [phone EXCEPT !.after[c] = last, !.got[c] = phone.got[c] \cup (first .. last)]
      BY <2>1, <1>1
    <3>4. phone'.after = [phone.after EXCEPT ![c] = last] /\ phone'.got = [phone.got EXCEPT ![c] = phone.got[c] \cup (first .. last)]
          /\ phone'.accepted = phone.accepted
          /\ phone' = [after |-> phone'.after, got |-> phone'.got, accepted |-> phone'.accepted]
      BY <3>3, <1>2
    <3>5. phone'.after \in [Channels -> Nat] /\ phone'.got \in [Channels -> SUBSET Nat]
      BY <3>1, <3>2, <3>4, <1>2
    <3>6. phone'.got[c] = 1 .. last /\ phone'.after[c] = last
      <4>1. phone'.got[c] = (1 .. phone.after[c]) \cup (first .. last) /\ phone'.after[c] = last
        BY <3>4, <1>2 DEF Fed
      <4>2. (1 .. phone.after[c]) \cup (first .. last) = 1 .. last
        BY <3>1, <1>2, <1>3
      <4> QED BY <4>1, <4>2
    <3>7. Fed(c)'
      BY <3>6, <1>1, <1>3 DEF Fed, Last
    <3>8. ASSUME NEW d \in Channels \ {c} PROVE Fed(d)'
      <4>1. phone'.got[d] = phone.got[d] /\ phone'.after[d] = phone.after[d] /\ Fed(d)
        BY <3>4, <1>2 DEF HubInv
      <4> QED BY <4>1, <1>1 DEF Fed, Last
    <3>9. phone' \in [after: [Channels -> Nat], got: [Channels -> SUBSET Nat], accepted: SUBSET (Channels \X Nat)]
      BY <3>4, <3>5, <1>2
    <3> QED BY <3>4, <3>7, <3>8, <3>9
  <2>2. CASE ~(heard /\ first .. last # {})
    <3>1. phone' = phone
      BY <2>2, <1>1
    <3>2. \A d \in Channels : Len(requests'[d]) = Last(d)
      BY <1>1 DEF Last
    <3> QED BY <3>1, <3>2, <1>2, FedStays
  <2> QED BY <2>1, <2>2
<1>7. \A d \in Channels : channels'[d].pending = channels[d].pending /\ channels'[d].state = channels[d].state
                          /\ channels'[d].completed = channels[d].completed
  BY <1>4, <1>5
<1>8. \A d \in Channels : requests[d] \in Seq(Request) /\ Last(d) \in Nat /\ Len(requests[d]) = Last(d)
  BY LenProperties DEF HubInv, HubTypes, Last
<1>9. HubInv'
  <2>1. requests' \in [Channels -> Seq(Request)]
    BY <1>1 DEF HubInv, HubTypes
  <2> QED BY <2>1, <1>1, <1>2, <1>5, <1>6, <1>7, <1>8, HubKeeps, NobodyMoves
<1>10. \A d \in Channels : RequestMoves(d)
  BY <1>1, <1>8 DEF RequestMoves
<1>11. \A d \in Channels : ChannelMoves(d)
  BY <1>7 DEF ChannelMoves
<1>12. \A d \in Channels, q \in Nat : Accepts(d, q)
  BY <1>6 DEF Accepts
<1> QED BY <1>1, <1>2, <1>9, <1>10, <1>11, <1>12, NobodyMoves DEF Moves

LEMMA TickKeeps == ASSUME HubAssumption, HubInv, Tick PROVE HubInv' /\ Moves
<1>1. now' = now + 1 /\ now \in Nat /\ channels' = channels /\ requests' = requests /\ calls' = calls /\ phone' = phone
  BY DEF Tick, HubInv, HubTypes
<1>2. \A d \in Channels : requests[d] \in Seq(Request) /\ Last(d) \in Nat /\ Len(requests[d]) = Last(d)
  BY LenProperties DEF HubInv, HubTypes, Last
<1>3. HubInv'
  <2>1. channels' \in [Channels -> Channel] /\ requests' \in [Channels -> Seq(Request)]
        /\ phone' \in [after: [Channels -> Nat], got: [Channels -> SUBSET Nat], accepted: SUBSET (Channels \X Nat)]
        /\ \A d \in Channels : Fed(d)'
    BY <1>1, <1>2, FedStays DEF HubInv, HubTypes
  <2> QED BY <2>1, <1>1, <1>2, HubKeeps, NobodyMoves
<1>4. \A d \in Channels : RequestMoves(d) /\ ChannelMoves(d) /\ \A q \in Nat : Accepts(d, q)
  BY <1>1, <1>2 DEF RequestMoves, ChannelMoves, Accepts
<1> QED BY <1>1, <1>3, <1>4, NobodyMoves DEF Moves

-----------------------------------------------------------------------------
\* A request is answered and its call gets its tombstone.
LEMMA AnswerKeeps ==
  ASSUME HubAssumption, HubInv, NEW c \in Channels, NEW q \in 1 .. Last(c), NEW v \in {"phone", "unavailable"},
         NEW g \in Channel, g.state = channels[c].state, g.pending = channels[c].pending,
         g.completed = Tombstones(channels[c].completed, requests[c][q].call),
         channels' = [channels EXCEPT ![c] = g],
         requests' = [requests EXCEPT ![c] = [requests[c] EXCEPT ![q] = Answered(requests[c][q], v)]],
         v = "phone" => now < requests[c][q].expires,
         now' = now, phone'.after = phone.after, phone'.got = phone.got,
         phone' \in [after: [Channels -> Nat], got: [Channels -> SUBSET Nat], accepted: SUBSET (Channels \X Nat)],
         Steady
  PROVE  /\ HubInv' /\ \A d \in Channels : RequestMoves(d) /\ ChannelMoves(d)
         /\ requests'[c][q].result = IF requests[c][q].result = "none" THEN v ELSE requests[c][q].result
<1>1. \A d \in Channels : requests[d] \in Seq(Request) /\ Last(d) \in Nat /\ Len(requests[d]) = Last(d)
                          /\ DOMAIN requests[d] = 1 .. Last(d) /\ channels[d] \in Channel
  BY LenProperties DEF HubInv, HubTypes, Last
<1>2. requests[c][q] \in Request
  BY <1>1, ElementOfSeq
<1> DEFINE a == Answered(requests[c][q], v)
           f == [requests[c] EXCEPT ![q] = a]
<1>3. /\ a \in Request /\ a.call = requests[c][q].call /\ a.expires = requests[c][q].expires
      /\ a.waiters = requests[c][q].waiters
      /\ a.result = IF requests[c][q].result = "none" THEN v ELSE requests[c][q].result
  BY <1>2, AnsweredIs
<1> HIDE DEF a
<1>4. f \in Seq(Request) /\ Len(f) = Last(c) /\ f[q] = a /\ \A i \in 1 .. Last(c) \ {q} : f[i] = requests[c][i]
  BY <1>1, <1>3, ExceptSeq
<1>5. requests' \in [Channels -> Seq(Request)] /\ requests'[c] = f /\ \A d \in Channels \ {c} : requests'[d] = requests[d]
  BY <1>4 DEF HubInv, HubTypes, a
<1>6. channels' \in [Channels -> Channel] /\ channels'[c] = g /\ \A d \in Channels \ {c} : channels'[d] = channels[d]
  BY DEF HubInv, HubTypes
<1> HIDE DEF f
<1>7. ASSUME NEW d \in Channels
      PROVE  /\ Len(requests'[d]) = Last(d)
             /\ \A i \in 1 .. Last(d) :
                  /\ requests'[d][i].waiters = requests[d][i].waiters
                  /\ requests'[d][i].call = requests[d][i].call /\ requests'[d][i].expires = requests[d][i].expires
                  /\ requests'[d][i].result # requests[d][i].result =>
                       d = c /\ i = q /\ requests[d][i].result = "none" /\ requests'[d][i].result = v
  <2>1. CASE d = c
    BY <2>1, <1>3, <1>4, <1>5
  <2>2. CASE d # c
    BY <2>2, <1>1, <1>5
  <2> QED BY <2>1, <2>2
<1>8. \A d \in Channels : channels'[d].state = channels[d].state /\ channels'[d].pending = channels[d].pending
  BY <1>6
<1>9. HubInv'
  <2>1. \A d \in Channels : Fed(d)'
    BY <1>1, <1>7, FedStays
  <2>2. now' \in Nat
    BY DEF HubInv, HubTypes
  <2> QED BY <2>1, <2>2, <1>5, <1>6, <1>7, <1>8, HubKeeps
<1>10. requests[c][q].call \in Calls /\ requests[c][q].call \in Completed(c)'
  <2>1. requests[c][q].call \in Calls /\ channels[c].completed \in Seq(Calls)
    BY <1>1, <1>2 DEF Request, Channel
  <2> DEFINE k == requests[c][q].call
             s == channels[c].completed
  <2>a. k \in Calls /\ s \in Seq(Calls) /\ g.completed = Tombstones(s, k)
    BY <2>1
  <2> HIDE DEF k, s
  <2>b. \E i \in DOMAIN g.completed : g.completed[i] = k
    BY <2>a, TombstonesAre
  <2>2. \E i \in DOMAIN g.completed : g.completed[i] = requests[c][q].call
    BY <2>b DEF k
  <2> QED BY <2>1, <2>2, <1>6 DEF Completed
<1>11. ASSUME NEW d \in Channels PROVE RequestMoves(d)
  <2>1. \A i \in 1 .. Last(d) :
          requests'[d][i].result # requests[d][i].result =>
            /\ requests[d][i].call \in Completed(d)'
            /\ requests'[d][i].result = "phone" => now < requests[d][i].expires
    <3> TAKE i \in 1 .. Last(d)
    <3> HAVE requests'[d][i].result # requests[d][i].result
    <3>1. d = c /\ i = q /\ requests'[d][i].result = v
      BY <1>7
    <3> QED BY <3>1, <1>10
  <2> QED BY <2>1, <1>7 DEF RequestMoves
<1>12. ASSUME NEW d \in Channels PROVE ChannelMoves(d)
  <2>1. CASE d = c
    BY <2>1, <1>6, <1>8, <1>10 DEF ChannelMoves
  <2>2. CASE d # c
    BY <2>2, <1>6 DEF ChannelMoves
  <2> QED BY <2>1, <2>2
<1>13. requests'[c][q].result = IF requests[c][q].result = "none" THEN v ELSE requests[c][q].result
  BY <1>3, <1>4, <1>5
<1> QED BY <1>9, <1>11, <1>12, <1>13

LEMMA PostResultKeeps ==
  ASSUME HubAssumption, HubInv, NEW c \in Channels, NEW q \in phone.got[c], PostResult(c, q)
  PROVE  HubInv' /\ Moves
<1> DEFINE call == requests[c][q].call
           p == channels[c].pending[call]
           late == now >= requests[c][p].expires
           v == IF late THEN "unavailable" ELSE "phone"
           e == IF late THEN channels[c].expires ELSE now + LeaseSeconds
           g == [channels[c] EXCEPT !.completed = Tombstones(channels[c].completed, call), !.expires = e]
<1>1. /\ channels[c].state = "open" /\ call \notin Completed(c) /\ p # 0
      /\ requests' = [requests EXCEPT ![c] = [requests[c] EXCEPT ![p] = Answered(requests[c][p], v)]]
      /\ channels' = [channels EXCEPT ![c] = g]
      /\ phone' = IF late THEN phone ELSE [phone EXCEPT !.accepted = phone.accepted \cup {<<c, p>>}]
      /\ now' = now /\ calls' = calls
  BY DEF PostResult, Usable
<1>2. /\ channels[c] \in Channel /\ requests[c] \in Seq(Request) /\ Last(c) \in Nat /\ now \in Nat /\ LeaseSeconds \in Nat
      /\ phone \in [after: [Channels -> Nat], got: [Channels -> SUBSET Nat], accepted: SUBSET (Channels \X Nat)]
  BY LenProperties DEF HubInv, HubTypes, Last, HubAssumption
<1>3. q \in 1 .. Last(c)
  <2>1. q \in 1 .. phone.after[c] /\ phone.after[c] <= Last(c) /\ phone.after[c] \in Nat
    BY <1>2 DEF HubInv, Fed
  <2> QED BY <2>1, <1>2
<1>4. call \in Calls
  <2>1. requests[c][q] \in Request
    BY <1>2, <1>3, ElementOfSeq DEF Last
  <2> QED BY <2>1 DEF Request
<1>5. p \in 1 .. Last(c) /\ requests[c][p].call = call
  <2>1. p \in Nat
    BY <1>2, <1>4 DEF Channel
  <2>2. Named(c)
    BY DEF HubInv
  <2> HIDE DEF call
  <2>3. channels[c].pending[call] # 0 =>
          channels[c].pending[call] <= Last(c) /\ requests[c][channels[c].pending[call]].call = call
    BY <1>4, <2>2 DEF Named
  <2> HIDE DEF p
  <2>4. p <= Last(c) /\ requests[c][p].call = call
    BY <1>1, <2>3 DEF p
  <2> QED BY <1>1, <1>2, <2>1, <2>4
<1> HIDE DEF call, p
<1>6. requests[c][p] \in Request
  BY <1>2, <1>5, ElementOfSeq DEF Last
<1>7. requests[c][p].expires \in Nat /\ e \in Nat
  <2>1. channels[c].expires \in Nat /\ now + LeaseSeconds \in Nat /\ requests[c][p].expires \in Nat
    <3>1. requests[c][p].expires \in Nat
      BY <1>6 DEF Request
    <3>2. channels[c].expires \in Nat
      BY <1>2 DEF Channel
    <3> QED BY <3>1, <3>2, <1>2
  <2> QED BY <2>1
<1>8. /\ g \in Channel /\ g.state = channels[c].state /\ g.pending = channels[c].pending
      /\ g.completed = Tombstones(channels[c].completed, requests[c][p].call)
  <2> HIDE DEF e
  <2>1. /\ g \in Channel /\ g.state = channels[c].state /\ g.pending = channels[c].pending
        /\ g.completed = Tombstones(channels[c].completed, call)
    <3>1. channels[c] \in Channel /\ call \in Calls /\ e \in Nat
      BY <1>2, <1>4, <1>7
    <3>2. Tombstones(channels[c].completed, call) \in Seq(Calls)
      BY <3>1, TombstonesAre DEF Channel
    <3>3. PICK h \in Channel, n \in Nat, t \in Seq(Calls) :
            h = channels[c] /\ n = e /\ t = Tombstones(channels[c].completed, call)
      BY <3>1, <3>2
    <3>4. g = [h EXCEPT !.completed = t, !.expires = n]
      BY <3>3, Zenon
    <3>5. [h EXCEPT !.completed = t, !.expires = n] \in Channel
      BY Zenon DEF Channel
    <3>6. /\ [h EXCEPT !.completed = t, !.expires = n].state = h.state
          /\ [h EXCEPT !.completed = t, !.expires = n].pending = h.pending
          /\ [h EXCEPT !.completed = t, !.expires = n].completed = t
      BY Zenon DEF Channel
    <3> HIDE DEF g
    <3> QED BY <3>3, <3>4, <3>5, <3>6, Zenon
  <2> QED BY <2>1, <1>5
<1>9. v \in {"phone", "unavailable"} /\ (v = "phone" => now < requests[c][p].expires)
  BY <1>2, <1>7
<1>10. /\ phone'.after = phone.after /\ phone'.got = phone.got
       /\ phone' \in [after: [Channels -> Nat], got: [Channels -> SUBSET Nat], accepted: SUBSET (Channels \X Nat)]
       /\ \A x : x \in phone'.accepted => x \in phone.accepted \/ (x = <<c, p>> /\ v = "phone")
  <2>1. <<c, p>> \in Channels \X Nat
    BY <1>2, <1>5
  <2> HIDE DEF late
  <2>2. CASE late
    BY <1>1, <1>2, <2>2
  <2>3. CASE ~late
    <3>1. phone' = [phone EXCEPT !.accepted = phone.accepted \cup {<<c, p>>}]
      BY <1>1, <2>3
    <3> QED BY <3>1, <1>2, <2>1, <2>3
  <2> QED BY <2>2, <2>3
<1> HIDE DEF late, v, g, e
<1>11. /\ HubInv' /\ \A d \in Channels : RequestMoves(d) /\ ChannelMoves(d)
       /\ requests'[c][p].result = IF requests[c][p].result = "none" THEN v ELSE requests[c][p].result
  <2>1. Steady
    BY <1>1, NobodyMoves
  <2>2. g \in Channel /\ p \in 1 .. Last(c) /\ v \in {"phone", "unavailable"}
    BY <1>5, <1>8, <1>9
  <2>3. /\ g.state = channels[c].state /\ g.pending = channels[c].pending
        /\ g.completed = Tombstones(channels[c].completed, requests[c][p].call)
        /\ channels' = [channels EXCEPT ![c] = g]
        /\ requests' = [requests EXCEPT ![c] = [requests[c] EXCEPT ![p] = Answered(requests[c][p], v)]]
        /\ v = "phone" => now < requests[c][p].expires
        /\ now' = now /\ phone'.after = phone.after /\ phone'.got = phone.got
        /\ phone' \in [after: [Channels -> Nat], got: [Channels -> SUBSET Nat], accepted: SUBSET (Channels \X Nat)]
    BY <1>1, <1>8, <1>9, <1>10
  <2> QED BY <2>1, <2>2, <2>3, AnswerKeeps
<1>12. ASSUME NEW d \in Channels, NEW i \in Nat PROVE Accepts(d, i)
  <2> SUFFICES ASSUME <<d, i>> \in phone'.accepted, <<d, i>> \notin phone.accepted
               PROVE  /\ i \in 1 .. Last(d) /\ channels[d].state = "open" /\ requests[d][i].call \notin Completed(d)
                      /\ requests[d][i].result = "none" => requests'[d][i].result = "phone"
    BY DEF Accepts
  <2>1. <<d, i>> = <<c, p>> /\ v = "phone"
    BY <1>10
  <2>2. d = c /\ i = p
    BY <2>1
  <2> QED BY <2>1, <2>2, <1>1, <1>5, <1>11
<1> QED BY <1>1, <1>2, <1>11, <1>12, NobodyMoves DEF Moves

-----------------------------------------------------------------------------
\* The request an execution waits for.
LEMMA WaitingIs ==
  ASSUME HubInv, NEW x \in Executions, calls[x].phase \in Active
  PROVE  /\ calls[x] \in Execution /\ calls[x].channel \in Channels /\ calls[x].request \in 1 .. Last(calls[x].channel)
         /\ Last(calls[x].channel) \in Nat /\ calls[x].request \in Nat \ {0}
         /\ requests[calls[x].channel][calls[x].request] \in Request
<1>1. calls[x] \in Execution /\ calls[x].channel \in Channels /\ calls[x].request \in 1 .. Last(calls[x].channel)
  BY DEF HubInv, HubTypes, Waits
<1>2. requests[calls[x].channel] \in Seq(Request)
  BY <1>1 DEF HubInv, HubTypes
<1>3. Last(calls[x].channel) \in Nat
  BY <1>2, LenProperties DEF Last
<1> QED BY <1>1, <1>2, <1>3, ElementOfSeq DEF Last

\* Only an execution moves.
LEMMA AloneKeeps ==
  ASSUME HubAssumption, HubInv, now' = now, channels' = channels, requests' = requests, phone' = phone,
         NEW x \in Executions, NEW r \in Execution, calls' = [calls EXCEPT ![x] = r],
         calls[x].phase \in Active, r.phase # "matched", r.channel = calls[x].channel, r.request = calls[x].request,
         CallMoves(x)
  PROVE  HubInv' /\ Moves
<1>1. Steady
  BY DEF Steady
<1>2. \A d \in Channels : requests[d] \in Seq(Request) /\ Last(d) \in Nat /\ Len(requests[d]) = Last(d)
  BY LenProperties DEF HubInv, HubTypes, Last
<1>3. now \in Nat /\ \A d \in Channels : Fed(d)'
  BY <1>2, FedStays DEF HubInv, HubTypes
<1>4. HubInv'
  <2>1. channels' \in [Channels -> Channel] /\ requests' \in [Channels -> Seq(Request)] /\ now' \in Nat
        /\ phone' \in [after: [Channels -> Nat], got: [Channels -> SUBSET Nat], accepted: SUBSET (Channels \X Nat)]
    BY DEF HubInv, HubTypes
  <2> QED BY <2>1, <1>1, <1>2, <1>3, HubKeeps
<1>5. \A d \in Channels : RequestMoves(d) /\ ChannelMoves(d) /\ \A q \in Nat : Accepts(d, q)
  BY <1>2 DEF RequestMoves, ChannelMoves, Accepts
<1>6. \A y \in Executions : CallMoves(y)
  BY OneMoves
<1> QED BY <1>3, <1>4, <1>5, <1>6 DEF Moves

LEMMA ReceiveKeeps == ASSUME HubAssumption, HubInv, NEW x \in Executions, Receive(x) PROVE HubInv' /\ Moves
<1> DEFINE r == [phase |-> "leaving", channel |-> calls[x].channel, request |-> calls[x].request, result |-> Asked(x).result]
<1>1. /\ calls' = [calls EXCEPT ![x] = r] /\ calls[x].phase = "waiting" /\ Asked(x).result # "none"
      /\ now' = now /\ channels' = channels /\ requests' = requests /\ phone' = phone
  BY DEF Receive, Goes
<1>2. r \in Execution
  BY <1>1, WaitingIs DEF Execution, Phases, Asked, Request, Active
<1>3. calls'[x] = r
  BY <1>1, <1>2 DEF HubInv, HubTypes
<1>4. CallMoves(x)
  <2>1. calls'[x].phase = "leaving" /\ Same(x) /\ calls'[x].result = Asked(x).result /\ Reply(x) = Asked(x).result
    BY <1>1, <1>3 DEF Same, Reply, Asked
  <2> QED BY <1>1, <2>1 DEF CallMoves
<1> QED BY <1>1, <1>2, <1>4, AloneKeeps DEF Active

LEMMA TimeOutKeeps == ASSUME HubAssumption, HubInv, NEW x \in Executions, TimeOut(x) PROVE HubInv' /\ Moves
<1> DEFINE r == [phase |-> "timed_out", channel |-> calls[x].channel, request |-> calls[x].request, result |-> "unavailable"]
<1>1. /\ calls' = [calls EXCEPT ![x] = r] /\ calls[x].phase = "waiting" /\ now >= Asked(x).expires
      /\ Asked(x).result = "none" \/ LoopLags
      /\ now' = now /\ channels' = channels /\ requests' = requests /\ phone' = phone
  BY DEF TimeOut, Goes
<1>2. r \in Execution
  BY <1>1, WaitingIs DEF Execution, Phases, Active
<1>3. calls'[x] = r
  BY <1>1, <1>2 DEF HubInv, HubTypes
<1>4. CallMoves(x)
  <2>1. calls'[x].phase = "timed_out" /\ Same(x) /\ Reply(x) = Asked(x).result
    BY <1>1, <1>3 DEF Same, Reply, Asked
  <2> QED BY <1>1, <2>1 DEF CallMoves
<1> QED BY <1>1, <1>2, <1>4, AloneKeeps DEF Active

LEMMA CancelKeeps == ASSUME HubAssumption, HubInv, NEW x \in Executions, Cancel(x) PROVE HubInv' /\ Moves
<1> DEFINE r == [phase |-> "leaving", channel |-> calls[x].channel, request |-> calls[x].request, result |-> "cancelled"]
<1>1. /\ calls' = [calls EXCEPT ![x] = r] /\ calls[x].phase = "waiting" /\ Cancels
      /\ now' = now /\ channels' = channels /\ requests' = requests /\ phone' = phone
  BY DEF Cancel, Goes
<1>2. r \in Execution
  BY <1>1, WaitingIs DEF Execution, Phases, Active
<1>3. calls'[x] = r
  BY <1>1, <1>2 DEF HubInv, HubTypes
<1>4. CallMoves(x)
  BY <1>1, <1>3 DEF CallMoves, Same
<1> QED BY <1>1, <1>2, <1>4, AloneKeeps DEF Active

LEMMA GiveUpKeeps == ASSUME HubAssumption, HubInv, NEW x \in Executions, GiveUp(x) PROVE HubInv' /\ Moves
<1>1. PICK c \in Channels, q \in 1 .. Last(calls[x].channel) : c = calls[x].channel /\ q = calls[x].request
  BY WaitingIs DEF GiveUp, Active
<1> DEFINE r == [phase |-> "leaving", channel |-> c, request |-> q, result |-> "unavailable"]
           t == Tombstones(channels[c].completed, requests[c][q].call)
           g == [channels[c] EXCEPT !.completed = t]
<1>2. /\ calls' = [calls EXCEPT ![x] = r] /\ calls[x].phase = "timed_out"
      /\ channels' = [channels EXCEPT ![c] = g]
      /\ requests' = [requests EXCEPT ![c] = [requests[c] EXCEPT ![q] = Answered(requests[c][q], "unavailable")]]
      /\ now' = now /\ phone' = phone
  BY <1>1 DEF GiveUp, Goes, Asked
<1>3. r \in Execution
  BY <1>1, WaitingIs, <1>2 DEF Execution, Phases, Active
<1>4. calls'[x] = r
  BY <1>2, <1>3 DEF HubInv, HubTypes
<1>5. /\ g \in Channel /\ g.state = channels[c].state /\ g.pending = channels[c].pending /\ g.completed = t
  <2>1. channels[c] \in Channel /\ requests[c][q].call \in Calls
    BY <1>1, <1>2, WaitingIs DEF HubInv, HubTypes, Request, Active
  <2>2. t \in Seq(Calls)
    BY <2>1, TombstonesAre DEF Channel
  <2> HIDE DEF t
  <2> QED BY <2>1, <2>2 DEF Channel
<1>6. Steady
  BY <1>1, <1>2, <1>3 DEF Steady, Active
<1>7. /\ HubInv' /\ \A d \in Channels : RequestMoves(d) /\ ChannelMoves(d)
      /\ requests'[c][q].result = IF requests[c][q].result = "none" THEN "unavailable" ELSE requests[c][q].result
  <2>1. phone' \in [after: [Channels -> Nat], got: [Channels -> SUBSET Nat], accepted: SUBSET (Channels \X Nat)]
    BY <1>2 DEF HubInv, HubTypes
  <2>2. q \in 1 .. Last(c)
    BY <1>1
  <2>3. phone'.after = phone.after /\ phone'.got = phone.got
    BY <1>2
  <2> HIDE DEF g
  <2>4. g \in Channel /\ g.state = channels[c].state /\ g.pending = channels[c].pending
        /\ g.completed = Tombstones(channels[c].completed, requests[c][q].call)
    BY <1>5
  <2> QED BY <2>1, <2>2, <2>3, <2>4, <1>2, <1>6, AnswerKeeps
<1>8. CallMoves(x)
  <2>1. calls'[x].phase = "leaving" /\ Same(x) /\ calls'[x].result = "unavailable"
    BY <1>1, <1>4 DEF Same
  <2>2. Reply(x) = requests'[c][q].result /\ Asked(x).result = requests[c][q].result
    BY <1>1, <1>4 DEF Reply, Asked
  <2>3. Reply(x) # "none" /\ (Reply(x) # Asked(x).result => Reply(x) = "unavailable")
    BY <2>2, <1>7
  <2> QED BY <1>2, <2>1, <2>3 DEF CallMoves
<1>9. \A y \in Executions : CallMoves(y)
  BY <1>2, <1>3, <1>8, OneMoves
<1>10. \A d \in Channels, i \in Nat : Accepts(d, i)
  BY <1>2 DEF Accepts
<1>11. now \in Nat
  BY DEF HubInv, HubTypes
<1> QED BY <1>2, <1>7, <1>9, <1>10, <1>11 DEF Moves

-----------------------------------------------------------------------------
\* An execution gets a request, or refuses.
LEMMA JoinKeeps ==
  ASSUME HubAssumption, HubInv, NEW x \in Executions, calls[x].phase = "matched", NEW c \in Channels,
         NEW p \in 1 .. Last(c), now' = now, channels' = channels, phone' = phone,
         requests' = [requests EXCEPT ![c] = [requests[c] EXCEPT ![p] =
           [requests[c][p] EXCEPT !.waiters = requests[c][p].waiters + 1]]],
         Goes(x, "waiting", c, p, "none")
  PROVE  HubInv' /\ Moves
<1>1. \A d \in Channels : requests[d] \in Seq(Request) /\ Last(d) \in Nat /\ Len(requests[d]) = Last(d)
                          /\ DOMAIN requests[d] = 1 .. Last(d) /\ channels[d] \in Channel
  BY LenProperties DEF HubInv, HubTypes, Last
<1>2. requests[c][p] \in Request
  BY <1>1, ElementOfSeq
<1> DEFINE a == [requests[c][p] EXCEPT !.waiters = requests[c][p].waiters + 1]
           f == [requests[c] EXCEPT ![p] = a]
           r == [phase |-> "waiting", channel |-> c, request |-> p, result |-> "none"]
<1>3. /\ a \in Request /\ a.call = requests[c][p].call /\ a.expires = requests[c][p].expires
      /\ a.result = requests[c][p].result
      /\ a.waiters = requests[c][p].waiters + 1 /\ requests[c][p].waiters \in Nat
  BY <1>2 DEF Request
<1> HIDE DEF a
<1>4. f \in Seq(Request) /\ Len(f) = Last(c) /\ f[p] = a /\ \A i \in 1 .. Last(c) \ {p} : f[i] = requests[c][i]
  BY <1>1, <1>3, ExceptSeq
<1>5. requests' \in [Channels -> Seq(Request)] /\ requests'[c] = f /\ \A d \in Channels \ {c} : requests'[d] = requests[d]
  BY <1>4 DEF HubInv, HubTypes, a
<1> HIDE DEF f
<1>6. r \in Execution /\ calls' = [calls EXCEPT ![x] = r]
  BY <1>1 DEF Execution, Phases, Goes
<1>7. calls' \in [Executions -> Execution] /\ calls'[x] = r /\ \A y \in Executions \ {x} : calls'[y] = calls[y]
  BY <1>6 DEF HubInv, HubTypes
<1>r. r.phase = "waiting" /\ r.channel = c /\ r.request = p
  OBVIOUS
<1> HIDE DEF r
<1>8. ASSUME NEW d \in Channels
      PROVE  /\ Len(requests'[d]) = Last(d) /\ Last(d)' = Last(d)
             /\ \A i \in 1 .. Last(d) :
                  /\ requests'[d][i].call = requests[d][i].call /\ requests'[d][i].expires = requests[d][i].expires
                  /\ requests'[d][i].result = requests[d][i].result
                  /\ d # c \/ i # p => requests'[d][i].waiters = requests[d][i].waiters
  <2>1. CASE d = c
    BY <2>1, <1>3, <1>4, <1>5 DEF Last
  <2>2. CASE d # c
    BY <2>2, <1>1, <1>5 DEF Last
  <2> QED BY <2>1, <2>2
<1>9. HubTypes'
  BY <1>5, <1>7 DEF HubInv, HubTypes
<1>10. ASSUME NEW d \in Channels PROVE Named(d)' /\ Fed(d)' /\ Unused(d)'
  <2>1. Fed(d)'
    BY <1>1, <1>8, FedStays
  <2>2. Named(d)' /\ Unused(d)'
    <3>1. /\ channels' \in [Channels -> Channel] /\ Len(requests'[d]) = Last(d)
          /\ \A i \in 1 .. Last(d) : requests'[d][i].call = requests[d][i].call
          /\ \A k \in Calls : channels'[d].pending[k] \in {0, channels[d].pending[k]}
          /\ channels'[d].state = "new" => channels[d].state = "new"
      BY <1>8 DEF HubInv, HubTypes
    <3> QED BY <3>1, <1>5, NamesKeep
  <2> QED BY <2>1, <2>2
<1>11. ASSUME NEW d \in Channels, NEW i \in 1 .. Last(d)' PROVE Counted(d, i)'
  <2>1. i \in 1 .. Last(d) /\ Counted(d, i)
    BY <1>8 DEF HubInv
  <2>2. requests[d][i] \in Request /\ requests[d][i].waiters \in Nat
    <3>1. requests[d][i] \in Request
      BY <1>1, <2>1, ElementOfSeq
    <3> QED BY <3>1 DEF Request
  <2>3. CASE d = c /\ i = p
    <3>1. Waiters(d, i)' = Waiters(d, i) \cup {x}
      BY <1>6, <1>r, <2>3, WaitersMove DEF Active
    <3>2. /\ IsFiniteSet(Waiters(d, i)') /\ Cardinality(Waiters(d, i)') <= Cardinality(Waiters(d, i)) + 1
          /\ Cardinality(Waiters(d, i)') \in Nat /\ Cardinality(Waiters(d, i)) \in Nat
      BY <2>1, <3>1, CountsRise DEF Counted
    <3>3. requests'[d][i].waiters = requests[d][i].waiters + 1
      BY <2>3, <1>3, <1>4, <1>5
    <3> QED BY <2>1, <2>2, <3>2, <3>3 DEF Counted
  <2>4. CASE ~(d = c /\ i = p)
    <3>0. ~(r.phase \in Active /\ r.channel = d /\ r.request = i)
      BY <1>r, <2>4
    <3>1. Waiters(d, i)' = Waiters(d, i) \ {x}
      BY <1>6, <3>0, WaitersMove
    <3>2. /\ IsFiniteSet(Waiters(d, i)') /\ Cardinality(Waiters(d, i)') <= Cardinality(Waiters(d, i))
          /\ Cardinality(Waiters(d, i)') \in Nat /\ Cardinality(Waiters(d, i)) \in Nat
      BY <2>1, <3>1, CountsFall DEF Counted
    <3>3. requests'[d][i].waiters = requests[d][i].waiters
      BY <2>1, <2>4, <1>8
    <3> QED BY <2>1, <2>2, <3>2, <3>3 DEF Counted
  <2> QED BY <2>3, <2>4
<1>12. ASSUME NEW y \in Executions PROVE Waits(y)'
  <2>1. CASE y = x
    BY <2>1, <1>r, <1>7, <1>8 DEF Waits, Active
  <2>2. CASE y # x
    BY <2>2, <1>7, <1>8 DEF Waits, HubInv
  <2> QED BY <2>1, <2>2
<1>13. HubInv'
  BY <1>9, <1>10, <1>11, <1>12 DEF HubInv
<1>14. \A d \in Channels : RequestMoves(d)
  BY <1>1, <1>8 DEF RequestMoves
<1>15. \A d \in Channels : ChannelMoves(d)
  BY DEF ChannelMoves
<1>16. \A d \in Channels, i \in Nat : Accepts(d, i)
  BY DEF Accepts
<1>17. \A y \in Executions : CallMoves(y)
  <2>1. CallMoves(x)
    BY <1>r, <1>7 DEF CallMoves
  <2> QED BY <1>6, <2>1, OneMoves
<1>18. now <= now'
  BY DEF HubInv, HubTypes
<1> QED BY <1>13, <1>14, <1>15, <1>16, <1>17, <1>18 DEF Moves

LEMMA QueueKeeps ==
  ASSUME HubAssumption, HubInv, NEW x \in Executions, calls[x].phase = "matched", NEW c \in Channels,
         channels[c].state = "open", channels[c].pending[CallOf[x]] = 0, CallOf[x] \notin Completed(c),
         now' = now, phone' = phone, Queue(x, c)
  PROVE  HubInv' /\ Moves
<1>1. \A d \in Channels : requests[d] \in Seq(Request) /\ Last(d) \in Nat /\ Len(requests[d]) = Last(d)
                          /\ DOMAIN requests[d] = 1 .. Last(d) /\ channels[d] \in Channel
  BY LenProperties DEF HubInv, HubTypes, Last
<1>2. CallOf[x] \in Calls /\ LeaseSeconds \in Nat /\ now \in Nat /\ now + LeaseSeconds \in Nat /\ MaxQueue \in Nat
  BY DEF HubAssumption, HubInv, HubTypes
<1>3. PICK k \in Calls, q \in Nat : k = CallOf[x] /\ q = Last(c) + 1
  BY <1>1, <1>2
<1> DEFINE a == [call |-> k, work |-> WorkOf[x], expires |-> now + LeaseSeconds, waiters |-> 1, result |-> "none"]
           f == Append(requests[c], a)
           first == Larger(channels[c].first, q - MaxQueue + 1)
           g == [channels[c] EXCEPT !.pending[k] = q, !.first = first]
           r == [phase |-> "waiting", channel |-> c, request |-> q, result |-> "none"]
<1>4. a \in Request /\ a.call = k /\ a.result = "none" /\ a.waiters = 1
  BY <1>2 DEF Request
<1>5. /\ requests' = [requests EXCEPT ![c] = f] /\ channels' = [channels EXCEPT ![c] = g]
      /\ calls' = [calls EXCEPT ![x] = r]
  BY <1>3 DEF Queue, Goes
<1> HIDE DEF a
<1>6. f \in Seq(Request) /\ Len(f) = q /\ f[q] = a /\ \A i \in 1 .. Last(c) : f[i] = requests[c][i]
  BY <1>1, <1>3, <1>4, AppendProperties
<1>7. first \in Nat \ {0}
  <2>1. channels[c].first \in Nat \ {0}
    BY <1>1 DEF Channel
  <2>2. q - MaxQueue + 1 \in Int
    BY <1>2, <1>3
  <2>3. first = IF channels[c].first > q - MaxQueue + 1 THEN channels[c].first ELSE q - MaxQueue + 1
    BY DEF Larger
  <2> QED BY <2>1, <2>2, <2>3
<1> HIDE DEF f, first
<1>8. /\ g \in Channel /\ g.state = "open" /\ g.completed = channels[c].completed
      /\ g.pending[k] = q /\ \A j \in Calls \ {k} : g.pending[j] = channels[c].pending[j]
  <2>1. PICK h \in Channel, n \in Nat \ {0} : h = channels[c] /\ n = first
    BY <1>1, <1>7
  <2>2. PICK m \in [Calls -> Nat] : m = [h.pending EXCEPT ![k] = q]
    BY <1>3, <2>1 DEF Channel
  <2>3. g = [h EXCEPT !.pending[k] = q, !.first = n]
    BY <2>1, Zenon
  <2>4. [h EXCEPT !.pending[k] = q] = [h EXCEPT !.pending = m]
    BY <2>2, Zenon
  <2>5. PICK i \in Channel : i = [h EXCEPT !.pending = m]
    BY <2>1, <2>2 DEF Channel
  <2>6. [h EXCEPT !.pending[k] = q, !.first = n] = [i EXCEPT !.first = n]
    BY <2>4, <2>5, Zenon
  <2>7. g = [i EXCEPT !.first = n]
    BY <2>3, <2>6, Zenon
  <2> HIDE DEF g
  <2>8. g \in Channel /\ g.state = i.state /\ g.completed = i.completed /\ g.pending = i.pending
    BY <2>1, <2>5, <2>7 DEF Channel
  <2>9. i.state = h.state /\ i.completed = h.completed /\ i.pending = m
    BY <2>1, <2>2, <2>5 DEF Channel
  <2>10. m[k] = q /\ \A j \in Calls \ {k} : m[j] = h.pending[j]
    BY <2>1, <2>2, <1>3 DEF Channel
  <2> QED BY <2>1, <2>8, <2>9, <2>10
<1>9. r \in Execution /\ r.phase = "waiting" /\ r.channel = c /\ r.request = q
  BY <1>3 DEF Execution, Phases
<1> HIDE DEF g, r
<1>10. requests' \in [Channels -> Seq(Request)] /\ requests'[c] = f /\ \A d \in Channels \ {c} : requests'[d] = requests[d]
  BY <1>5, <1>6 DEF HubInv, HubTypes
<1>11. channels' \in [Channels -> Channel] /\ channels'[c] = g /\ \A d \in Channels \ {c} : channels'[d] = channels[d]
  BY <1>5, <1>8 DEF HubInv, HubTypes
<1>12. calls' \in [Executions -> Execution] /\ calls'[x] = r /\ \A y \in Executions \ {x} : calls'[y] = calls[y]
  BY <1>5, <1>9 DEF HubInv, HubTypes
<1>13. ASSUME NEW d \in Channels
       PROVE  /\ Last(d)' = Len(requests'[d]) /\ Last(d)' = IF d = c THEN q ELSE Last(d)
              /\ \A i \in 1 .. Last(d) : requests'[d][i] = requests[d][i]
  <2>1. CASE d = c
    BY <2>1, <1>6, <1>10 DEF Last
  <2>2. CASE d # c
    BY <2>2, <1>1, <1>10 DEF Last
  <2> QED BY <2>1, <2>2
<1>14. HubTypes'
  BY <1>10, <1>11, <1>12 DEF HubInv, HubTypes
<1>15. ASSUME NEW d \in Channels PROVE Named(d)' /\ Fed(d)' /\ Unused(d)'
  <2>1. Fed(d)'
    BY <1>1, <1>3, <1>13, FedStays
  <2>2. Named(d)'
    <3>1. Named(d) /\ channels[d] \in Channel
      BY <1>1 DEF HubInv
    <3>2. ASSUME NEW j \in Calls, channels[d].pending[j] # 0
          PROVE  channels[d].pending[j] \in 1 .. Last(d) /\ requests[d][channels[d].pending[j]].call = j
      BY <1>1, <3>1, <3>2 DEF Named, Channel
    <3>3. CASE d # c
      BY <3>2, <3>3, <1>1, <1>11, <1>13 DEF Named
    <3>4. CASE d = c
      <4> SUFFICES ASSUME NEW j \in Calls, channels'[d].pending[j] # 0
                   PROVE  /\ channels'[d].pending[j] <= Last(d)'
                          /\ requests'[d][channels'[d].pending[j]].call = j
        BY DEF Named
      <4>1. CASE j = k
        <5>1. channels'[d].pending[j] = q /\ Last(d)' = q /\ requests'[d][q].call = k
          BY <3>4, <4>1, <1>4, <1>6, <1>8, <1>10, <1>11, <1>13
        <5> QED BY <4>1, <5>1, <1>3
      <4>2. CASE j # k
        <5>1. channels'[d].pending[j] = channels[d].pending[j] /\ channels[d].pending[j] # 0
          BY <3>4, <4>2, <1>8, <1>11
        <5>2. channels[d].pending[j] \in 1 .. Last(d) /\ requests[d][channels[d].pending[j]].call = j
          BY <3>2, <5>1
        <5> QED BY <3>4, <5>1, <5>2, <1>1, <1>3, <1>13
      <4> QED BY <4>1, <4>2
    <3> QED BY <3>3, <3>4
  <2>3. Unused(d)'
    <3>1. CASE d = c
      BY <3>1, <1>8, <1>11 DEF Unused
    <3>2. CASE d # c
      BY <3>2, <1>10, <1>11 DEF HubInv, Unused
    <3> QED BY <3>1, <3>2
  <2> QED BY <2>1, <2>2, <2>3
<1>w. \A d, i : ~(r.phase \in Active /\ r.channel = d /\ r.request = i) => Waiters(d, i)' = Waiters(d, i) \ {x}
  BY <1>12 DEF Waiters
<1>16. ASSUME NEW d \in Channels, NEW i \in 1 .. Last(d)' PROVE Counted(d, i)'
  <2>1. CASE d = c /\ i = q
    <3>1. Waiters(d, i) = {}
      <4>1. \A y \in Executions : Waits(y)
        BY DEF HubInv
      <4>2. ~(q \in 1 .. Last(c))
        BY <1>1, <1>3
      <4> QED BY <2>1, <4>1, <4>2 DEF Waiters, Waits
    <3>2. Waiters(d, i)' = Waiters(d, i) \cup {x}
      BY <1>5, <1>9, <2>1, WaitersMove DEF Active
    <3>3. Waiters(d, i)' = {x}
      BY <3>1, <3>2
    <3>4. IsFiniteSet(Waiters(d, i)') /\ Cardinality(Waiters(d, i)') = 1
      BY <3>3, FS_Singleton
    <3>5. requests'[d][i].waiters = 1
      BY <2>1, <1>4, <1>6, <1>10
    <3> QED BY <3>4, <3>5 DEF Counted
  <2>2. CASE ~(d = c /\ i = q)
    <3>1. i \in 1 .. Last(d)
      BY <2>2, <1>1, <1>3, <1>13
    <3>2. Counted(d, i) /\ requests'[d][i] = requests[d][i]
      BY <3>1, <1>13 DEF HubInv
    <3>3. requests[d][i].waiters \in Nat
      <4>1. requests[d][i] \in Request
        BY <1>1, <3>1, ElementOfSeq
      <4> QED BY <4>1 DEF Request
    <3>4. ~(r.phase \in Active /\ r.channel = d /\ r.request = i)
      BY <1>9, <2>2
    <3>5. Waiters(d, i)' = Waiters(d, i) \ {x}
      BY <1>w, <3>4
    <3>6. /\ IsFiniteSet(Waiters(d, i)') /\ Cardinality(Waiters(d, i)') <= Cardinality(Waiters(d, i))
          /\ Cardinality(Waiters(d, i)') \in Nat /\ Cardinality(Waiters(d, i)) \in Nat
      BY <3>2, <3>5, CountsFall DEF Counted
    <3> QED BY <3>2, <3>3, <3>6 DEF Counted
  <2> QED BY <2>1, <2>2
<1>17. ASSUME NEW y \in Executions PROVE Waits(y)'
  <2>1. CASE y = x
    BY <2>1, <1>1, <1>3, <1>9, <1>12, <1>13 DEF Waits, Active
  <2>2. CASE y # x
    <3>1. Waits(y) /\ calls'[y] = calls[y]
      BY <2>2, <1>12 DEF HubInv
    <3>2. ASSUME calls[y].phase \in Active
          PROVE  calls[y].channel \in Channels /\ calls[y].request \in 1 .. Last(calls[y].channel)'
      <4>1. calls[y].channel \in Channels /\ calls[y].request \in 1 .. Last(calls[y].channel)
        BY <3>1, <3>2 DEF Waits
      <4>2. PICK d \in Channels : d = calls[y].channel
        BY <4>1
      <4>3. Last(d) \in Nat /\ Last(d)' \in Nat /\ Last(d) <= Last(d)'
        BY <1>1, <1>3, <1>13
      <4> QED BY <3>1, <4>1, <4>2, <4>3
    <3> QED BY <3>1, <3>2 DEF Waits
  <2> QED BY <2>1, <2>2
<1>18. HubInv'
  BY <1>14, <1>15, <1>16, <1>17 DEF HubInv
<1>19. ASSUME NEW d \in Channels PROVE RequestMoves(d)
  <2>1. CASE d = c
    <3>1. Len(requests'[d]) = Last(d) + 1 /\ requests'[d][Last(d) + 1].result = "none" /\ requests'[d][Last(d) + 1].call = k
      BY <2>1, <1>3, <1>4, <1>6, <1>10
    <3>2. channels[d].pending[k] = 0 /\ channels'[d].pending[k] = Last(d) + 1 /\ k \notin Completed(d)
      BY <2>1, <1>3, <1>8, <1>11
    <3> QED BY <2>1, <3>1, <3>2, <1>13 DEF RequestMoves
  <2>2. CASE d # c
    BY <2>2, <1>1, <1>10 DEF RequestMoves
  <2> QED BY <2>1, <2>2
<1>20. ASSUME NEW d \in Channels PROVE ChannelMoves(d)
  <2>1. CASE d = c
    BY <2>1, <1>3, <1>8, <1>11 DEF ChannelMoves
  <2>2. CASE d # c
    BY <2>2, <1>11 DEF ChannelMoves
  <2> QED BY <2>1, <2>2
<1>21. \A d \in Channels, i \in Nat : Accepts(d, i)
  BY DEF Accepts
<1>22. \A y \in Executions : CallMoves(y)
  <2>1. CallMoves(x)
    BY <1>9, <1>12 DEF CallMoves
  <2> QED BY <1>5, <1>9, <2>1, OneMoves
<1> QED BY <1>2, <1>18, <1>19, <1>20, <1>21, <1>22 DEF Moves

LEMMA RefusedKeeps ==
  ASSUME HubAssumption, HubInv, NEW x \in Executions, calls[x].phase = "matched", NEW c \in Channels,
         NEW R \in SUBSET Channels, channels' = Retired(R), requests' = RetiredRequests(R),
         now' = now, phone' = phone, Goes(x, "done", c, 0, "refused")
  PROVE  HubInv' /\ Moves
<1> DEFINE r == [phase |-> "done", channel |-> c, request |-> 0, result |-> "refused"]
<1>1. r \in Execution /\ calls' = [calls EXCEPT ![x] = r]
  BY DEF Execution, Phases, Goes
<1>2. Steady
  BY <1>1 DEF Steady, Active
<1>3. HubInv' /\ \A d \in Channels : RequestMoves(d) /\ ChannelMoves(d) /\ \A q \in Nat : Accepts(d, q)
  BY <1>2, RetiringKeeps
<1>4. calls'[x] = r
  BY <1>1 DEF HubInv, HubTypes
<1>5. CallMoves(x)
  BY <1>4 DEF CallMoves
<1>6. \A y \in Executions : CallMoves(y)
  BY <1>1, <1>5, OneMoves
<1>7. now \in Nat
  BY DEF HubInv, HubTypes
<1> QED BY <1>3, <1>6, <1>7 DEF Moves

LEMMA NobodyRetired ==
  ASSUME HubAssumption, HubInv
  PROVE  Retired({}) = channels /\ RetiredRequests({}) = requests
<1>1. Retired({}) \in [Channels -> Channel] /\ RetiredRequests({}) \in [Channels -> Seq(Request)]
      /\ \A c \in Channels : Retired({})[c] = channels[c] /\ RetiredRequests({})[c] = requests[c]
  <2>1. {} \in SUBSET Channels
    OBVIOUS
  <2>2. \A c \in Channels : c \notin {}
    OBVIOUS
  <2> QED BY <2>1, <2>2, RetiredIs
<1>2. channels \in [Channels -> Channel] /\ requests \in [Channels -> Seq(Request)]
  BY DEF HubInv, HubTypes
<1>3. Retired({}) = channels
  BY <1>1, <1>2
<1>4. RetiredRequests({}) = requests
  BY <1>1, <1>2
<1> QED BY <1>3, <1>4

LEMMA EnqueueKeeps == ASSUME HubAssumption, HubInv, NEW x \in Executions, Enqueue(x) PROVE HubInv' /\ Moves
<1>1. calls[x].phase = "matched" /\ now' = now /\ phone' = phone
  BY DEF Enqueue
<1>2. PICK c \in Channels : c = calls[x].channel
  BY <1>1 DEF HubInv, Waits
<1> DEFINE k == CallOf[x]
           p == channels[c].pending[k]
<1>3. \/ /\ Goes(x, "done", c, 0, "refused")
         /\ channels' = Retired(Lapsed \cap {c}) /\ requests' = RetiredRequests(Lapsed \cap {c})
      \/ channels[c].state = "open" /\ Join(x, c, p)
      \/ Goes(x, "done", c, 0, "refused") /\ channels' = channels /\ requests' = requests
      \/ channels[c].state = "open" /\ p = 0 /\ k \notin Completed(c) /\ Queue(x, c)
  BY <1>2 DEF Enqueue, Usable
<1>4. CASE /\ Goes(x, "done", c, 0, "refused")
           /\ channels' = Retired(Lapsed \cap {c}) /\ requests' = RetiredRequests(Lapsed \cap {c})
  <2>1. Lapsed \cap {c} \in SUBSET Channels
    OBVIOUS
  <2> QED BY <1>1, <1>4, <2>1, RefusedKeeps
<1>5. ASSUME Goes(x, "done", c, 0, "refused"), channels' = channels, requests' = requests PROVE HubInv' /\ Moves
  <2>1. {} \in SUBSET Channels
    OBVIOUS
  <2> QED BY <1>1, <1>5, <2>1, NobodyRetired, RefusedKeeps
<1>6. CASE channels[c].state = "open" /\ Join(x, c, p)
  <2>1. p # 0 /\ channels' = channels
    BY <1>6 DEF Join
  <2>2. CASE requests[c][p].work = WorkOf[x]
    <3>1. p \in 1 .. Last(c)
      <4>1. CallOf[x] \in Calls /\ channels[c] \in Channel /\ Named(c) /\ Last(c) \in Nat
        BY LenProperties DEF HubAssumption, HubInv, HubTypes, Last
      <4>2. p \in Nat /\ p <= Last(c)
        BY <2>1, <4>1 DEF Named, Channel
      <4> QED BY <2>1, <4>1, <4>2
    <3>2. /\ requests' = [requests EXCEPT ![c] = [requests[c] EXCEPT ![p] =
               [requests[c][p] EXCEPT !.waiters = requests[c][p].waiters + 1]]]
          /\ Goes(x, "waiting", c, p, "none")
      BY <1>6, <2>2 DEF Join
    <3> HIDE DEF p
    <3> QED BY <1>1, <2>1, <3>1, <3>2, JoinKeeps
  <2>3. CASE requests[c][p].work # WorkOf[x]
    <3>1. Goes(x, "done", c, 0, "refused") /\ requests' = requests
      BY <1>6, <2>3 DEF Join
    <3> QED BY <2>1, <3>1, <1>5
  <2> QED BY <2>2, <2>3
<1>7. CASE channels[c].state = "open" /\ p = 0 /\ k \notin Completed(c) /\ Queue(x, c)
  BY <1>1, <1>7, QueueKeeps
<1> QED BY <1>3, <1>4, <1>5, <1>6, <1>7

\* An execution leaves its request, which counts one fewer.
LEMMA DropKeeps ==
  ASSUME HubAssumption, HubInv, NEW x \in Executions, NEW c \in Channels, NEW q \in 1 .. Last(c),
         calls[x].phase = "leaving", calls[x].channel = c, calls[x].request = q,
         now' = now, phone' = phone,
         NEW g \in Channel, g.state = channels[c].state, g.completed = channels[c].completed,
         \A k \in Calls : \/ g.pending[k] = channels[c].pending[k]
                          \/ g.pending[k] = 0 /\ channels[c].pending[k] = q,
         channels' = [channels EXCEPT ![c] = g],
         requests' = [requests EXCEPT ![c] = [requests[c] EXCEPT ![q] =
           [requests[c][q] EXCEPT !.waiters = requests[c][q].waiters - 1]]],
         Goes(x, "done", c, q, calls[x].result)
  PROVE  HubInv' /\ Moves
<1>1. \A d \in Channels : requests[d] \in Seq(Request) /\ Last(d) \in Nat /\ Len(requests[d]) = Last(d)
                          /\ DOMAIN requests[d] = 1 .. Last(d) /\ channels[d] \in Channel
  BY LenProperties DEF HubInv, HubTypes, Last
<1>2. requests[c][q] \in Request /\ calls[x] \in Execution
  BY <1>1, ElementOfSeq DEF HubInv, HubTypes
<1>3. x \in Waiters(c, q) /\ Counted(c, q) /\ requests[c][q].waiters \in Nat
  BY <1>2 DEF Waiters, Active, HubInv, Request
<1>l. PICK left : left = requests[c][q].waiters - 1
  OBVIOUS
<1>4. left \in Nat /\ Cardinality(Waiters(c, q) \ {x}) <= left /\ IsFiniteSet(Waiters(c, q) \ {x})
  <2>1. IsFiniteSet(Waiters(c, q)) /\ Cardinality(Waiters(c, q)) <= requests[c][q].waiters
    BY <1>3 DEF Counted
  <2>2. IsFiniteSet(Waiters(c, q) \ {x}) /\ Cardinality(Waiters(c, q) \ {x}) = Cardinality(Waiters(c, q)) - 1
    BY <2>1, <1>3, FS_RemoveElement
  <2>3. Cardinality(Waiters(c, q) \ {x}) \in Nat /\ Cardinality(Waiters(c, q)) \in Nat
    BY <2>1, <2>2, FS_CardinalityType
  <2> QED BY <1>l, <1>3, <2>1, <2>2, <2>3
<1> DEFINE a == [requests[c][q] EXCEPT !.waiters = left]
           f == [requests[c] EXCEPT ![q] = a]
           r == [phase |-> "done", channel |-> c, request |-> q, result |-> calls[x].result]
<1>5. /\ a \in Request /\ a.call = requests[c][q].call /\ a.expires = requests[c][q].expires
      /\ a.result = requests[c][q].result /\ a.waiters = left
  BY <1>2, <1>4 DEF Request
<1> HIDE DEF a
<1>6. f \in Seq(Request) /\ Len(f) = Last(c) /\ f[q] = a /\ \A i \in 1 .. Last(c) \ {q} : f[i] = requests[c][i]
  BY <1>1, <1>5, ExceptSeq
<1>7. requests' \in [Channels -> Seq(Request)] /\ requests'[c] = f /\ \A d \in Channels \ {c} : requests'[d] = requests[d]
  BY <1>l, <1>6 DEF HubInv, HubTypes, a
<1>8. channels' \in [Channels -> Channel] /\ channels'[c] = g /\ \A d \in Channels \ {c} : channels'[d] = channels[d]
  BY DEF HubInv, HubTypes
<1> HIDE DEF f
<1>9. r \in Execution /\ calls' = [calls EXCEPT ![x] = r]
  BY <1>1, <1>2 DEF Execution, Phases, Goes
<1>10. calls' \in [Executions -> Execution] /\ calls'[x] = r /\ \A y \in Executions \ {x} : calls'[y] = calls[y]
  BY <1>9 DEF HubInv, HubTypes
<1>r. r.phase = "done" /\ r.channel = c /\ r.request = q /\ r.result = calls[x].result
  OBVIOUS
<1> HIDE DEF r
<1>11. ASSUME NEW d \in Channels
       PROVE  /\ Len(requests'[d]) = Last(d) /\ Last(d)' = Last(d)
              /\ \A i \in 1 .. Last(d) :
                   /\ requests'[d][i].call = requests[d][i].call /\ requests'[d][i].expires = requests[d][i].expires
                   /\ requests'[d][i].result = requests[d][i].result
                   /\ d # c \/ i # q => requests'[d][i].waiters = requests[d][i].waiters
  <2>1. CASE d = c
    BY <2>1, <1>5, <1>6, <1>7 DEF Last
  <2>2. CASE d # c
    BY <2>2, <1>1, <1>7 DEF Last
  <2> QED BY <2>1, <2>2
<1>12. HubTypes'
  BY <1>7, <1>8, <1>10 DEF HubInv, HubTypes
<1>13. ASSUME NEW d \in Channels PROVE Named(d)' /\ Fed(d)' /\ Unused(d)'
  <2>1. Fed(d)'
    BY <1>1, <1>11, FedStays
  <2>2. /\ Len(requests'[d]) = Last(d)
        /\ \A i \in 1 .. Last(d) : requests'[d][i].call = requests[d][i].call
        /\ \A k \in Calls : channels'[d].pending[k] \in {0, channels[d].pending[k]}
        /\ channels'[d].state = "new" => channels[d].state = "new"
    <3>1. CASE d = c
      BY <3>1, <1>8, <1>11
    <3>2. CASE d # c
      BY <3>2, <1>8, <1>11
    <3> QED BY <3>1, <3>2
  <2> QED BY <2>1, <2>2, <1>7, <1>8, NamesKeep
<1>14. ASSUME NEW d \in Channels, NEW i \in 1 .. Last(d)' PROVE Counted(d, i)'
  <2>1. i \in 1 .. Last(d) /\ Counted(d, i)
    BY <1>11 DEF HubInv
  <2>2. Waiters(d, i)' = Waiters(d, i) \ {x}
    <3>1. calls'[x].phase \notin Active
      BY <1>r, <1>10 DEF Active
    <3> QED BY <1>10, <3>1 DEF Waiters
  <2>3. CASE d = c /\ i = q
    <3>1. requests'[d][i].waiters = left
      BY <2>3, <1>5, <1>6, <1>7
    <3> QED BY <2>2, <2>3, <3>1, <1>4 DEF Counted
  <2>4. CASE ~(d = c /\ i = q)
    <3>1. /\ IsFiniteSet(Waiters(d, i)') /\ Cardinality(Waiters(d, i)') <= Cardinality(Waiters(d, i))
          /\ Cardinality(Waiters(d, i)') \in Nat /\ Cardinality(Waiters(d, i)) \in Nat
      BY <2>1, <2>2, CountsFall DEF Counted
    <3>2. requests'[d][i].waiters = requests[d][i].waiters /\ requests[d][i].waiters \in Nat
      <4>1. requests[d][i] \in Request
        BY <1>1, <2>1, ElementOfSeq
      <4> QED BY <2>1, <2>4, <4>1, <1>11 DEF Request
    <3> QED BY <2>1, <3>1, <3>2 DEF Counted
  <2> QED BY <2>3, <2>4
<1>15. ASSUME NEW y \in Executions PROVE Waits(y)'
  <2>1. CASE y = x
    BY <2>1, <1>r, <1>10 DEF Waits, Active
  <2>2. CASE y # x
    BY <2>2, <1>10, <1>11 DEF Waits, HubInv
  <2> QED BY <2>1, <2>2
<1>16. HubInv'
  BY <1>12, <1>13, <1>14, <1>15 DEF HubInv
<1>17. \A d \in Channels : RequestMoves(d)
  <2> TAKE d \in Channels
  <2>1. Len(requests'[d]) = Last(d)
    BY <1>11
  <2>2. \A i \in 1 .. Last(d) :
          /\ requests'[d][i].call = requests[d][i].call /\ requests'[d][i].expires = requests[d][i].expires
          /\ requests'[d][i].result = requests[d][i].result
    BY <1>11
  <2> QED BY <2>1, <2>2 DEF RequestMoves
<1>18. ASSUME NEW d \in Channels PROVE ChannelMoves(d)
  <2>1. CASE d = c
    BY <2>1, <1>8 DEF ChannelMoves
  <2>2. CASE d # c
    BY <2>2, <1>8 DEF ChannelMoves
  <2> QED BY <2>1, <2>2
<1>19. \A d \in Channels, i \in Nat : Accepts(d, i)
  BY DEF Accepts
<1>20. \A y \in Executions : CallMoves(y)
  <2>1. CallMoves(x)
    BY <1>r, <1>10 DEF CallMoves, Same
  <2> QED BY <1>9, <2>1, OneMoves
<1>21. now <= now'
  BY DEF HubInv, HubTypes
<1> QED BY <1>16, <1>17, <1>18, <1>19, <1>20, <1>21 DEF Moves

LEMMA LeaveKeeps == ASSUME HubAssumption, HubInv, NEW x \in Executions, Leave(x) PROVE HubInv' /\ Moves
<1>1. calls[x].phase = "leaving" /\ now' = now /\ phone' = phone
  BY DEF Leave
<1>2. PICK c \in Channels, q \in 1 .. Last(calls[x].channel) : c = calls[x].channel /\ q = calls[x].request
  BY <1>1, WaitingIs DEF Active
<1>3. q \in 1 .. Last(c) /\ requests[c][q] \in Request /\ channels[c] \in Channel /\ calls[x] \in Execution
  BY <1>1, <1>2, WaitingIs DEF Active, HubInv, HubTypes
<1>4. Goes(x, "done", c, q, calls[x].result)
  BY <1>2 DEF Leave
<1>5. PICK k \in Calls : k = requests[c][q].call
  BY <1>3 DEF Request
<1>6. CASE channels[c].pending[k] = q
  <2>2. requests' = [requests EXCEPT ![c] = [requests[c] EXCEPT ![q] =
          [requests[c][q] EXCEPT !.waiters = requests[c][q].waiters - 1]]]
    BY <1>2, <1>5, <1>6 DEF Leave, Asked
  <2>3. channels' = channels \/ channels' = [channels EXCEPT ![c] = [channels[c] EXCEPT !.pending[k] = 0]]
    BY <1>2, <1>5, <1>6 DEF Leave, Asked
  <2> DEFINE Drops(g) ==
          /\ g.state = channels[c].state /\ g.completed = channels[c].completed
          /\ \A j \in Calls : \/ g.pending[j] = channels[c].pending[j]
                              \/ g.pending[j] = 0 /\ channels[c].pending[j] = q
          /\ channels' = [channels EXCEPT ![c] = g]
  <2>4. \E g \in Channel : Drops(g)
    <3>1. CASE channels' = channels
      <4>1. channels' = [channels EXCEPT ![c] = channels[c]]
        BY <3>1 DEF HubInv, HubTypes
      <4>2. Drops(channels[c])
        BY <4>1
      <4> HIDE DEF Drops
      <4> QED BY <1>3, <4>2
    <3>2. CASE channels' = [channels EXCEPT ![c] = [channels[c] EXCEPT !.pending[k] = 0]]
      <4>1. PICK h \in Channel : h = channels[c]
        BY <1>3
      <4>2. PICK m \in [Calls -> Nat] : m = [h.pending EXCEPT ![k] = 0]
        BY DEF Channel
      <4>3. [h EXCEPT !.pending[k] = 0] = [h EXCEPT !.pending = m]
        BY <4>2, Zenon
      <4>4. PICK g \in Channel : g = [h EXCEPT !.pending = m]
        BY DEF Channel
      <4>5. g.state = h.state /\ g.completed = h.completed /\ g.pending = m
        BY <4>4 DEF Channel
      <4>6. m[k] = 0 /\ \A j \in Calls \ {k} : m[j] = h.pending[j]
        BY <4>2 DEF Channel
      <4>7. \A j \in Calls : g.pending[j] = channels[c].pending[j] \/ (g.pending[j] = 0 /\ channels[c].pending[j] = q)
        BY <1>6, <4>1, <4>5, <4>6
      <4>8. channels' = [channels EXCEPT ![c] = g]
        BY <3>2, <4>1, <4>3, <4>4, Zenon
      <4>9. Drops(g)
        BY <4>1, <4>5, <4>7, <4>8
      <4> HIDE DEF Drops
      <4> QED BY <4>9
    <3> QED BY <2>3, <3>1, <3>2
  <2>5. PICK g \in Channel : Drops(g)
    BY <2>4
  <2>6. calls[x].channel = c /\ calls[x].request = q
    BY <1>2
  <2>7. /\ calls[x].phase = "leaving" /\ calls[x].channel = c /\ calls[x].request = q
        /\ now' = now /\ phone' = phone /\ q \in 1 .. Last(c)
        /\ g.state = channels[c].state /\ g.completed = channels[c].completed
        /\ \A j \in Calls : \/ g.pending[j] = channels[c].pending[j]
                            \/ g.pending[j] = 0 /\ channels[c].pending[j] = q
        /\ channels' = [channels EXCEPT ![c] = g]
    BY <1>1, <1>3, <2>5, <2>6
  <2> HIDE DEF Drops
  <2> QED BY <1>2, <1>4, <2>2, <2>5, <2>7, DropKeeps
<1>7. CASE channels[c].pending[k] # q
  <2> DEFINE r == [phase |-> "done", channel |-> c, request |-> q, result |-> calls[x].result]
  <2>1. channels' = channels /\ requests' = requests
    BY <1>2, <1>5, <1>7 DEF Leave, Asked
  <2>2. r \in Execution /\ calls' = [calls EXCEPT ![x] = r]
    BY <1>3, <1>4 DEF Execution, Phases, Goes
  <2>3. calls'[x] = r
    BY <2>2 DEF HubInv, HubTypes
  <2>4. CallMoves(x)
    BY <1>1, <1>2, <2>3 DEF CallMoves, Same
  <2>5. r.phase # "matched" /\ r.channel = calls[x].channel /\ r.request = calls[x].request
    BY <1>2
  <2> QED BY <1>1, <2>1, <2>2, <2>4, <2>5, AloneKeeps DEF Active
<1> QED BY <1>6, <1>7

-----------------------------------------------------------------------------
\* The hub begins with its invariant.
LEMMA InitHub == ASSUME HubAssumption, Init PROVE HubInv
<1>1. Fresh \in Channel /\ Fresh.state = "new" /\ \A k \in Calls : Fresh.pending[k] = 0
  <2>1. <<>> \in Seq(Calls)
    OBVIOUS
  <2> QED BY <2>1 DEF Fresh, Channel
<1>2. HubTypes
  <2>1. channels \in [Channels -> Channel] /\ requests \in [Channels -> Seq(Request)]
    BY <1>1 DEF Init
  <2>2. calls \in [Executions -> Execution]
    BY DEF Init, Execution, Phases
  <2>3. phone \in [after: [Channels -> Nat], got: [Channels -> SUBSET Nat], accepted: SUBSET (Channels \X Nat)]
    BY DEF Init
  <2>4. now \in Nat
    BY DEF Init
  <2> QED BY <2>1, <2>2, <2>3, <2>4 DEF HubTypes
<1>3. ASSUME NEW c \in Channels PROVE Named(c) /\ Fed(c) /\ Unused(c) /\ \A q \in 1 .. Last(c) : Counted(c, q)
  <2>1. requests[c] = <<>> /\ Last(c) = 0 /\ channels[c] = Fresh /\ phone.after[c] = 0 /\ phone.got[c] = {}
    BY DEF Init, Last
  <2>2. Fed(c)
    BY <2>1 DEF Fed
  <2>3. \A q \in 1 .. Last(c) : FALSE
    BY <2>1
  <2> QED BY <2>1, <2>2, <2>3, <1>1 DEF Named, Unused
<1>4. \A x \in Executions : Waits(x)
  BY DEF Init, Waits, Active
<1> QED BY <1>2, <1>3, <1>4 DEF HubInv

LEMMA StutterKeeps == ASSUME HubAssumption, HubInv, UNCHANGED vars PROVE HubInv' /\ Moves
<1>1. now' = now /\ now \in Nat /\ channels' = channels /\ requests' = requests /\ calls' = calls /\ phone' = phone
  BY DEF vars, HubInv, HubTypes
<1>2. \A d \in Channels : requests[d] \in Seq(Request) /\ Last(d) \in Nat /\ Len(requests[d]) = Last(d)
  BY LenProperties DEF HubInv, HubTypes, Last
<1>3. HubInv'
  <2>1. channels' \in [Channels -> Channel] /\ requests' \in [Channels -> Seq(Request)]
        /\ phone' \in [after: [Channels -> Nat], got: [Channels -> SUBSET Nat], accepted: SUBSET (Channels \X Nat)]
        /\ \A d \in Channels : Fed(d)'
    BY <1>1, <1>2, FedStays DEF HubInv, HubTypes
  <2> QED BY <2>1, <1>1, <1>2, HubKeeps, NobodyMoves
<1>4. \A d \in Channels : RequestMoves(d) /\ ChannelMoves(d) /\ \A q \in Nat : Accepts(d, q)
  BY <1>1, <1>2 DEF RequestMoves, ChannelMoves, Accepts
<1> QED BY <1>1, <1>3, <1>4, NobodyMoves DEF Moves

\* Every step of the hub keeps it, and moves requests, channels and calls only as Moves says.
LEMMA NextHub == ASSUME HubAssumption, HubInv, [Next]_vars PROVE HubInv' /\ Moves
<1>1. ASSUME NEW c \in Channels,
             \/ Connect(c) \/ Refuse(c) \/ Close(c)
             \/ \E heard \in BOOLEAN : Poll(c, heard)
             \/ \E q \in phone.got[c] : PostResult(c, q)
      PROVE  HubInv' /\ Moves
  BY <1>1, ConnectKeeps, RefuseKeeps, CloseKeeps, PollKeeps, PostResultKeeps
<1>2. ASSUME NEW x \in Executions, Match(x) \/ Cancel(x) \/ Wakes(x)
      PROVE  HubInv' /\ Moves
  BY <1>2, MatchKeeps, CancelKeeps, ReceiveKeeps, TimeOutKeeps, GiveUpKeeps, LeaveKeeps, EnqueueKeeps DEF Wakes
<1>3. CASE Unload
  BY <1>3, UnloadKeeps
<1>4. CASE Tick
  BY <1>4, TickKeeps
<1>5. CASE UNCHANGED vars
  BY <1>5, StutterKeeps
<1> QED BY <1>1, <1>2, <1>3, <1>4, <1>5 DEF Next

LEMMA HubTells == ASSUME HubAssumption, HubInv PROVE TypeOK /\ FeedHasNoHoles
<1>1. \A c \in Channels : requests[c] \in Seq(Request) /\ Last(c) \in Nat /\ DOMAIN requests[c] = 1 .. Last(c)
                          /\ channels[c] \in Channel /\ phone.after[c] \in Nat
  BY LenProperties DEF HubInv, HubTypes, Last
<1>2. FeedHasNoHoles
  BY DEF HubInv, Fed, FeedHasNoHoles
<1>3. ASSUME NEW c \in Channels
      PROVE  /\ \A q \in DOMAIN requests[c] : requests[c][q] \in Request
             /\ \A k \in Calls : channels[c].pending[k] \in 0 .. Last(c)
             /\ phone.got[c] \subseteq DOMAIN requests[c] /\ phone.after[c] \in Nat
  <2>1. \A q \in DOMAIN requests[c] : requests[c][q] \in Request
    BY <1>1, ElementOfSeq DEF Last
  <2>2. \A k \in Calls : channels[c].pending[k] \in Nat
    BY <1>1 DEF Channel
  <2>3. \A k \in Calls : channels[c].pending[k] \in 0 .. Last(c)
    <3>1. Named(c)
      BY DEF HubInv
    <3> QED BY <1>1, <2>2, <3>1 DEF Named
  <2>4. phone.got[c] \subseteq DOMAIN requests[c]
    <3>1. Fed(c)
      BY DEF HubInv
    <3> QED BY <1>1, <3>1 DEF Fed
  <2> QED BY <1>1, <2>1, <2>3, <2>4
<1>4. TypeOK
  BY <1>3 DEF TypeOK, HubInv, HubTypes
<1> QED BY <1>2, <1>4

-----------------------------------------------------------------------------
(* While a channel's tombstones hold all its calls: none is dropped.        *)
Remembers == IsFiniteSet(Calls) /\ Cardinality(Calls) <= MaxCompleted
Distinct(s) == \A i, j \in DOMAIN s : s[i] = s[j] => i = j

LEMMA TombstonesStay ==
  ASSUME HubAssumption, Remembers, NEW s \in Seq(Calls), Distinct(s), NEW k \in Calls
  PROVE  /\ Distinct(Tombstones(s, k))
         /\ \A i \in DOMAIN s : \E j \in DOMAIN Tombstones(s, k) : Tombstones(s, k)[j] = s[i]
<1> DEFINE t == Append(s, k)
<1>1. /\ t \in Seq(Calls) /\ Len(t) = Len(s) + 1 /\ t[Len(s) + 1] = k /\ Len(s) \in Nat
      /\ DOMAIN t = 1 .. Len(s) + 1 /\ DOMAIN s = 1 .. Len(s) /\ \A i \in 1 .. Len(s) : t[i] = s[i]
  BY AppendProperties, LenProperties
<1> HIDE DEF t
<1>2. CASE \E i \in DOMAIN s : s[i] = k
  BY <1>2 DEF Tombstones
<1>3. CASE ~(\E i \in DOMAIN s : s[i] = k)
  <2>1. \A i, j \in 1 .. Len(s) + 1 : t[i] = t[j] => i = j
    <3> TAKE i, j \in 1 .. Len(s) + 1
    <3> HAVE t[i] = t[j]
    <3>1. i \in 1 .. Len(s) \/ i = Len(s) + 1
      BY <1>1
    <3>2. j \in 1 .. Len(s) \/ j = Len(s) + 1
      BY <1>1
    <3> QED BY <1>1, <1>3, <3>1, <3>2 DEF Distinct
  <2>2. t \in Injection(1 .. Len(s) + 1, Calls)
    <3>1. t \in [1 .. Len(s) + 1 -> Calls]
      BY <1>1, LenProperties
    <3> QED BY <2>1, <3>1 DEF Injection, IsInjective
  <2>3. Cardinality(1 .. Len(s) + 1) <= Cardinality(Calls)
    BY <2>2, FS_Injection DEF Remembers
  <2>4. Cardinality(1 .. Len(s) + 1) = Len(s) + 1
    BY <1>1, FS_Interval
  <2>5. MaxCompleted \in Nat /\ Cardinality(Calls) \in Nat
    BY FS_CardinalityType DEF Remembers, HubAssumption
  <2>6. Len(t) <= MaxCompleted
    BY <1>1, <2>3, <2>4, <2>5 DEF Remembers
  <2>7. Tombstones(s, k) = t
    <3>1. ~(Len(t) > MaxCompleted)
      BY <1>1, <2>5, <2>6
    <3> QED BY <1>3, <3>1 DEF Tombstones, t
  <2>8. Distinct(t)
    BY <1>1, <2>1 DEF Distinct
  <2>9. \A i \in DOMAIN s : i \in DOMAIN t /\ t[i] = s[i]
    BY <1>1
  <2> QED BY <2>7, <2>8, <2>9
<1> QED BY <1>2, <1>3

\* A request that was answered has its call's tombstone; one whose result was accepted has it;
\* who leaves a request has been told its result, or was cancelled.
Settles(c) == channels[c].state = "open" =>
  /\ Distinct(channels[c].completed)
  /\ \A q \in 1 .. Last(c) : requests[c][q].result # "none" => requests[c][q].call \in Completed(c)
AcceptedIs(c, q) == <<c, q>> \in phone.accepted => q \in 1 .. Last(c) /\ requests[c][q].result = "phone"
Leaves(x) == calls[x].phase = "leaving" => (Cancels /\ calls[x].result = "cancelled") \/ Asked(x).result # "none"

ResultInv ==
  /\ HubInv
  /\ \A c \in Channels : Settles(c) /\ \A q \in Nat : AcceptedIs(c, q)
  /\ \A x \in Executions : Leaves(x)

\* What a step keeps of a channel's requests and tombstones.
LEMMA RequestsStay ==
  ASSUME HubInv, HubInv', Moves, NEW c \in Channels
  PROVE  /\ Last(c) \in Nat /\ Last(c)' \in Nat /\ Last(c) <= Last(c)' /\ Last(c)' <= Last(c) + 1
         /\ \A q \in 1 .. Last(c) :
              /\ requests[c][q] \in Request
              /\ requests'[c][q].call = requests[c][q].call /\ requests'[c][q].expires = requests[c][q].expires
              /\ requests[c][q].result # "none" => requests'[c][q].result = requests[c][q].result
              /\ requests'[c][q].result = "phone" /\ requests[c][q].result # "phone" => now < requests[c][q].expires
<1>1. requests[c] \in Seq(Request) /\ requests'[c] \in Seq(Request) /\ RequestMoves(c)
  BY DEF HubInv, HubTypes, Moves
<1>2. Last(c) \in Nat /\ Last(c)' \in Nat /\ Last(c)' = Len(requests'[c])
  BY <1>1, LenProperties DEF Last
<1>3. Last(c)' \in {Last(c), Last(c) + 1}
  BY <1>1, <1>2 DEF RequestMoves
<1>4. \A q \in 1 .. Last(c) : requests[c][q] \in Request
  BY <1>1, ElementOfSeq DEF Last
<1>5. \A q \in 1 .. Last(c) :
              /\ requests'[c][q].call = requests[c][q].call /\ requests'[c][q].expires = requests[c][q].expires
              /\ requests[c][q].result # "none" => requests'[c][q].result = requests[c][q].result
              /\ requests'[c][q].result = "phone" /\ requests[c][q].result # "phone" => now < requests[c][q].expires
  BY <1>1 DEF RequestMoves
<1> QED BY <1>2, <1>3, <1>4, <1>5

LEMMA TombstonesGrow ==
  ASSUME HubAssumption, Remembers, HubInv, Moves, NEW c \in Channels, Settles(c),
         channels[c].state = "open", channels'[c].state = "open"
  PROVE  Completed(c) \subseteq Completed(c)' /\ Distinct(channels'[c].completed)
<1>1. channels[c].completed \in Seq(Calls) /\ Distinct(channels[c].completed)
  BY DEF HubInv, HubTypes, Channel, Settles
<1>2. \/ channels'[c].completed = channels[c].completed
      \/ \E k \in Calls : channels'[c].completed = Tombstones(channels[c].completed, k)
  BY DEF Moves, ChannelMoves
<1>3. CASE channels'[c].completed = channels[c].completed
  BY <1>1, <1>3 DEF Completed
<1>4. CASE \E k \in Calls : channels'[c].completed = Tombstones(channels[c].completed, k)
  <2>1. PICK k \in Calls : channels'[c].completed = Tombstones(channels[c].completed, k)
    BY <1>4
  <2>2. /\ Distinct(channels'[c].completed)
        /\ \A i \in DOMAIN channels[c].completed :
             \E j \in DOMAIN channels'[c].completed : channels'[c].completed[j] = channels[c].completed[i]
    BY <1>1, <2>1, TombstonesStay
  <2> QED BY <2>2 DEF Completed
<1> QED BY <1>2, <1>3, <1>4

LEMMA SettlesKeeps ==
  ASSUME HubAssumption, Remembers, HubInv, HubInv', Moves, NEW c \in Channels, Settles(c)
  PROVE  Settles(c)'
<1> SUFFICES ASSUME channels'[c].state = "open"
             PROVE  /\ Distinct(channels'[c].completed)
                    /\ \A q \in 1 .. Last(c)' : requests'[c][q].result # "none" => requests'[c][q].call \in Completed(c)'
  BY DEF Settles
<1>1. CASE channels[c].state # "open"
  <2>1. channels'[c].completed = <<>> /\ requests'[c] = <<>>
    BY <1>1 DEF Moves, ChannelMoves
  <2>2. Last(c)' = 0
    BY <2>1 DEF Last
  <2> QED BY <2>1, <2>2 DEF Distinct
<1>2. CASE channels[c].state = "open"
  <2>1. Completed(c) \subseteq Completed(c)' /\ Distinct(channels'[c].completed)
    BY <1>2, TombstonesGrow
  <2>2. Last(c) \in Nat /\ Last(c)' \in Nat /\ Last(c)' <= Last(c) + 1
    BY RequestsStay
  <2>3. RequestMoves(c) /\ Last(c)' = Len(requests'[c])
    BY DEF Moves, Last
  <2>4. ASSUME NEW q \in 1 .. Last(c)', requests'[c][q].result # "none" PROVE requests'[c][q].call \in Completed(c)'
    <3>1. CASE q \in 1 .. Last(c)
      <4>1. requests'[c][q].call = requests[c][q].call
        BY <3>1, RequestsStay
      <4>2. CASE requests[c][q].result # "none"
        BY <1>2, <2>1, <3>1, <4>1, <4>2 DEF Settles
      <4>3. CASE requests[c][q].result = "none"
        BY <2>3, <2>4, <3>1, <4>1, <4>3 DEF RequestMoves
      <4> QED BY <4>2, <4>3
    <3>2. CASE q \notin 1 .. Last(c)
      <4>1. q = Last(c) + 1 /\ Last(c)' # Last(c)
        BY <2>2, <3>2
      <4>2. requests'[c][q].result = "none"
        BY <2>3, <4>1 DEF RequestMoves
      <4> QED BY <2>4, <4>2
    <3> QED BY <3>1, <3>2
  <2> QED BY <2>1, <2>4
<1> QED BY <1>1, <1>2

LEMMA AcceptedStays ==
  ASSUME HubAssumption, HubInv, HubInv', Moves, NEW c \in Channels, Settles(c), NEW q \in Nat, AcceptedIs(c, q)
  PROVE  AcceptedIs(c, q)'
<1> SUFFICES ASSUME <<c, q>> \in phone'.accepted
             PROVE  q \in 1 .. Last(c)' /\ requests'[c][q].result = "phone"
  BY DEF AcceptedIs
<1>1. Last(c) \in Nat /\ Last(c)' \in Nat /\ Last(c) <= Last(c)'
  BY RequestsStay
<1>2. CASE <<c, q>> \in phone.accepted
  <2>1. q \in 1 .. Last(c) /\ requests[c][q].result = "phone"
    BY <1>2 DEF AcceptedIs
  <2>2. requests'[c][q].result = "phone"
    BY <2>1, RequestsStay
  <2> QED BY <1>1, <2>1, <2>2
<1>3. CASE <<c, q>> \notin phone.accepted
  <2>1. /\ q \in 1 .. Last(c) /\ channels[c].state = "open" /\ requests[c][q].call \notin Completed(c)
        /\ requests[c][q].result = "none" => requests'[c][q].result = "phone"
    BY <1>3 DEF Moves, Accepts
  <2>2. requests[c][q].result = "none"
    BY <2>1 DEF Settles
  <2> QED BY <1>1, <2>1, <2>2
<1> QED BY <1>2, <1>3

\* The request of an execution, after a step.
LEMMA AskedStays ==
  ASSUME HubInv, HubInv', Moves, NEW x \in Executions, Same(x), calls[x].channel \in Channels,
         calls[x].request \in 1 .. Last(calls[x].channel)
  PROVE  /\ Asked(x) \in Request /\ Asked(x)' = requests'[calls[x].channel][calls[x].request]
         /\ Asked(x)'.expires = Asked(x).expires
         /\ Asked(x).result # "none" => Asked(x)'.result = Asked(x).result
         /\ Asked(x)'.result = "phone" /\ Asked(x).result # "phone" => now < Asked(x).expires
         /\ calls'[x].channel \in Channels /\ calls'[x].request \in 1 .. Last(calls[x].channel)'
<1>1. PICK c \in Channels, q \in 1 .. Last(calls[x].channel) : c = calls[x].channel /\ q = calls[x].request
  OBVIOUS
<1>2. Asked(x) = requests[c][q] /\ Asked(x)' = requests'[c][q] /\ q \in 1 .. Last(c)
      /\ calls'[x].channel = c /\ calls'[x].request = q
  BY <1>1 DEF Asked, Same
<1>3. Last(c) \in Nat /\ Last(c)' \in Nat /\ Last(c) <= Last(c)' /\ q \in Nat
  BY <1>2, RequestsStay
<1>4. /\ requests[c][q] \in Request
      /\ requests'[c][q].call = requests[c][q].call /\ requests'[c][q].expires = requests[c][q].expires
      /\ requests[c][q].result # "none" => requests'[c][q].result = requests[c][q].result
      /\ requests'[c][q].result = "phone" /\ requests[c][q].result # "phone" => now < requests[c][q].expires
  BY <1>2, RequestsStay
<1>5. q \in 1 .. Last(c)'
  BY <1>2, <1>3
<1>6. Last(calls[x].channel)' = Last(c)'
  BY <1>2 DEF Last
<1> QED BY <1>1, <1>2, <1>4, <1>5, <1>6

LEMMA LeavesKeeps ==
  ASSUME HubAssumption, HubInv, HubInv', Moves, NEW x \in Executions, Leaves(x)
  PROVE  Leaves(x)'
<1> SUFFICES ASSUME calls'[x].phase = "leaving", ~(Cancels /\ calls'[x].result = "cancelled")
             PROVE  Asked(x)'.result # "none"
  BY DEF Leaves
<1>1. CASE calls'[x] = calls[x]
  <2>1. calls[x].phase = "leaving" /\ Same(x) /\ Asked(x).result # "none"
    BY <1>1 DEF Leaves, Same
  <2>2. calls[x].channel \in Channels /\ calls[x].request \in 1 .. Last(calls[x].channel)
    BY <2>1, WaitingIs DEF Active
  <2> QED BY <2>1, <2>2, AskedStays
<1>2. CASE calls'[x] # calls[x]
  <2>1. Same(x) /\ Reply(x) # "none" /\ calls[x].phase \in Active
    BY <1>2 DEF Moves, CallMoves, Active
  <2>2. Asked(x)' = requests'[calls[x].channel][calls[x].request]
    BY <2>1 DEF Asked, Same
  <2> QED BY <2>1, <2>2 DEF Reply
<1> QED BY <1>1, <1>2

\* What is asked, answered and waited for stays consistent while no tombstone is dropped.
LEMMA ResultInvKeeps ==
  ASSUME HubAssumption, Remembers, ResultInv, [Next]_vars
  PROVE  ResultInv' /\ HubInv' /\ Moves
<1>1. HubInv /\ HubInv' /\ Moves
  BY NextHub DEF ResultInv
<1>2. \A c \in Channels : Settles(c)'
  BY <1>1, SettlesKeeps DEF ResultInv
<1>3. \A c \in Channels, q \in Nat : AcceptedIs(c, q)'
  BY <1>1, AcceptedStays DEF ResultInv
<1>4. \A x \in Executions : Leaves(x)'
  BY <1>1, LeavesKeeps DEF ResultInv
<1> QED BY <1>1, <1>2, <1>3, <1>4 DEF ResultInv

LEMMA InitResults == ASSUME HubAssumption, Init PROVE ResultInv
<1>1. HubInv
  BY InitHub
<1>2. \A c \in Channels : channels[c].state = "new" /\ \A q \in Nat : <<c, q>> \notin phone.accepted
  BY DEF Init, Fresh
<1>3. \A x \in Executions : calls[x].phase = "idle"
  BY DEF Init
<1> QED BY <1>1, <1>2, <1>3 DEF ResultInv, Settles, AcceptedIs, Leaves

-----------------------------------------------------------------------------
\* Unless loops lag: who gave up did so before a result was accepted; who left a request was
\* told what it says.
Delivers(x) ==
  /\ calls[x].phase = "timed_out" => now >= Asked(x).expires /\ Asked(x).result # "phone"
  /\ calls[x].phase \in {"leaving", "done"} /\ calls[x].request # 0 =>
       /\ calls[x].channel \in Channels /\ calls[x].request \in 1 .. Last(calls[x].channel)
       /\ calls[x].result = "cancelled" \/ (calls[x].result = Asked(x).result /\ Asked(x).result # "none")

LEMMA DeliversKeeps ==
  ASSUME HubAssumption, ~LoopLags, HubInv, HubInv', Moves, NEW x \in Executions, Delivers(x)
  PROVE  Delivers(x)'
<1>0. now \in Nat /\ now' \in Nat /\ now <= now'
  BY DEF HubInv, HubTypes, Moves
<1>d. ASSUME calls'[x].phase \in {"leaving", "done"},
             calls'[x].channel \in Channels, calls'[x].request \in 1 .. Last(calls[x].channel)',
             calls'[x].result = "cancelled" \/ (calls'[x].result = Asked(x)'.result /\ Asked(x)'.result # "none")
      PROVE  Delivers(x)'
  BY <1>d DEF Delivers
<1>1. CASE calls'[x] = calls[x]
  <2>1. Same(x)
    BY <1>1 DEF Same
  <2>2. CASE calls[x].phase = "timed_out"
    <3>1. calls[x].channel \in Channels /\ calls[x].request \in 1 .. Last(calls[x].channel)
      BY <2>2, WaitingIs DEF Active
    <3>2. now >= Asked(x).expires /\ Asked(x).result # "phone" /\ Asked(x).expires \in Nat
      BY <2>1, <2>2, <3>1, AskedStays DEF Delivers, Request
    <3>3. Asked(x)'.expires = Asked(x).expires /\ (Asked(x)'.result = "phone" => now < Asked(x).expires)
      BY <2>1, <3>1, <3>2, AskedStays
    <3>4. now' >= Asked(x)'.expires /\ Asked(x)'.result # "phone"
      BY <1>0, <3>2, <3>3
    <3> QED BY <1>1, <2>2, <3>4 DEF Delivers
  <2>3. CASE calls[x].phase \in {"leaving", "done"} /\ calls[x].request # 0
    <3>1. /\ calls[x].channel \in Channels /\ calls[x].request \in 1 .. Last(calls[x].channel)
          /\ calls[x].result = "cancelled" \/ (calls[x].result = Asked(x).result /\ Asked(x).result # "none")
      BY <2>3 DEF Delivers
    <3>2. /\ Asked(x).result # "none" => Asked(x)'.result = Asked(x).result
          /\ calls'[x].channel \in Channels /\ calls'[x].request \in 1 .. Last(calls[x].channel)'
      BY <2>1, <3>1, AskedStays
    <3> QED BY <1>1, <1>d, <2>3, <3>1, <3>2
  <2>4. CASE calls[x].phase # "timed_out" /\ ~(calls[x].phase \in {"leaving", "done"} /\ calls[x].request # 0)
    BY <1>1, <2>4 DEF Delivers
  <2> QED BY <2>2, <2>3, <2>4
<1>2. CASE calls'[x] # calls[x]
  <2> USE DEF Active
  <2>0. CallMoves(x)
    BY DEF Moves
  <2>1. CASE calls'[x].phase \notin {"timed_out", "leaving"} /\ (calls'[x].phase = "done" => calls'[x].request = 0)
    BY <2>1 DEF Delivers
  <2>2. ASSUME calls[x].phase \in Active, Same(x)
        PROVE  /\ Asked(x) \in Request /\ Asked(x)'.result = Reply(x) /\ Asked(x)'.expires = Asked(x).expires
               /\ Asked(x).result # "none" => Asked(x)'.result = Asked(x).result
               /\ calls'[x].channel \in Channels /\ calls'[x].request \in 1 .. Last(calls[x].channel)'
    <3>1. calls[x].channel \in Channels /\ calls[x].request \in 1 .. Last(calls[x].channel)
      BY <2>2, WaitingIs
    <3> QED BY <2>2, <3>1, AskedStays DEF Reply
  <2>3. CASE /\ calls[x].phase = "waiting" /\ calls'[x].phase = "timed_out" /\ Same(x)
             /\ now >= Asked(x).expires /\ (Asked(x).result = "none" \/ LoopLags) /\ Reply(x) = Asked(x).result
    <3>1. Asked(x)'.result = "none" /\ Asked(x)'.expires = Asked(x).expires /\ Asked(x).expires \in Nat
      BY <2>2, <2>3 DEF Request
    <3>2. now' >= Asked(x)'.expires
      BY <1>0, <2>3, <3>1
    <3> QED BY <2>3, <3>1, <3>2 DEF Delivers
  <2>4. CASE /\ calls[x].phase = "waiting" /\ calls'[x].phase = "leaving" /\ Same(x)
             /\ calls'[x].result = Reply(x) /\ Reply(x) # "none"
    BY <1>d, <2>2, <2>4
  <2>5. CASE Cancels /\ calls'[x].phase = "leaving" /\ Same(x) /\ calls[x].phase = "waiting" /\ calls'[x].result = "cancelled"
    BY <1>d, <2>2, <2>5
  <2>6. CASE /\ calls[x].phase = "timed_out" /\ calls'[x].phase = "leaving" /\ Same(x)
             /\ calls'[x].result = "unavailable" /\ Reply(x) # "none"
             /\ Reply(x) # Asked(x).result => Reply(x) = "unavailable"
    <3>1. Reply(x) = "unavailable"
      BY <2>2, <2>6 DEF Delivers, Request
    <3> QED BY <1>d, <2>2, <2>6, <3>1
  <2>7. CASE calls[x].phase = "leaving" /\ calls'[x].phase = "done" /\ Same(x) /\ calls'[x].result = calls[x].result
    <3>1. calls[x].request # 0
      BY <2>7, WaitingIs
    <3>2. calls[x].result = "cancelled" \/ (calls[x].result = Asked(x).result /\ Asked(x).result # "none")
      BY <2>7, <3>1 DEF Delivers
    <3> QED BY <1>d, <2>2, <2>7, <3>2
  <2> QED BY <1>2, <2>0, <2>1, <2>3, <2>4, <2>5, <2>6, <2>7 DEF CallMoves
<1> QED BY <1>1, <1>2

DeliveryInv == ResultInv /\ \A x \in Executions : Delivers(x)

LEMMA DeliveryInit == ASSUME HubAssumption, Init PROVE DeliveryInv
<1>1. \A x \in Executions : calls[x].phase = "idle"
  BY DEF Init
<1> QED BY <1>1, InitResults DEF DeliveryInv, Delivers

LEMMA DeliveryKeeps ==
  ASSUME HubAssumption, Remembers, ~LoopLags, DeliveryInv, [Next]_vars PROVE DeliveryInv'
<1>1. ResultInv' /\ HubInv /\ HubInv' /\ Moves
  BY ResultInvKeeps DEF DeliveryInv, ResultInv
<1>2. \A x \in Executions : Delivers(x)'
  BY <1>1, DeliversKeeps DEF DeliveryInv
<1> QED BY <1>1, <1>2 DEF DeliveryInv

LEMMA DeliveryTells == ASSUME DeliveryInv PROVE AcceptedIsDelivered
<1> SUFFICES ASSUME NEW x \in Executions, <<calls[x].channel, calls[x].request>> \in phone.accepted,
                    calls[x].phase = "done"
             PROVE  calls[x].result \in {"phone", "cancelled"}
  BY DEF AcceptedIsDelivered
<1>1. PICK c \in Channels, q \in Nat : c = calls[x].channel /\ q = calls[x].request
  BY DEF DeliveryInv, ResultInv, HubInv, HubTypes
<1>2. q \in 1 .. Last(c) /\ requests[c][q].result = "phone"
  BY <1>1 DEF DeliveryInv, ResultInv, AcceptedIs
<1>3. calls[x].request # 0 /\ Asked(x).result = "phone"
  BY <1>1, <1>2 DEF Asked
<1>4. Delivers(x)
  BY DEF DeliveryInv
<1> QED BY <1>3, <1>4 DEF Delivers

-----------------------------------------------------------------------------
\* Unless calls are cancelled: a request of an open channel is pending, or has its tombstone.
Keeps(c) == channels[c].state = "open" =>
  \A q \in 1 .. Last(c) : channels[c].pending[requests[c][q].call] = q \/ requests[c][q].call \in Completed(c)
Once(c) == \A q1, q2 \in 1 .. Last(c) : requests[c][q1].call = requests[c][q2].call => q1 = q2

LEMMA KeepsStays ==
  ASSUME HubAssumption, Remembers, ~Cancels, ResultInv, HubInv', Moves, NEW c \in Channels, Keeps(c)
  PROVE  Keeps(c)'
<1> SUFFICES ASSUME channels'[c].state = "open", NEW q \in 1 .. Last(c)'
             PROVE  channels'[c].pending[requests'[c][q].call] = q \/ requests'[c][q].call \in Completed(c)'
  BY DEF Keeps
<1>0. HubInv /\ Settles(c) /\ RequestMoves(c) /\ ChannelMoves(c) /\ Last(c)' = Len(requests'[c])
  BY DEF ResultInv, Moves, Last
<1>1. CASE channels[c].state # "open"
  <2>1. requests'[c] = <<>>
    BY <1>0, <1>1 DEF ChannelMoves
  <2>2. Last(c)' = 0
    BY <2>1 DEF Last
  <2> QED BY <2>2
<1>2. CASE channels[c].state = "open"
  <2>1. Completed(c) \subseteq Completed(c)'
    BY <1>0, <1>2, TombstonesGrow
  <2>2. Last(c) \in Nat /\ Last(c)' \in Nat /\ Last(c)' <= Last(c) + 1
    BY <1>0, RequestsStay
  <2>3. CASE q \in 1 .. Last(c)
    <3>1. requests'[c][q].call = requests[c][q].call /\ requests[c][q].call \in Calls
      BY <1>0, <2>3, RequestsStay DEF Request
    <3>2. CASE requests[c][q].call \in Completed(c)
      BY <2>1, <3>1, <3>2
    <3>3. CASE requests[c][q].call \notin Completed(c)
      <4>1. channels[c].pending[requests[c][q].call] = q /\ q # 0
        BY <1>2, <2>2, <2>3, <3>3 DEF Keeps
      <4>2. ASSUME NEW x \in Executions, calls[x].phase = "leaving", calls[x].channel = c, calls[x].request = q
            PROVE  FALSE
        <5>1. requests[c][q].result # "none"
          BY <4>2 DEF ResultInv, Leaves, Asked
        <5> QED BY <1>0, <1>2, <2>3, <3>3, <5>1 DEF Settles
      <4>3. channels'[c].pending[requests[c][q].call] = channels[c].pending[requests[c][q].call]
        BY <1>0, <1>2, <3>1, <4>1, <4>2 DEF ChannelMoves
      <4> QED BY <3>1, <4>1, <4>3
    <3> QED BY <3>2, <3>3
  <2>4. CASE q \notin 1 .. Last(c)
    <3>1. q = Last(c) + 1 /\ Len(requests'[c]) # Last(c)
      BY <1>0, <2>2, <2>4
    <3> QED BY <1>0, <3>1 DEF RequestMoves
  <2> QED BY <2>3, <2>4
<1> QED BY <1>1, <1>2

LEMMA OnceStays ==
  ASSUME HubAssumption, HubInv, HubInv', Moves, NEW c \in Channels, Keeps(c), Once(c)
  PROVE  Once(c)'
<1>0. RequestMoves(c) /\ Last(c)' = Len(requests'[c])
  BY DEF Moves, Last
<1>1. Last(c) \in Nat /\ Last(c)' \in Nat /\ Last(c)' <= Last(c) + 1
  BY RequestsStay
<1>2. \A q \in 1 .. Last(c) : requests'[c][q].call = requests[c][q].call
  BY RequestsStay
<1>3. ASSUME NEW q \in 1 .. Last(c), Last(c)' # Last(c)
      PROVE  requests'[c][Last(c) + 1].call # requests[c][q].call
  <2>1. /\ channels[c].state = "open"
        /\ channels[c].pending[requests'[c][Last(c) + 1].call] = 0
        /\ requests'[c][Last(c) + 1].call \notin Completed(c)
    BY <1>0, <1>3 DEF RequestMoves
  <2>2. channels[c].pending[requests[c][q].call] = q \/ requests[c][q].call \in Completed(c)
    BY <2>1 DEF Keeps
  <2>3. q # 0
    BY <1>1
  <2> QED BY <2>1, <2>2, <2>3
<1>4. SUFFICES ASSUME NEW q1 \in 1 .. Last(c)', NEW q2 \in 1 .. Last(c)', requests'[c][q1].call = requests'[c][q2].call
               PROVE  q1 = q2
  BY DEF Once
<1>5. q1 \in 1 .. Last(c) \/ (q1 = Last(c) + 1 /\ Last(c)' # Last(c))
  BY <1>1
<1>6. q2 \in 1 .. Last(c) \/ (q2 = Last(c) + 1 /\ Last(c)' # Last(c))
  BY <1>1
<1> QED BY <1>2, <1>3, <1>4, <1>5, <1>6 DEF Once

ReplayInv == ResultInv /\ \A c \in Channels : Keeps(c) /\ Once(c)

LEMMA ReplayInit == ASSUME HubAssumption, Init PROVE ReplayInv
<1>1. \A c \in Channels : channels[c].state = "new" /\ Last(c) = 0
  BY DEF Init, Fresh, Last
<1> QED BY <1>1, InitResults DEF ReplayInv, Keeps, Once

LEMMA ReplayKeeps ==
  ASSUME HubAssumption, Remembers, ~Cancels, ReplayInv, [Next]_vars PROVE ReplayInv'
<1>1. ResultInv' /\ ResultInv /\ HubInv /\ HubInv' /\ Moves
  BY ResultInvKeeps DEF ReplayInv, ResultInv
<1>2. \A c \in Channels : Keeps(c)'
  BY <1>1, KeepsStays DEF ReplayInv
<1>3. \A c \in Channels : Once(c)'
  BY <1>1, OnceStays DEF ReplayInv
<1> QED BY <1>1, <1>2, <1>3 DEF ReplayInv

LEMMA ReplayTells == ASSUME ReplayInv PROVE NotReplayed
<1>1. \A c \in Channels : DOMAIN requests[c] = 1 .. Last(c)
  <2>1. \A c \in Channels : requests[c] \in Seq(Request)
    BY DEF ReplayInv, ResultInv, HubInv, HubTypes
  <2> QED BY <2>1, LenProperties DEF Last
<1> QED BY <1>1 DEF ReplayInv, Once, NotReplayed

-----------------------------------------------------------------------------
\* The phone sees its requests in order and without a hole, whatever answer is lost.
THEOREM FeedNeverHasHoles == ASSUME HubAssumption PROVE Spec => [](TypeOK /\ FeedHasNoHoles)
<1>1. Init => HubInv
  BY InitHub
<1>2. HubInv /\ [Next]_vars => HubInv'
  BY NextHub
<1>3. HubInv => TypeOK /\ FeedHasNoHoles
  BY HubTells
<1> QED BY <1>1, <1>2, <1>3, PTL DEF Spec

\* A result the phone was told is accepted reaches every call that waited for it, if loops do
\* not lag and a channel's tombstones hold its calls.
THEOREM AcceptedResultsReachTheirCalls ==
  ASSUME HubAssumption, Remembers, ~LoopLags PROVE Spec => []AcceptedIsDelivered
<1>1. Init => DeliveryInv
  BY DeliveryInit
<1>2. DeliveryInv /\ [Next]_vars => DeliveryInv'
  BY DeliveryKeeps
<1>3. DeliveryInv => AcceptedIsDelivered
  BY DeliveryTells
<1> QED BY <1>1, <1>2, <1>3, PTL DEF Spec

\* No call is queued for a phone again, if none is cancelled and a channel's tombstones hold
\* its calls.
THEOREM CallsAreNotReplayed ==
  ASSUME HubAssumption, Remembers, ~Cancels PROVE Spec => []NotReplayed
<1>1. Init => ReplayInv
  BY ReplayInit
<1>2. ReplayInv /\ [Next]_vars => ReplayInv'
  BY ReplayKeeps
<1>3. ReplayInv => NotReplayed
  BY ReplayTells
<1> QED BY <1>1, <1>2, <1>3, PTL DEF Spec
=============================================================================
