--------------------------- MODULE NativeDeviceTools ---------------------------
(***************************************************************************)
(* The native phone channel of loopdy_plugin/native_device_tools.py: an    *)
(* in-memory lease a phone holds by polling, the tool calls that wait on   *)
(* it in worker threads with event loops of their own, and the results the *)
(* phone posts back.  Each block under the hub's lock is one step; a call  *)
(* that matched a channel, or whose timer fired, takes the lock again      *)
(* later, and anything may happen in between.                              *)
(*                                                                         *)
(* A request is named by its channel and its sequence number; the requests *)
(* still queued are those from first[c] on.                                *)
(***************************************************************************)
EXTENDS Integers, FiniteSets, Sequences

CONSTANTS
  Channels, Sessions, Calls, Executions, NoChannel,
  SessionOf,     \* [Channels \cup Executions -> Sessions]
  CallOf,        \* [Executions -> Calls]: Hermes' tool call identity
  WorkOf         \* [Executions -> STRING]: fingerprint of what is asked

CONSTANTS
  LeaseSeconds, MaxChannels, MaxQueue, MaxCompleted, MaxPollItems,
  Cancels,       \* the host may cancel a call that waits
  LoopLags,      \* a loop may run its timer before a result it was handed
  MaxTime        \* bound of the model

HubAssumption ==
  /\ SessionOf \in [Channels \cup Executions -> Sessions]
  /\ CallOf \in [Executions -> Calls] /\ DOMAIN WorkOf = Executions
  /\ NoChannel \notin Channels
  /\ {LeaseSeconds, MaxChannels, MaxQueue, MaxCompleted, MaxPollItems} \subseteq Nat \ {0}
  /\ MaxTime \in Nat /\ {Cancels, LoopLags} \subseteq BOOLEAN

VARIABLES
  now,
  channels,   \* the hub's channels, and the identifiers it has retired
  requests,   \* the _Pending objects of each channel, in sequence order
  calls,      \* the executions
  phone       \* what the phone has got, and which results were accepted

vars == <<now, channels, requests, calls, phone>>

-----------------------------------------------------------------------------
Channel == [state : {"new", "open", "retired"}, expires : Nat, first : Nat \ {0},
            pending : [Calls -> Nat], completed : Seq(Calls)]
Request == [call : Calls, work : {WorkOf[x] : x \in Executions}, expires : Nat, waiters : Nat,
            result : {"none", "phone", "unavailable"}]
Phases == {"idle", "matched", "waiting", "timed_out", "leaving", "done"}
Execution == [phase : Phases, channel : Channels \cup {NoChannel}, request : Nat,
              result : {"none", "phone", "unavailable", "refused", "cancelled"}]

Fresh == [state |-> "new", expires |-> 0, first |-> 1, pending |-> [k \in Calls |-> 0],
          completed |-> <<>>]

Expired(c) == channels[c].state = "open" /\ now >= channels[c].expires
Holders(s) == {c \in Channels : channels[c].state = "open" /\ SessionOf[c] = s}
Outstanding(c) == {k \in Calls : channels[c].pending[k] # 0}
Awaited(c) == {channels[c].pending[k] : k \in Outstanding(c)}
Last(c) == Len(requests[c])

(* _mark_completed: the newest MaxCompleted tombstones.                     *)
Tombstones(completed, call) ==
  LET longer == Append(completed, call)
  IN IF \E i \in DOMAIN completed : completed[i] = call THEN completed
     ELSE IF Len(longer) > MaxCompleted THEN Tail(longer) ELSE longer
Completed(c) == {channels[c].completed[i] : i \in DOMAIN channels[c].completed}

(* _set_future: the first result stays.                                     *)
Answered(request, result) ==
  IF request.result = "none" THEN [request EXCEPT !.result = result] ELSE request

(* _retire of a set of channels: every waiter is told the phone is gone.    *)
(* (Nothing reads the queue and the tombstones of a retired channel.)       *)
Retired(R) ==
  [c \in Channels |->
     IF c \in R THEN [channels[c] EXCEPT !.state = "retired", !.pending = [k \in Calls |-> 0]]
     ELSE channels[c]]
RetiredRequests(R) ==
  [c \in Channels |->
     [q \in DOMAIN requests[c] |->
        IF c \in R /\ q \in Awaited(c) THEN Answered(requests[c][q], "unavailable")
        ELSE requests[c][q]]]

Lapsed == {c \in Channels : Expired(c)}
Usable(c) == channels[c].state = "open" /\ ~Expired(c)

-----------------------------------------------------------------------------

(* The phone's calls.                                                       *)
Connect(c) ==
  /\ channels[c].state = "new"
  /\ IF Holders(SessionOf[c]) \ Lapsed = {}
        /\ Cardinality({d \in Channels : Usable(d)}) < MaxChannels
     THEN channels' = [Retired(Lapsed) EXCEPT ![c] =
            [Fresh EXCEPT !.state = "open", !.expires = now + LeaseSeconds]]
     ELSE channels' = Retired(Lapsed)
  /\ requests' = RetiredRequests(Lapsed)
  /\ UNCHANGED <<now, calls, phone>>

(* _get retires an expired channel before it refuses the caller.            *)
Refuse(c) ==
  /\ Expired(c)
  /\ channels' = Retired({c}) /\ requests' = RetiredRequests({c})
  /\ UNCHANGED <<now, calls, phone>>

Smaller(a, b) == IF a < b THEN a ELSE b
Larger(a, b) == IF a > b THEN a ELSE b

(* Rows the phone acknowledged are dropped, the next ones are returned.     *)
(* The response may be lost; a gap is an error and leaves the lease alone.  *)
PollWith(c, first, heard) ==
  LET last == Smaller(Last(c), first + MaxPollItems - 1)
      rows == first .. last
  IN /\ channels' = [channels EXCEPT ![c] =
          [channels[c] EXCEPT !.first = first, !.expires = now + LeaseSeconds]]
     /\ phone' = IF heard /\ rows # {}
                 THEN [phone EXCEPT !.after[c] = last, !.got[c] = phone.got[c] \cup rows]
                 ELSE phone
     /\ UNCHANGED <<now, requests, calls>>

Poll(c, heard) ==
  /\ Usable(c)
  /\ ~(channels[c].first <= Last(c) /\ phone.after[c] < channels[c].first - 1)
  /\ PollWith(c, Larger(channels[c].first, phone.after[c] + 1), heard)

\* Mutant: a result is accepted after the deadline of its request.
PostLate(c, q) ==
  LET call == requests[c][q].call
      p == channels[c].pending[call]
  IN /\ Usable(c) /\ call \notin Completed(c) /\ p # 0
     /\ requests' = [requests EXCEPT ![c] = [requests[c] EXCEPT ![p] =
          Answered(requests[c][p], "phone")]]
     /\ channels' = [channels EXCEPT ![c] = [channels[c] EXCEPT
          !.completed = Tombstones(channels[c].completed, call)]]
     /\ phone' = [phone EXCEPT !.accepted = phone.accepted \cup {<<c, p>>}]
     /\ UNCHANGED <<now, calls>>

(* accept_result of what the phone got under sequence number q.  It is      *)
(* found by the call identity, so it may complete a later request.          *)
PostResult(c, q) ==
  LET call == requests[c][q].call
      p == channels[c].pending[call]
      late == now >= requests[c][p].expires
  IN /\ Usable(c) /\ q \in phone.got[c]
     /\ call \notin Completed(c) /\ p # 0
     /\ requests' = [requests EXCEPT ![c] = [requests[c] EXCEPT ![p] =
          Answered(requests[c][p], IF late THEN "unavailable" ELSE "phone")]]
     /\ channels' = [channels EXCEPT ![c] = [channels[c] EXCEPT
          !.completed = Tombstones(channels[c].completed, call),
          !.expires = IF late THEN channels[c].expires ELSE now + LeaseSeconds]]
     /\ phone' = IF late THEN phone
                 ELSE [phone EXCEPT !.accepted = phone.accepted \cup {<<c, p>>}]
     /\ UNCHANGED <<now, calls>>

Close(c) ==
  /\ Usable(c)
  /\ channels' = Retired({c}) /\ requests' = RetiredRequests({c})
  /\ UNCHANGED <<now, calls, phone>>

(* close_all, when Hermes unloads the plugin.                               *)
Unload ==
  LET open == {c \in Channels : channels[c].state = "open"}
  IN /\ open # {}
     /\ channels' = Retired(open) /\ requests' = RetiredRequests(open)
     /\ UNCHANGED <<now, calls, phone>>

-----------------------------------------------------------------------------
(* execute: match a channel, then, under the lock again, join or queue.     *)
Goes(x, phase, c, q, result) ==
  calls' = [calls EXCEPT ![x] =
              [phase |-> phase, channel |-> c, request |-> q, result |-> result]]

Match(x) ==
  /\ calls[x].phase = "idle"
  /\ channels' = Retired(Lapsed) /\ requests' = RetiredRequests(Lapsed)
  /\ LET found == Holders(SessionOf[x]) \ Lapsed
     IN IF Cardinality(found) = 1
        THEN \E c \in found : Goes(x, "matched", c, 0, "none")
        ELSE Goes(x, "done", NoChannel, 0, "refused")
  /\ UNCHANGED <<now, phone>>

Join(x, c, p) ==
  /\ p # 0
  /\ IF requests[c][p].work = WorkOf[x]
     THEN /\ requests' = [requests EXCEPT ![c] = [requests[c] EXCEPT ![p] =
               [requests[c][p] EXCEPT !.waiters = requests[c][p].waiters + 1]]]
          /\ Goes(x, "waiting", c, p, "none")
     ELSE Goes(x, "done", c, 0, "refused") /\ UNCHANGED requests
  /\ UNCHANGED channels

Queue(x, c) ==
  LET q == Last(c) + 1
  IN /\ requests' = [requests EXCEPT ![c] = Append(requests[c],
          [call |-> CallOf[x], work |-> WorkOf[x], expires |-> now + LeaseSeconds,
           waiters |-> 1, result |-> "none"])]
     /\ channels' = [channels EXCEPT ![c] = [channels[c] EXCEPT
          !.pending[CallOf[x]] = q,
          !.first = Larger(channels[c].first, q - MaxQueue + 1)]]
     /\ Goes(x, "waiting", c, q, "none")

Enqueue(x) ==
  LET c == calls[x].channel
      p == channels[c].pending[CallOf[x]]
      fails == Goes(x, "done", c, 0, "refused")
  IN /\ calls[x].phase = "matched"
     /\ \/ /\ ~Usable(c) /\ fails
           /\ channels' = Retired(Lapsed \cap {c})
           /\ requests' = RetiredRequests(Lapsed \cap {c})
        \/ Usable(c) /\ Join(x, c, p)
        \/ /\ Usable(c) /\ p = 0
           /\ CallOf[x] \in Completed(c) \/ Cardinality(Outstanding(c)) >= MaxQueue
           /\ fails /\ UNCHANGED <<channels, requests>>
        \/ /\ Usable(c) /\ p = 0
           /\ CallOf[x] \notin Completed(c) /\ Cardinality(Outstanding(c)) < MaxQueue
           /\ Queue(x, c)
     /\ UNCHANGED <<now, phone>>

Asked(x) == requests[calls[x].channel][calls[x].request]

Receive(x) ==
  /\ calls[x].phase = "waiting" /\ Asked(x).result # "none"
  /\ Goes(x, "leaving", calls[x].channel, calls[x].request, Asked(x).result)
  /\ UNCHANGED <<now, channels, requests, phone>>

\* Mutant: a call that shares its request has no timer.
TimeOutAlone(x) ==
  /\ calls[x].phase = "waiting" /\ now >= Asked(x).expires /\ Asked(x).waiters = 1
  /\ Goes(x, "timed_out", calls[x].channel, calls[x].request, "unavailable")
  /\ UNCHANGED <<now, channels, requests, phone>>

(* wait_for runs out.  It may do so with a result already on its way.       *)
TimeOut(x) ==
  /\ calls[x].phase = "waiting" /\ now >= Asked(x).expires
  /\ Asked(x).result = "none" \/ LoopLags
  /\ Goes(x, "timed_out", calls[x].channel, calls[x].request, "unavailable")
  /\ UNCHANGED <<now, channels, requests, phone>>

GiveUp(x) ==
  LET c == calls[x].channel
      q == calls[x].request
  IN /\ calls[x].phase = "timed_out"
     /\ channels' = [channels EXCEPT ![c] = [channels[c] EXCEPT
          !.completed = Tombstones(channels[c].completed, Asked(x).call)]]
     /\ requests' = [requests EXCEPT ![c] = [requests[c] EXCEPT ![q] =
          Answered(requests[c][q], "unavailable")]]
     /\ Goes(x, "leaving", c, q, "unavailable")
     /\ UNCHANGED <<now, phone>>

Cancel(x) ==
  /\ Cancels /\ calls[x].phase = "waiting"
  /\ Goes(x, "leaving", calls[x].channel, calls[x].request, "cancelled")
  /\ UNCHANGED <<now, channels, requests, phone>>

(* The finally block: the last waiter, or the first after a result, drops   *)
(* the pending request.                                                     *)
Leave(x) ==
  LET c == calls[x].channel
      q == calls[x].request
      left == requests[c][q].waiters - 1
  IN /\ calls[x].phase = "leaving"
     /\ IF channels[c].pending[Asked(x).call] = q
        THEN /\ requests' = [requests EXCEPT ![c] = [requests[c] EXCEPT ![q] =
                  [requests[c][q] EXCEPT !.waiters = left]]]
             /\ channels' = IF left <= 0 \/ requests[c][q].result # "none"
                            THEN [channels EXCEPT ![c] = [channels[c] EXCEPT
                                   !.pending[Asked(x).call] = 0]]
                            ELSE channels
        ELSE UNCHANGED <<channels, requests>>
     /\ Goes(x, "done", c, q, calls[x].result)
     /\ UNCHANGED <<now, phone>>

(* Time runs to MaxTime, and on for as long as a call waits.                *)
Tick ==
  /\ now < MaxTime \/ \E x \in Executions : calls[x].phase = "waiting" /\ now < Asked(x).expires
  /\ now' = now + 1
  /\ UNCHANGED <<channels, requests, calls, phone>>

-----------------------------------------------------------------------------
Init ==
  /\ now = 0
  /\ channels = [c \in Channels |-> Fresh]
  /\ requests = [c \in Channels |-> <<>>]
  /\ calls = [x \in Executions |->
       [phase |-> "idle", channel |-> NoChannel, request |-> 0, result |-> "none"]]
  /\ phone = [after |-> [c \in Channels |-> 0], got |-> [c \in Channels |-> {}],
              accepted |-> {}]

Wakes(x) == Receive(x) \/ TimeOut(x) \/ GiveUp(x) \/ Leave(x) \/ Enqueue(x)

Next ==
  \/ \E c \in Channels :
       \/ Connect(c) \/ Refuse(c) \/ Close(c)
       \/ \E heard \in BOOLEAN : Poll(c, heard)
       \/ \E q \in phone.got[c] : PostResult(c, q)
  \/ Unload
  \/ \E x \in Executions : Match(x) \/ Cancel(x) \/ Wakes(x)
  \/ Tick

Spec == Init /\ [][Next]_vars

(* Threads are scheduled, timers fire and the clock moves on.               *)
FairSpec == Spec /\ WF_vars(Tick) /\ \A x \in Executions : WF_vars(Wakes(x))

-----------------------------------------------------------------------------
(* Type invariant. *)
TypeOK ==
  /\ now \in Nat
  /\ channels \in [Channels -> Channel]
  /\ \A c \in Channels :
       /\ \A q \in DOMAIN requests[c] : requests[c][q] \in Request
       /\ \A k \in Calls : channels[c].pending[k] \in 0 .. Last(c)
       /\ phone.got[c] \subseteq DOMAIN requests[c] /\ phone.after[c] \in Nat
  /\ calls \in [Executions -> Execution]

(* The phone sees the sequence without holes, whatever responses are lost   *)
(* and however long the queue grew: overflow is reported, never skipped.    *)
FeedHasNoHoles == \A c \in Channels : phone.got[c] = 1 .. phone.after[c]

(* A result the phone was told is accepted reaches every call that waited   *)
(* for it.                                                                  *)
AcceptedIsDelivered ==
  \A x \in Executions : LET id == <<calls[x].channel, calls[x].request>> IN
    id \in phone.accepted /\ calls[x].phase = "done" => calls[x].result \in {"phone", "cancelled"}

(* "An expired or uncertain phone request is not replayed" (README.md:120): *)
(* one call identity is queued for a phone at most once.                    *)
NotReplayed ==
  \A c \in Channels : \A q1, q2 \in DOMAIN requests[c] :
    requests[c][q1].call = requests[c][q2].call => q1 = q2

(* Every tool call ends.                                                    *)
CallsEnd == \A x \in Executions : calls[x].phase = "matched" ~> calls[x].phase = "done"
================================================================================
