----------------------------- MODULE EventDelivery -----------------------------
(***************************************************************************)
(* The notification events of a host and their alerts to devices that it    *)
(* pushes to itself: LoopdyService.enqueue, deliver and its worker          *)
(* (service.py), the events, event_deliveries and approvals tables          *)
(* (store.py), the approval transport that waits for an answer              *)
(* (approval.py) and the dashboard that gives it (workspace_control.py).    *)
(*                                                                          *)
(* A thread delivers one event at a time: the worker those of its queue, an *)
(* approval its own.  Each store call is a transaction.  The provider modes *)
(* are "direct", which pushes to APNs, and "managed", which has no provider *)
(* here; the relay mode is retired when the service starts.                 *)
(***************************************************************************)
EXTENDS Integers, Sequences, FiniteSets

CONSTANTS
  Events, Approvals,   \* events, and those of them that ask for an approval
  Devices,             \* devices of a user
  Worker,              \* the thread of the queue; the others are the approvals'
  NoEvent,
  QueueSize,           \* queue_size
  Choices,             \* what Hermes offers, "deny" among them
  Timeout              \* timeout_seconds of an approval

CONSTANTS MaxEnqueues, MaxTime, MaxDeviceChanges, MaxCrashes    \* bounds of the model

DeliveryAssumption ==
  /\ Approvals \subseteq Events /\ Worker \notin Approvals /\ NoEvent \notin Events
  /\ "deny" \in Choices
  /\ {QueueSize, Timeout} \subseteq Nat \ {0}
  /\ {MaxEnqueues, MaxTime, MaxDeviceChanges, MaxCrashes} \subseteq Nat

Threads == Approvals \cup {Worker}

VARIABLES
  device,        \* provider, whether its preferences let alerts through, whether revoked
  event,         \* status and dismissal of an event, once it is recorded
  row,           \* event_deliveries of an event and a device
  queue,         \* _queue
  thread,        \* what a deliver call is doing
  approval,      \* the row of an approval, and what Hermes was answered
  now, enqueues, settings, crashes,
  rounds,        \* history: sends begun for an event and a device
  accepted       \* history: the choice the dashboard was told was accepted

deliveryVars == <<device, event, row, queue, thread, approval, now, enqueues, settings, crashes, rounds, accepted>>

NoDevices == [d \in Devices |-> [provider |-> "managed", on |-> FALSE, revoked |-> TRUE]]
Idle == [at |-> "idle", event |-> NoEvent, known |-> {}, seen |-> NoDevices, todo |-> {}, good |-> 0, bad |-> 0, quiet |-> 0]
NoApproval == [status |-> "none", choice |-> "", expires |-> 0, deadline |-> 0, answer |-> ""]

DeliveryTypeOK ==
  /\ device \in [Devices -> [provider: {"direct", "managed"}, on: BOOLEAN, revoked: BOOLEAN]]
  /\ event \in [Events -> [status: {"none", "queued", "sent", "failed"}, dismissed: BOOLEAN]]
  /\ row \in [Events -> [Devices -> {"none", "queued", "sent", "failed", "suppressed"}]]
  /\ queue \in Seq(Events) /\ Len(queue) <= QueueSize
  /\ \A t \in Threads : thread[t].at \in {"idle", "next", "sending", "polling"}
  /\ approval \in [Approvals -> [status: {"none", "pending", "responded", "expired"},
                                 choice: Choices \cup {""}, answer: Choices \cup {""},
                                 expires: 0..(MaxTime + Timeout + 1), deadline: 0..(MaxTime + Timeout)]]

DeliveryInit ==
  /\ device \in [Devices -> [provider: {"direct", "managed"}, on: {TRUE}, revoked: {FALSE}]]
  /\ event = [e \in Events |-> [status |-> "none", dismissed |-> FALSE]]
  /\ row = [e \in Events |-> [d \in Devices |-> "none"]]
  /\ queue = <<>>
  /\ thread = [t \in Threads |-> Idle]
  /\ approval = [a \in Approvals |-> NoApproval]
  /\ now = 0 /\ enqueues = 0 /\ settings = 0 /\ crashes = 0
  /\ rounds = [e \in Events |-> [d \in Devices |-> 0]]
  /\ accepted = [a \in Approvals |-> ""]

-----------------------------------------------------------------------------
\* record_event: INSERT OR IGNORE.
Recorded(e) == IF event[e].status = "none" THEN [event EXCEPT ![e].status = "queued"] ELSE event
Marked(ev, e, status) == [ev EXCEPT ![e].status = status]

\* enqueue: a full queue drops the event and says so in its row.
Enqueue(e) ==
  /\ e \notin Approvals /\ enqueues < MaxEnqueues
  /\ enqueues' = enqueues + 1
  /\ IF Len(queue) < QueueSize
       THEN queue' = Append(queue, e) /\ event' = Recorded(e)
       ELSE event' = Marked(Recorded(e), e, "failed") /\ UNCHANGED queue
  /\ UNCHANGED <<device, row, thread, approval, now, settings, crashes, rounds, accepted>>

\* deliver, to its first device: the devices and the rows of the event are read once.
Targets == {d \in Devices : ~device[d].revoked}
Begun(e) == [Idle EXCEPT !.at = "next", !.event = e, !.todo = Targets, !.seen = device,
                         !.known = {d \in Devices : row[e][d] # "none"}]
Work ==
  /\ thread[Worker] = Idle /\ queue # <<>>
  /\ LET e == Head(queue)
     IN IF Targets = {}
          THEN event' = Marked(Recorded(e), e, "failed") /\ UNCHANGED thread
          ELSE event' = Recorded(e) /\ thread' = [thread EXCEPT ![Worker] = Begun(e)]
  /\ queue' = Tail(queue)
  /\ UNCHANGED <<device, row, approval, now, enqueues, settings, crashes, rounds, accepted>>

\* A device whose row exists is not sent to: only a sent or suppressed row counts as done.
Known(t, d) ==
  LET e == thread[t].event
  IN /\ d \in thread[t].known
     /\ thread' = [thread EXCEPT ![t].todo = @ \ {d},
                     ![t].good  = @ + (IF row[e][d] = "sent" THEN 1 ELSE 0),
                     ![t].quiet = @ + (IF row[e][d] = "suppressed" THEN 1 ELSE 0),
                     ![t].bad   = @ + (IF row[e][d] \in {"queued", "failed"} THEN 1 ELSE 0)]
     /\ UNCHANGED <<row, rounds>>
Suppressed(t, d) ==
  /\ d \notin thread[t].known /\ ~thread[t].seen[d].on
  /\ row' = [row EXCEPT ![thread[t].event][d] = "suppressed"]
  /\ thread' = [thread EXCEPT ![t].todo = @ \ {d}, ![t].quiet = @ + 1]
  /\ UNCHANGED rounds
\* No provider of that mode, or one that is closing.
Unprovided(t, d) ==
  /\ d \notin thread[t].known /\ thread[t].seen[d].on
  /\ row' = [row EXCEPT ![thread[t].event][d] = "failed"]
  /\ thread' = [thread EXCEPT ![t].todo = @ \ {d}, ![t].bad = @ + 1]
  /\ UNCHANGED rounds
\* The row is there before the alert is.
Sends(t, d) ==
  /\ d \notin thread[t].known /\ thread[t].seen[d].on /\ thread[t].seen[d].provider = "direct"
  /\ row' = [row EXCEPT ![thread[t].event][d] = "queued"]
  /\ thread' = [thread EXCEPT ![t].at = "sending", ![t].todo = {d} \cup @]
  /\ rounds' = [rounds EXCEPT ![thread[t].event][d] = @ + 1]

Next1(t) ==   \* devices are taken in the order of their names: any, here
  /\ thread[t].at = "next"
  /\ \E d \in thread[t].todo : Known(t, d) \/ Suppressed(t, d) \/ Unprovided(t, d) \/ Sends(t, d)
  /\ UNCHANGED <<device, event, queue, approval, now, enqueues, settings, crashes, accepted>>

\* _send_with_retry returns: the device took it, refused it, or its token is dead.
Under(t) == CHOOSE d \in thread[t].todo : d \notin thread[t].known /\ row[thread[t].event][d] = "queued"
Sent(t, how) ==
  /\ thread[t].at = "sending"
  /\ LET e == thread[t].event
         d == Under(t)
     IN /\ row' = [row EXCEPT ![e][d] = IF how = "sent" THEN "sent" ELSE "failed"]
        /\ device' = IF how = "dead" THEN [device EXCEPT ![d].revoked = TRUE] ELSE device
        /\ thread' = [thread EXCEPT ![t].at = "next", ![t].todo = @ \ {d},
                        ![t].good = @ + (IF how = "sent" THEN 1 ELSE 0),
                        ![t].bad  = @ + (IF how = "sent" THEN 0 ELSE 1)]
  /\ UNCHANGED <<event, queue, approval, now, enqueues, settings, crashes, rounds, accepted>>

Succeeded(t) == thread[t].good > 0 \/ (thread[t].quiet > 0 /\ thread[t].bad = 0)
\* The end of deliver; an approval that reached nobody is denied.
Delivered(t) ==
  /\ thread[t].at = "next" /\ thread[t].todo = {}
  /\ event' = Marked(event, thread[t].event, IF Succeeded(t) THEN "sent" ELSE "failed")
  /\ thread' = [thread EXCEPT ![t] = IF t # Worker /\ Succeeded(t) THEN [Idle EXCEPT !.at = "polling", !.event = t]
                                     ELSE Idle]
  /\ approval' = IF t # Worker /\ ~Succeeded(t) THEN [approval EXCEPT ![t].answer = "deny"] ELSE approval
  /\ UNCHANGED <<device, row, queue, now, enqueues, settings, crashes, rounds, accepted>>

-----------------------------------------------------------------------------
\* LoopdyApprovalTransport.present: the expiry is the deadline rounded up.
Present(a) ==
  /\ approval[a].status = "none" /\ thread[a] = Idle
  /\ \E up \in {0, 1} :
       LET made == [NoApproval EXCEPT !.status = "pending", !.deadline = now + Timeout,
                                      !.expires = now + Timeout + up]
       IN IF Targets = {}
            THEN /\ approval' = [approval EXCEPT ![a] = [made EXCEPT !.answer = "deny"]]
                 /\ event' = Marked(Recorded(a), a, "failed") /\ UNCHANGED thread
            ELSE /\ approval' = [approval EXCEPT ![a] = made]
                 /\ event' = Recorded(a) /\ thread' = [thread EXCEPT ![a] = Begun(a)]
  /\ UNCHANGED <<device, row, queue, now, enqueues, settings, crashes, rounds, accepted>>

\* get_approval: reading it expires it.
Aged(a) == IF approval[a].status = "pending" /\ approval[a].expires <= now THEN "expired" ELSE approval[a].status
Poll(a) ==
  /\ thread[a].at = "polling" /\ now < approval[a].deadline
  /\ approval' = [approval EXCEPT ![a].status = Aged(a),
                    ![a].answer = IF Aged(a) = "responded" THEN approval[a].choice
                                  ELSE IF Aged(a) = "expired" THEN "deny" ELSE ""]
  /\ thread' = IF Aged(a) \in {"responded", "expired"} THEN [thread EXCEPT ![a] = Idle] ELSE thread
  /\ UNCHANGED <<device, event, row, queue, now, enqueues, settings, crashes, rounds, accepted>>
Deadline(a) ==
  /\ thread[a].at = "polling" /\ now >= approval[a].deadline
  /\ approval' = [approval EXCEPT ![a].answer = "deny"]
  /\ thread' = [thread EXCEPT ![a] = Idle]
  /\ UNCHANGED <<device, event, row, queue, now, enqueues, settings, crashes, rounds, accepted>>

\* An answer may be changed.
AnswerableAgain(a) == approval[a].status \in {"pending", "responded"} /\ approval[a].expires > now
\* respond_approval takes the first choice for a pending approval that has not expired.
Answerable(a) == approval[a].status = "pending" /\ approval[a].expires > now
Respond(a, choice) ==
  /\ Answerable(a)
  /\ approval' = [approval EXCEPT ![a].status = "responded", ![a].choice = choice]
  /\ accepted' = [accepted EXCEPT ![a] = IF @ = "" THEN choice ELSE @]
  /\ UNCHANGED <<device, event, row, queue, thread, now, enqueues, settings, crashes, rounds>>

\* The user dismisses an event; loading the dashboard dismisses dead approvals.
Dismiss(e) ==
  /\ event[e].status # "none" /\ ~event[e].dismissed
  /\ \/ settings < MaxDeviceChanges /\ settings' = settings + 1
     \/ /\ e \in Approvals /\ approval[e].status # "none" /\ ~Answerable(e)
        /\ UNCHANGED settings
  /\ event' = [event EXCEPT ![e].dismissed = TRUE]
  /\ UNCHANGED <<device, row, queue, thread, approval, now, enqueues, crashes, rounds, accepted>>

\* A device is registered again, revoked, or its preferences are changed.
ChangeDevice(d) ==
  /\ settings < MaxDeviceChanges /\ settings' = settings + 1
  /\ \E provider \in {"direct", "managed"}, on, revoked \in BOOLEAN :
       device' = [device EXCEPT ![d] = [provider |-> provider, on |-> on, revoked |-> revoked]]
  /\ UNCHANGED <<event, row, queue, thread, approval, now, enqueues, crashes, rounds, accepted>>

Tick == /\ now < MaxTime /\ now' = now + 1
        /\ UNCHANGED <<device, event, row, queue, thread, approval, enqueues, settings, crashes, rounds, accepted>>

\* The process dies: what was queued in memory goes, and Hermes has no one to ask.
Crash ==
  /\ crashes < MaxCrashes /\ crashes' = crashes + 1
  /\ queue' = <<>> /\ thread' = [t \in Threads |-> Idle]
  /\ UNCHANGED <<device, event, row, approval, now, enqueues, settings, rounds, accepted>>

DeliveryNext ==
  \/ \E e \in Events : Enqueue(e) \/ Dismiss(e)
  \/ Work \/ Tick \/ Crash
  \/ \E t \in Threads : Next1(t) \/ Delivered(t) \/ \E how \in {"sent", "refused", "dead"} : Sent(t, how)
  \/ \E a \in Approvals : Present(a) \/ Poll(a) \/ Deadline(a) \/ \E choice \in Choices : Respond(a, choice)
  \/ \E d \in Devices : ChangeDevice(d)

DeliverySpec == DeliveryInit /\ [][DeliveryNext]_deliveryVars

-----------------------------------------------------------------------------
\* A device is sent the alert of an event in one round only, however often the event
\* is enqueued and whatever happened to the process that began it: the row written
\* before the send is never sent again.
AlertedOnce == \A e \in Events, d \in Devices : rounds[e][d] <= 1

\* Hermes is told a choice that the dashboard accepted, the first one, and anything
\* but a denial only then; an accepted choice is overruled only once the deadline is
\* over or when nobody waits for it any more.
AnsweredAsChosen ==
  \A a \in Approvals :
    /\ approval[a].answer \notin {"", "deny"} => approval[a].answer = accepted[a]
    /\ accepted[a] # "" /\ approval[a].answer # "" /\ approval[a].answer # accepted[a]
         => now >= approval[a].deadline \/ event[a].status # "sent"
=============================================================================
