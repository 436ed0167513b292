---------------------------- MODULE PhoneQuestions -----------------------------
(***************************************************************************)
(* What the host asks its user on the phone, and what becomes of the answers:*)
(* forms, clarifications and pickers.  The three share no state; each is asked*)
(* again, answered twice, timed out or overtaken in its own way.            *)
(***************************************************************************)
EXTENDS Integers, Sequences, FiniteSets

-----------------------------------------------------------------------------
(***************************************************************************)
(* Forms an agent shows its user: the generative_ui_forms table of         *)
(* store.py, written by the rendering tools and read by the await tool     *)
(* (tools.py), and submitted to over Link (adapter.py) or over HTTP        *)
(* (dashboard/plugin_api.py).  A submission is validated against the       *)
(* stored schema and then made in one transaction, in a thread: another    *)
(* one, the await tool or the deadline may come between.  A phone that     *)
(* gets no answer sends its submission again with the same key.            *)
(***************************************************************************)

CONSTANTS
  Forms,
  Keys, Values,     \* idempotency keys and values of the user's submissions
  Threads,          \* submissions between their validation and their transaction
  Lifetime,         \* a form expires so many ticks after it is shown
  MaxTime           \* bound of the model

FormAssumption == {Lifetime, MaxTime} \subseteq Nat \ {0}

VARIABLES
  forms,       \* rows of generative_ui_forms
  threads,     \* submissions whose transaction has not begun
  now,
  accepted,    \* history: submissions answered "accepted", by form
  given,       \* history: values the await tool handed to the agent, by form
  ended        \* history: forms somebody was told have expired

formVars == <<forms, threads, now, accepted, given, ended>>

-----------------------------------------------------------------------------
Idle == [form |-> "idle"]
NoForm == [state |-> "none"]
Submission == Keys \X Values
Shown == {f \in Forms : forms[f] # NoForm}
Overdue(f, time) == forms[f].state = "pending" /\ forms[f].expires <= time
Become(f, state) == forms' = [forms EXCEPT ![f].state = state]
ExpireForm(f) == Become(f, "expired") /\ ended' = ended \cup {f}

(* The key and the digest of the values are those of the stored submission. *)
Replays(f, submission) == submission \in forms[f].by

(* loopdy_card tools: the form is stored before the card is delivered.      *)
Show(f) ==
  /\ f \notin Shown
  /\ forms' = [forms EXCEPT ![f] = [state |-> "pending", by |-> {},
                                    expires |-> now + Lifetime]]
  /\ UNCHANGED <<threads, now, accepted, given, ended>>

(* The schema and the owner are checked, and the time is read, before the   *)
(* transaction.  Values the schema refuses go no further.                   *)
Validate(t, f, submission) ==
  /\ threads[t] = Idle /\ f \in Shown
  /\ threads' = [threads EXCEPT ![t] = [form |-> f, submission |-> submission, at |-> now]]
  /\ UNCHANGED <<forms, now, accepted, given, ended>>

Takes(f) == forms[f].state = "pending"

(* submit_form_request                                                      *)
Submit(t) ==
  LET f == threads[t].form  s == threads[t].submission IN
  /\ threads[t] # Idle /\ threads' = [threads EXCEPT ![t] = Idle]
  /\ \/ /\ Overdue(f, threads[t].at)
        /\ ExpireForm(f) /\ UNCHANGED accepted
     \/ /\ ~Overdue(f, threads[t].at) /\ Replays(f, s)
        /\ accepted' = [accepted EXCEPT ![f] = @ \cup {s}]
        /\ UNCHANGED <<forms, ended>>
     \/ /\ ~Overdue(f, threads[t].at) /\ ~Replays(f, s)
        /\ ~\E p \in forms[f].by : p[1] = s[1]
        /\ Takes(f)
        /\ forms' = [forms EXCEPT ![f].state = "submitted", ![f].by = {s}]
        /\ accepted' = [accepted EXCEPT ![f] = @ \cup {s}]
        /\ UNCHANGED ended
     \/ /\ ~Overdue(f, threads[t].at) /\ ~Replays(f, s)
        /\ ~Takes(f) \/ \E p \in forms[f].by : p[1] = s[1]
        /\ UNCHANGED <<forms, accepted, ended>>
  /\ UNCHANGED <<now, given>>

(* consume_form_response, of loopdy_await_form_response: it answers at      *)
(* once, and hands the values over when they are there.                     *)
Await(f) ==
  /\ f \in Shown
  /\ \/ Overdue(f, now) /\ ExpireForm(f) /\ UNCHANGED given
     \/ /\ forms[f].state = "submitted" /\ Become(f, "consumed")
        /\ given' = [given EXCEPT ![f] = @ \o <<forms[f].by>>]
        /\ UNCHANGED ended
  /\ UNCHANGED <<threads, now, accepted>>

(* form_request_status                                                      *)
Status(f) ==
  /\ f \in Shown /\ Overdue(f, now) /\ ExpireForm(f)
  /\ UNCHANGED <<threads, now, accepted, given>>

(* The process dies: what its threads had not committed is not done.        *)
Die ==
  /\ \E t \in Threads : threads[t] # Idle
  /\ threads' = [t \in Threads |-> Idle]
  /\ UNCHANGED <<forms, now, accepted, given, ended>>

Pass ==
  /\ now < MaxTime /\ now' = now + 1
  /\ UNCHANGED <<forms, threads, accepted, given, ended>>

-----------------------------------------------------------------------------
FormInit ==
  /\ forms = [f \in Forms |-> NoForm] /\ threads = [t \in Threads |-> Idle] /\ now = 0
  /\ accepted = [f \in Forms |-> {}] /\ given = [f \in Forms |-> <<>>] /\ ended = {}

FormNext ==
  \/ \E f \in Forms : Show(f) \/ Await(f) \/ Status(f)
  \/ \E t \in Threads : \/ Submit(t)
                        \/ \E f \in Forms, s \in Submission : Validate(t, f, s)
  \/ Die \/ Pass

FormSpec == FormInit /\ [][FormNext]_formVars

-----------------------------------------------------------------------------
(* Type invariant. *)
FormTypeOK ==
  /\ \A f \in Forms : \/ forms[f] = NoForm
                      \/ forms[f] \in [state : {"pending", "submitted", "consumed", "expired"},
                                       by : SUBSET Submission, expires : Nat]
  /\ \A t \in Threads : \/ threads[t] = Idle
                        \/ threads[t] \in [form : Forms, submission : Submission,
                                           at : 0 .. MaxTime]
  /\ now \in 0 .. MaxTime
  /\ accepted \in [Forms -> SUBSET Submission] /\ ended \subseteq Forms

(* Of all that is submitted to a form, by however many devices and however  *)
(* often, one submission is accepted, and no other is ever said to be; the  *)
(* agent is handed that one, once; and nobody is told a form has expired    *)
(* that takes, or took, an answer.                                          *)
OneAnswer ==
  \A f \in Forms :
    /\ Cardinality(accepted[f]) <= 1
    /\ given[f] \in {<<>>, <<accepted[f]>>}
    /\ f \in ended => accepted[f] = {}

-----------------------------------------------------------------------------
(***************************************************************************)
(* A clarification of Hermes on its way to the phone and back: send_clarify *)
(* and the notification lane of the adapter (adapter.py), the event row it   *)
(* keeps (store.py) and the dashboard's answer (workspace_control.py).       *)
(*                                                                          *)
(* Under one lock the prompt is shown in the chat, its row is recorded, and  *)
(* a card for the home screen is sent; Hermes may call again, after a crash  *)
(* too.  The transport keeps one frame, which is arrivals, or abandoned when *)
(* its acknowledgement did not come in time (see LinkTransport).             *)
(***************************************************************************)

CONSTANTS Asks, NoAsk, Answers, NoAnswer
CONSTANTS MaxCalls, MaxCrashes, MaxFaults      \* bounds of the model

ClarifyAssumption == /\ NoAsk \notin Asks /\ NoAnswer \notin Answers
                     /\ {MaxCalls, MaxCrashes, MaxFaults} \subseteq Nat

VARIABLES
  status,      \* of the event's row, "none" before it is recorded
  dismissed,   \* rows the dashboard does not show any more
  prompted,    \* clarifications shown in the chat
  frame,       \* pending_frame: the card that owns it
  abandon,     \* failed_pending_frame_id is the frame's
  arrivals,    \* how often a card reached the phone
  calls,       \* calls of Hermes that wait for the lock
  made, crashes, faults,
  job,         \* the call that holds _link_delivery_lock
  gateway,     \* the answer Hermes has, or that it waits for none any more
  answering,   \* dashboard answers between the check and the gateway
  told         \* dashboard answers arrivals

clarifyVars == <<status, dismissed, prompted, frame, abandon, arrivals, calls, made, crashes, faults,
                 job, gateway, answering, told>>
row == <<status, dismissed>>
wire == <<frame, abandon, arrivals>>
host == <<calls, made, crashes>>
answers == <<gateway, answering, told>>

Steps == {"look", "prompt", "record", "mark", "row", "send", "sending", "late", "failed", "pending", "sent"}
Free == [ask |-> NoAsk, at |-> "look"]

ClarifyTypeOK ==
  /\ status \in [Asks -> {"none", "queued", "prompted", "pending", "sent", "failed"}]
  /\ dismissed \subseteq Asks /\ prompted \subseteq Asks
  /\ frame \in Asks \cup {NoAsk} /\ abandon \in BOOLEAN /\ (abandon => frame # NoAsk)
  /\ arrivals \in [Asks -> Nat] /\ calls \in [Asks -> 0..MaxCalls]
  /\ made \in 0..MaxCalls /\ crashes \in 0..MaxCrashes /\ faults \in 0..MaxFaults
  /\ job \in [ask: Asks \cup {NoAsk}, at: Steps]
  /\ gateway \in [Asks -> Answers \cup {"open", NoAnswer}]
  /\ answering \subseteq Asks \X Answers /\ told \subseteq Asks \X Answers

ClarifyInit ==
  /\ status = [a \in Asks |-> "none"] /\ dismissed = {} /\ prompted = {}
  /\ frame = NoAsk /\ abandon = FALSE /\ arrivals = [a \in Asks |-> 0]
  /\ calls = [a \in Asks |-> 0] /\ made = 0 /\ crashes = 0 /\ faults = 0 /\ job = Free
  /\ gateway = [a \in Asks |-> "open"] /\ answering = {} /\ told = {}

At(a, step) == job = [ask |-> a, at |-> step]
Goes(a, step) == job' = [ask |-> a, at |-> step]
Reaches(a) == arrivals' = [arrivals EXCEPT ![a] = @ + 1]
Marks(a, value) == status' = [status EXCEPT ![a] = value] /\ UNCHANGED dismissed
Fault == faults < MaxFaults /\ faults' = faults + 1

-----------------------------------------------------------------------------
\* Hermes asks, or asks again.
Ask(a) ==
  /\ made < MaxCalls /\ made' = made + 1 /\ calls' = [calls EXCEPT ![a] = @ + 1]
  /\ UNCHANGED <<row, prompted, wire, crashes, faults, job, answers>>
\* send_clarify takes the lock and reads the row.
Look(a) ==
  /\ job = Free /\ calls[a] > 0 /\ calls' = [calls EXCEPT ![a] = @ - 1]
  /\ CASE status[a] = "sent"   -> job' = Free /\ UNCHANGED row
       [] status[a] = "none"   -> Goes(a, "prompt") /\ UNCHANGED row
       [] status[a] = "queued" -> Goes(a, "row") /\ Marks(a, "prompted")
       [] OTHER                -> Goes(a, "row") /\ UNCHANGED row
  /\ UNCHANGED <<prompted, wire, made, crashes, faults, answers>>
\* The chat message of Hermes' own send_clarify; one that fails may have arrived.
Prompt(a) ==
  /\ At(a, "prompt") /\ prompted' = prompted \cup {a} /\ Goes(a, "record")
  /\ UNCHANGED <<row, wire, host, faults, answers>>
PromptFails(a, arrived) ==
  /\ At(a, "prompt") /\ Fault /\ job' = Free
  /\ prompted' = IF arrived THEN prompted \cup {a} ELSE prompted
  /\ UNCHANGED <<row, wire, host, answers>>
\* record_event inserts or ignores; mark_event_prompted follows.
Record(a) ==
  /\ At(a, "record") /\ Goes(a, "mark")
  /\ IF status[a] = "none" THEN Marks(a, "queued") ELSE UNCHANGED row
  /\ UNCHANGED <<prompted, wire, host, faults, answers>>
MarkPrompted(a) ==
  /\ At(a, "mark") /\ Goes(a, "row")
  /\ IF status[a] = "queued" THEN Marks(a, "prompted") ELSE UNCHANGED row
  /\ UNCHANGED <<prompted, wire, host, faults, answers>>

\* _deliver_link_notification_locked reads the row again: one whose frame is pending is
\* the transport's, one whose frame is gone counts as delivered.
Deliver(a) ==
  /\ At(a, "row")
  /\ CASE status[a] = "sent"    -> job' = Free /\ UNCHANGED row
       [] status[a] = "pending" -> job' = Free /\ Marks(a, IF frame = a THEN "pending" ELSE "sent")
       [] OTHER                 -> Goes(a, "send") /\ UNCHANGED row
  /\ UNCHANGED <<prompted, wire, host, faults, answers>>
\* _send_link_payload on the managed lane: one frame at a time.
Send(a) ==
  /\ At(a, "send") /\ frame = NoAsk /\ frame' = a /\ Goes(a, "sending")
  /\ UNCHANGED <<row, prompted, abandon, arrivals, host, faults, answers>>
Answered(a) ==
  /\ At(a, "sending") /\ frame # a /\ Goes(a, "sent")
  /\ UNCHANGED <<row, prompted, wire, host, faults, answers>>
\* No acknowledgement in time: the frame is marked, unless it was held back, and the
\* connection closed; or there is no connection, or an earlier frame does not go.
Late(a, marked) ==
  /\ At(a, "sending") /\ frame = a /\ Fault /\ Goes(a, "late") /\ abandon' = marked
  /\ UNCHANGED <<row, prompted, frame, arrivals, host, answers>>
Unsent(a) ==
  /\ At(a, "send") /\ Fault /\ Goes(a, "late")
  /\ UNCHANGED <<row, prompted, wire, host, answers>>
\* After the error: a pending frame with this very payload owns the delivery.
Owned(a) ==
  /\ At(a, "late") /\ Goes(a, IF frame = a THEN "pending" ELSE "failed")
  /\ UNCHANGED <<row, prompted, wire, host, faults, answers>>
\* A Direct route sends there only; a failure may come after the delivery.
SendDirect(a, arrived, fails) ==
  /\ At(a, "send") /\ (arrived \/ fails)
  /\ IF fails THEN Fault ELSE UNCHANGED faults
  /\ IF arrived THEN Reaches(a) ELSE UNCHANGED arrivals
  /\ Goes(a, IF fails THEN "failed" ELSE "sent")
  /\ UNCHANGED <<row, prompted, frame, abandon, host, answers>>
Write(a) ==
  /\ job.ask = a /\ job.at \in {"failed", "pending", "sent"}
  /\ job' = Free /\ Marks(a, job.at)
  /\ UNCHANGED <<prompted, wire, host, faults, answers>>

\* The relay accepts the frame, or the new connection finds that it did not get the
\* frame that was given up.
Accept(a) ==
  /\ frame = a /\ frame' = NoAsk /\ abandon' = FALSE /\ Reaches(a)
  /\ UNCHANGED <<row, prompted, host, faults, job, answers>>
Abandon ==
  /\ abandon /\ abandon' = FALSE /\ frame' = NoAsk
  /\ UNCHANGED <<row, prompted, arrivals, host, faults, job, answers>>
Crash ==
  /\ crashes < MaxCrashes /\ crashes' = crashes + 1
  /\ job' = Free /\ calls' = [a \in Asks |-> 0] /\ answering' = {}
  /\ UNCHANGED <<row, prompted, wire, made, faults, gateway, told>>

-----------------------------------------------------------------------------
\* clarifications_respond: the row and the gateway are checked, then the gateway takes
\* one answer, then the row is dismissed.
Respond(a, x) ==
  /\ status[a] # "none" /\ a \notin dismissed /\ gateway[a] = "open"
  /\ answering' = answering \cup {<<a, x>>}
  /\ UNCHANGED <<row, prompted, wire, host, faults, job, gateway, told>>
Resolve(a, x) ==
  /\ <<a, x>> \in answering /\ answering' = answering \ {<<a, x>>}
  /\ IF gateway[a] = "open"
       THEN gateway' = [gateway EXCEPT ![a] = x] /\ told' = told \cup {<<a, x>>}
       ELSE UNCHANGED <<gateway, told>>
  /\ UNCHANGED <<row, prompted, wire, host, faults, job>>
Dismiss(a) ==
  /\ a \notin dismissed /\ \E x \in Answers : <<a, x>> \in told
  /\ dismissed' = dismissed \cup {a}
  /\ UNCHANGED <<status, prompted, wire, host, faults, job, answers>>
\* The person answers in the chat, or Hermes waits no longer.
Settled(a) ==
  /\ gateway[a] = "open" /\ gateway' = [gateway EXCEPT ![a] = NoAnswer]
  /\ UNCHANGED <<row, prompted, wire, host, faults, job, answering, told>>

ClarifyNext ==
  \/ \E a \in Asks :
       \/ Ask(a) \/ Look(a) \/ Prompt(a) \/ Record(a) \/ MarkPrompted(a) \/ Deliver(a)
       \/ Send(a) \/ Answered(a) \/ Unsent(a) \/ Owned(a) \/ Write(a) \/ Accept(a)
       \/ \E b \in BOOLEAN : PromptFails(a, b) \/ Late(a, b)
       \/ \E arrived, fails \in BOOLEAN : SendDirect(a, arrived, fails)
       \/ \E x \in Answers : Respond(a, x) \/ Resolve(a, x)
       \/ Dismiss(a) \/ Settled(a)
  \/ Abandon \/ Crash

ClarifySpec == ClarifyInit /\ [][ClarifyNext]_clarifyVars

-----------------------------------------------------------------------------
\* A card on the home screen, and an answer given there, are of a clarification that was
\* shown in the chat, and Hermes took the one answer the dashboard was told of.
PromptComesFirst ==
  /\ \A a \in Asks : arrivals[a] > 0 \/ frame = a => a \in prompted
  /\ \A reply \in told : reply[1] \in prompted /\ gateway[reply[1]] = reply[2]

\* "Replayed events ... do not duplicate an event already recorded as sent": however the
\* calls repeat, none prepares another delivery of it.
SentIsNotRepeated == job.at \in {"send", "sending"} => status[job.ask] # "sent"

\* "Replayed events retry failed Link delivery": what is recorded as sent, and so is not
\* tried again, has arrived.
RecordedAsArrived == \A a \in Asks : status[a] = "sent" => arrivals[a] > 0

-----------------------------------------------------------------------------
(***************************************************************************)
(* The native controls of a chat (adapter.py): the phone asks to open the   *)
(* model or reasoning picker, the adapter runs Hermes' own command, Hermes  *)
(* answers by calling send_model_picker or send_choice_picker with the       *)
(* callback that applies a choice, and a later selection runs the callback.  *)
(*                                                                          *)
(* A request identity lives in a table of its own while it is pending and   *)
(* another while its picker is active; every pop is by identity, whichever  *)
(* opening put the entry there.  Openings number the tasks.  A route is the *)
(* Direct connection a request came in on, NoRoute on the managed lane.     *)
(***************************************************************************)

CONSTANTS Phones, Requests, Choices
CONSTANTS AskedBy                        \* the phone a request identity belongs to
CONSTANTS MaxOpens, MaxReconnects        \* bounds of the model
CONSTANT Capacity                        \* active pickers (64 in the code)

PickerAssumption == /\ AskedBy \in [Requests -> Phones] /\ {MaxOpens, MaxReconnects} \subseteq Nat
                    /\ Capacity \in Nat \ {0} /\ IsFiniteSet(Choices)

VARIABLES
  opens,       \* the openings so far: request, route
  waiting,     \* openings whose task waits for the picker, at most 10 seconds
  calling,     \* openings whose command has not called the adapter back yet
  pending,     \* _pending_picker_requests: the opening, 0 when there is none
  active,      \* _active_pickers: the opening asked for and the call that answered it
  sending,     \* calls awaiting the delivery of their picker, and the opening they took
  ready,       \* openings whose picker was delivered
  offered,     \* what each call that took a request offered, in their order
  chosen,      \* the choices each call's callback was given, and by whom
  connection   \* of each phone on the Direct lane

pickerVars == <<opens, waiting, calling, pending, active, sending, ready, offered, chosen, connection>>

Openings == 1..MaxOpens
NoRoute == 0
NoPicker == [open |-> 0, call |-> 0]
Pickers == [open: Openings, call: Openings] \cup {NoPicker}

PickerTypeOK ==
  /\ opens \in Seq([request: Requests, route: Nat]) /\ Len(opens) <= MaxOpens
  /\ waiting \subseteq Openings /\ calling \subseteq Openings /\ ready \subseteq Openings
  /\ pending \in [Requests -> Openings \cup {0}] /\ active \in [Requests -> Pickers]
  /\ sending \subseteq Pickers \ {NoPicker} /\ offered \in Seq(SUBSET Choices)
  /\ \A c \in Openings : Len(chosen[c]) <= 2
  /\ connection \in [Phones -> 1..MaxReconnects + 1]

PickerInit ==
  /\ opens = <<>> /\ waiting = {} /\ calling = {} /\ sending = {} /\ ready = {}
  /\ pending = [r \in Requests |-> 0] /\ active = [r \in Requests |-> NoPicker]
  /\ offered = <<>> /\ chosen = [c \in Openings |-> <<>>]
  /\ connection = [p \in Phones |-> 1]

Current(n) == opens[n].route \in {NoRoute, connection[AskedBy[opens[n].request]]}
Drop(table, r, none) == [table EXCEPT ![r] = none]

-----------------------------------------------------------------------------
\* _receive_picker_open: an identity in use is refused.
Open(r, direct) ==
  /\ Len(opens) < MaxOpens /\ pending[r] = 0 /\ active[r] = NoPicker
  /\ LET n == Len(opens) + 1
     IN /\ opens' = Append(opens, [request |-> r, route |-> IF direct THEN connection[AskedBy[r]] ELSE NoRoute])
        /\ waiting' = waiting \cup {n} /\ calling' = calling \cup {n}
        /\ pending' = [pending EXCEPT ![r] = n]
  /\ UNCHANGED <<active, sending, ready, offered, chosen, connection>>
\* The picker is there, the 10 seconds are over or the command failed: what is still
\* pending under the identity is dropped, and a failure reported.
Leave(n) ==
  /\ n \in waiting /\ waiting' = waiting \ {n}
  /\ pending' = Drop(pending, opens[n].request, 0)
  /\ UNCHANGED <<opens, calling, active, sending, ready, offered, chosen, connection>>

\* send_model_picker, send_choice_picker: take the pending request, remember the picker
\* (the oldest makes room), deliver it.
Room(table, r) ==
  LET kept == {k \in Requests : table[k] # NoPicker}
      oldest == {k \in kept : \A j \in kept : table[k].call <= table[j].call}
  IN IF Cardinality(kept) < Capacity THEN table
     ELSE [k \in Requests |-> IF k \in oldest THEN NoPicker ELSE table[k]]
Call(c, offer) ==
  LET r == opens[c].request
      new == [open |-> pending[r], call |-> Len(offered) + 1]
  IN /\ c \in calling /\ calling' = calling \ {c}
     /\ IF pending[r] = 0 THEN UNCHANGED <<pending, active, sending, offered>>
        ELSE /\ pending' = Drop(pending, r, 0)
             /\ active' = [Room(active, r) EXCEPT ![r] = new]
             /\ sending' = sending \cup {new} /\ offered' = Append(offered, offer)
     /\ UNCHANGED <<opens, waiting, ready, chosen, connection>>
Delivered(s) ==
  /\ s \in sending /\ sending' = sending \ {s} /\ Current(s.open)
  /\ ready' = ready \cup {s.open}
  /\ UNCHANGED <<opens, waiting, calling, pending, active, offered, chosen, connection>>
\* The payload is refused or its route is gone.
NotDelivered(s) ==
  /\ s \in sending /\ sending' = sending \ {s}
  /\ active' = Drop(active, opens[s.open].request, NoPicker)
  /\ UNCHANGED <<opens, waiting, calling, pending, ready, offered, chosen, connection>>

\* Mutant: any phone may select.
ValidForAnyone(p, route, r, choice) ==
  LET entry == active[r]
  IN /\ entry # NoPicker /\ choice \in offered[entry.call]
     /\ opens[entry.open].route \in {NoRoute, route}

\* _receive_picker_selection: the picker is taken before its callback runs.
Valid(p, route, r, choice) ==
  LET entry == active[r]
  IN /\ entry # NoPicker /\ AskedBy[r] = p /\ choice \in offered[entry.call]
     /\ opens[entry.open].route \in {NoRoute, route}
Select(p, direct, r, choice) ==
  LET entry == active[r]
      route == IF direct THEN connection[p] ELSE NoRoute
  IN /\ Valid(p, route, r, choice) /\ active' = Drop(active, r, NoPicker)
     /\ chosen' = IF Current(entry.open) THEN [chosen EXCEPT ![entry.call] = Append(@, [choice |-> choice, by |-> p, request |-> r])]
                  ELSE chosen
     /\ UNCHANGED <<opens, waiting, calling, pending, sending, ready, offered, connection>>

\* _clean_picker_state after a minute, or ten.
Expire(r) ==
  /\ \/ pending[r] # 0 /\ pending' = Drop(pending, r, 0) /\ UNCHANGED active
     \/ active[r] # NoPicker /\ active' = Drop(active, r, NoPicker) /\ UNCHANGED pending
  /\ UNCHANGED <<opens, waiting, calling, sending, ready, offered, chosen, connection>>
Reconnect(p) ==
  /\ connection[p] <= MaxReconnects /\ connection' = [connection EXCEPT ![p] = @ + 1]
  /\ UNCHANGED <<opens, waiting, calling, pending, active, sending, ready, offered, chosen>>
\* _on_direct_status of a retired runtime, or disconnect, which forgets every request.
Retire(forgotten) ==
  /\ \A p \in Phones : connection[p] <= MaxReconnects
  /\ connection' = [p \in Phones |-> connection[p] + 1]
  /\ LET gone(n) == n # 0 /\ (forgotten \/ opens[n].route # NoRoute)
     IN /\ pending' = [r \in Requests |-> IF gone(pending[r]) THEN 0 ELSE pending[r]]
        /\ active' = [r \in Requests |-> IF gone(active[r].open) THEN NoPicker ELSE active[r]]
  /\ UNCHANGED <<opens, waiting, calling, sending, ready, offered, chosen>>

PickerNext ==
  \/ \E r \in Requests, direct \in BOOLEAN : Open(r, direct)
  \/ \E n \in Openings : Leave(n) \/ \E offer \in SUBSET Choices \ {{}} : Call(n, offer)
  \/ \E s \in sending : Delivered(s) \/ NotDelivered(s)
  \/ \E p \in Phones, direct \in BOOLEAN, r \in Requests, choice \in Choices : Select(p, direct, r, choice)
  \/ \E r \in Requests : Expire(r)
  \/ \E p \in Phones : Reconnect(p)
  \/ \E forgotten \in BOOLEAN : Retire(forgotten)

-----------------------------------------------------------------------------
\* Whatever is retried, expires or comes late: Hermes' callback for a picker is called
\* at most once, with a choice that picker offered, by the phone that asked for it.
ChosenOnce == \A c \in Openings :
  /\ Len(chosen[c]) <= 1
  /\ \A i \in DOMAIN chosen[c] :
       /\ chosen[c][i].choice \in offered[c]
       /\ chosen[c][i].by = AskedBy[chosen[c][i].request]
================================================================================
