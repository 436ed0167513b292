------------------------ MODULE DirectConnectionProofs ------------------------
(***************************************************************************)
(* Proofs about the direct connection.  DirectCommands, for any requests,   *)
(* connections, limits and windows, and a clock set back by less than       *)
(* Future: types, one dispatch per request, and receipts that agree.        *)
(* DirectAuthority, for any phones, epochs, sockets and lifetimes: a phone  *)
(* the host knows is withdrawn stays out, and no fence once persisted is    *)
(* ever lowered.                                                            *)
(***************************************************************************)
EXTENDS DirectCommands, DirectAuthority, FiniteSetTheorems, TLAPS

(* A request that was claimed has its row, or is too old for the window,    *)
(* however the clock is set.                                                *)
HasRow(q) == Stored(CommandOf[q]) /\ rows[CommandOf[q]].request = q
TooOld(q) == IssuedAt[q] + Ttl <= latest
Claimed(q) == runs[q] # 0 \/ \E n \in Slots : tasks[n].at = "dispatch" /\ tasks[n].request = q

ClockHolds == now <= latest /\ latest <= now + MaxBack

Once ==
  /\ ClockHolds
  /\ \A q \in Requests : runs[q] <= 1
  /\ \A q \in Requests : Claimed(q) => HasRow(q) \/ TooOld(q)
  /\ \A n \in Slots : tasks[n].at = "dispatch" =>
       /\ runs[tasks[n].request] = 0
       /\ \A m \in Slots \ {n} :
            tasks[m].at = "dispatch" => tasks[m].request # tasks[n].request

(* What was stored or is about to be sent as the result of a request.       *)
Sending(n, q, x) ==
  /\ tasks[n].at = "send" /\ tasks[n].request = q
  /\ tasks[n].answer = [state |-> "completed", result |-> x]
Reported(q, x) == [request |-> q, result |-> x] \in told \/ \E n \in Slots : Sending(n, q, x)
StoredAs(q, x) ==
  HasRow(q) => /\ rows[CommandOf[q]].state = "completed"
               /\ rows[CommandOf[q]].result = x

Agreed ==
  /\ \A c \in Commands : rows[c].state = "completed" => runs[rows[c].request] # 0
  /\ \A n \in Slots : tasks[n].at \in {"running", "complete"} => runs[tasks[n].request] # 0
  /\ \A q \in Requests : \A x, y \in Results :
       Reported(q, x) => runs[q] # 0 /\ StoredAs(q, x) /\ (Reported(q, y) => x = y)
-----------------------------------------------------------------------------
(* Types.                                                                   *)
LEMMA TaskAt ==
  ASSUME TypeOK, NEW n \in Slots, tasks[n].at # "free"
  PROVE  tasks[n] \in Task
BY DEF TypeOK, Free

LEMMA TaskUpdates ==
  ASSUME NEW t \in Task, NEW place \in Places, NEW answer \in Answer, NEW outcome \in Results
  PROVE  /\ [t EXCEPT !.at = place] \in Task
         /\ [t EXCEPT !.at = place, !.answer = answer] \in Task
         /\ [t EXCEPT !.at = place, !.outcome = outcome] \in Task
         /\ [t EXCEPT !.outcome = outcome] \in Task
         /\ [t EXCEPT !.cancelled = TRUE] \in Task
BY DEF Task

LEMMA AnswerTypes ==
  ASSUME NEW x \in Results
  PROVE  Rejected \in Answer /\ Admitted \in Answer /\ [state |-> "completed", result |-> x] \in Answer
BY DEF Rejected, Admitted, Answer, Results

LEMMA RowTypes ==
  ASSUME TypeOK, NEW n \in Slots, tasks[n] \in Task
  PROVE  /\ Pruned \in [Commands -> Row \cup {NoRow}]
         /\ DirectAssumption => CommandOf[tasks[n].request] \in Commands
         /\ Inserted(n) \in [Commands -> Row \cup {NoRow}]
         /\ Completable(n) /\ tasks[n].outcome \in Results
              => Completed(n) \in [Commands -> Row \cup {NoRow}]
         /\ DirectAssumption /\ Replay(n) => Replayed(n) \in Answer
<1>1. Pruned \in [Commands -> Row \cup {NoRow}]
  BY DEF TypeOK, Pruned
<1>2. [request |-> tasks[n].request, state |-> "admitted", owner |-> tasks[n].of,
       result |-> "none"] \in Row
  BY DEF Task, Row, Results
<1>3. Inserted(n) \in [Commands -> Row \cup {NoRow}]
  BY <1>1, <1>2 DEF Inserted
<1>4. DirectAssumption => CommandOf[tasks[n].request] \in Commands
  BY DEF DirectAssumption, Task
<1>5. ASSUME Completable(n), tasks[n].outcome \in Results
      PROVE  Completed(n) \in [Commands -> Row \cup {NoRow}]
  <2> DEFINE c == CommandOf[tasks[n].request]
  <2>1. CASE c \notin Commands
    BY <2>1 DEF Completed, TypeOK
  <2>2. CASE c \in Commands
    <3>1. rows[c] \in Row
      BY <1>5, <2>2 DEF Completable, TypeOK
    <3>2. [[rows[c] EXCEPT !.state = "completed"] EXCEPT !.result = tasks[n].outcome] \in Row
      BY <3>1, <1>5 DEF Row
    <3> QED BY <2>2, <3>2 DEF Completed, TypeOK
  <2> QED BY <2>1, <2>2
<1>6. ASSUME DirectAssumption, Replay(n) PROVE Replayed(n) \in Answer
  <2>1. Pruned[CommandOf[tasks[n].request]] \in Row
    BY <1>1, <1>4, <1>6 DEF Replay
  <2> QED BY <2>1 DEF Replayed, Answer, Row, Results
<1> QED BY <1>1, <1>3, <1>4, <1>5, <1>6

LEMMA TypingInit == ASSUME DirectAssumption, Init PROVE TypeOK
BY DEF DirectAssumption, Init, TypeOK, Unopened

(* The steps of a task change the tasks by the operators above.             *)
LEMMA TasksTyped ==
  ASSUME TypeOK, NEW n \in Slots, tasks[n] \in Task, NEW place \in Places, NEW answer \in Answer,
         \/ Goes(n, place) \/ Ends(n) \/ Answers(n, place, answer) \/ Then(n, place, answer)
  PROVE  tasks' \in [Slots -> Task \cup {Free}]
<1>0. "none" \in Results
  BY DEF Results
<1>1. [tasks[n] EXCEPT !.at = place] \in Task /\ [tasks[n] EXCEPT !.at = place, !.answer = answer] \in Task
  BY <1>0, TaskUpdates
<1>2. tasks \in [Slots -> Task \cup {Free}]
  BY DEF TypeOK
<1>3. CASE Goes(n, place)
  BY <1>1, <1>2, <1>3 DEF Goes
<1>4. CASE Ends(n)
  BY <1>2, <1>4 DEF Ends
<1>5. CASE Answers(n, place, answer)
  <2>1. tasks' = [tasks EXCEPT ![n] = [tasks[n] EXCEPT !.at = place, !.answer = answer]]
    BY <1>5, <1>2 DEF Answers
  <2> QED BY <2>1, <1>1, <1>2
<1> QED BY <1>3, <1>4, <1>5 DEF Then

(* Every step keeps the types.                                              *)
LEMMA TypingTask ==
  ASSUME DirectAssumption, TypeOK, NEW n \in Slots, TaskStep(n)
  PROVE  TypeOK'
<1> USE DEF clock, wire
<1>0. /\ now \in Nat /\ latest \in Nat /\ faults \in Nat
      /\ rows \in [Commands -> Row \cup {NoRow}]
      /\ generations \in [Generations -> {"new", "running", "stopping", "closed"}]
      /\ connections \in [Connections -> Opened \cup {Unopened, Gone}]
      /\ tasks \in [Slots -> Task \cup {Free}]
      /\ runs \in [Requests -> Nat]
      /\ told \subseteq [request : Requests, result : Results]
  BY DEF TypeOK
<1>1. tasks[n] \in Task
  BY TaskAt DEF TaskStep, AdmitNew, AdmitReplay, AdmitRefused, AdmitFails, Dispatch, Return,
     Complete, CompleteRefused, CompleteFails, Send, Cancel, Busy
<1>2. /\ tasks[n].outcome \in Results /\ tasks[n].request \in Requests
      /\ tasks[n].answer \in Answer /\ tasks[n].at \in Places
      /\ tasks[n].on \in Connections
  BY <1>1 DEF Task
<1>3. "none" \in Results /\ "result" \in Results /\ "uncertain" \in Results
  BY DEF Results
<1>4. /\ "dispatch" \in Places /\ "running" \in Places /\ "complete" \in Places
      /\ "send" \in Places
  BY DEF Places
<1>5. /\ Rejected \in Answer /\ Admitted \in Answer
      /\ [state |-> "completed", result |-> tasks[n].outcome] \in Answer
  BY <1>2, AnswerTypes
<1>6. CASE AdmitNew(n)
  <2>1. rows' \in [Commands -> Row \cup {NoRow}]
    BY <1>6, <1>1, RowTypes DEF AdmitNew
  <2>2. tasks' \in [Slots -> Task \cup {Free}]
    BY <1>6, <1>1, <1>4, <1>5, TasksTyped DEF AdmitNew
  <2> QED BY <1>0, <1>6, <2>1, <2>2 DEF AdmitNew, TypeOK
<1>7. CASE AdmitReplay(n)
  <2>1. rows' \in [Commands -> Row \cup {NoRow}]
    BY <1>7, <1>1, RowTypes DEF AdmitReplay
  <2>2. Replayed(n) \in Answer
    BY <1>7, <1>1, RowTypes DEF AdmitReplay
  <2>3. tasks' \in [Slots -> Task \cup {Free}]
    BY <1>7, <1>1, <1>4, <2>2, TasksTyped DEF AdmitReplay
  <2> QED BY <1>0, <1>7, <2>1, <2>3 DEF AdmitReplay, TypeOK
<1>8. CASE AdmitRefused(n)
  <2>1. tasks' \in [Slots -> Task \cup {Free}]
    BY <1>8, <1>1, <1>4, <1>5, TasksTyped DEF AdmitRefused
  <2> QED BY <1>0, <1>8, <2>1 DEF AdmitRefused, TypeOK
<1>9. CASE AdmitFails(n)
  <2>1. rows' \in [Commands -> Row \cup {NoRow}]
    BY <1>0, <1>9, <1>1, RowTypes DEF AdmitFails
  <2>2. tasks' \in [Slots -> Task \cup {Free}]
    BY <1>9, <1>1, <1>4, <1>5, TasksTyped DEF AdmitFails
  <2>3. faults' \in Nat
    BY <1>0, <1>9 DEF AdmitFails
  <2> QED BY <1>0, <1>9, <2>1, <2>2, <2>3 DEF AdmitFails, TypeOK
<1>10. CASE Dispatch(n)
  <2>1. tasks' \in [Slots -> Task \cup {Free}]
    BY <1>10, <1>1, <1>2, <1>4, TasksTyped DEF Dispatch
  <2>2. runs' \in [Requests -> Nat]
    BY <1>0, <1>2, <1>10 DEF Dispatch
  <2> QED BY <1>0, <1>10, <2>1, <2>2 DEF Dispatch, TypeOK
<1>11. CASE Return(n)
  <2>1. PICK x \in Results :
          tasks' = [tasks EXCEPT ![n].at = "complete", ![n].outcome = x]
    BY <1>11, <1>3 DEF Return
  <2>2. tasks' = [tasks EXCEPT ![n] = [tasks[n] EXCEPT !.at = "complete", !.outcome = x]]
    BY <1>0, <2>1
  <2>3. [tasks[n] EXCEPT !.at = "complete", !.outcome = x] \in Task
    BY <1>1, <1>2, <1>4, TaskUpdates
  <2>4. tasks' \in [Slots -> Task \cup {Free}]
    BY <1>0, <2>2, <2>3
  <2> QED BY <1>0, <1>11, <2>4 DEF Return, TypeOK
<1>12. CASE Complete(n)
  <2>1. rows' \in [Commands -> Row \cup {NoRow}]
    BY <1>12, <1>1, <1>2, RowTypes DEF Complete
  <2>2. tasks' \in [Slots -> Task \cup {Free}]
    BY <1>12, <1>1, <1>4, <1>5, TasksTyped DEF Complete
  <2> QED BY <1>0, <1>12, <2>1, <2>2 DEF Complete, TypeOK
<1>13. ASSUME CompletionFailed(n) PROVE tasks' \in [Slots -> Task \cup {Free}]
  <2>1. CASE tasks' = [tasks EXCEPT ![n].outcome = "uncertain"]
    <3>1. tasks' = [tasks EXCEPT ![n] = [tasks[n] EXCEPT !.outcome = "uncertain"]]
      BY <1>0, <2>1
    <3>2. [tasks[n] EXCEPT !.outcome = "uncertain"] \in Task
      BY <1>1, <1>2, <1>3, TaskUpdates
    <3> QED BY <1>0, <3>1, <3>2
  <2>2. CASE Ends(n) \/ Answers(n, "send", Admitted)
    BY <2>2, <1>1, <1>4, <1>5, TasksTyped
  <2> QED BY <1>13, <2>1, <2>2 DEF CompletionFailed
<1>14. CASE CompleteRefused(n)
  BY <1>0, <1>13, <1>14 DEF CompleteRefused, TypeOK
<1>15. CASE CompleteFails(n)
  <2>1. rows' \in [Commands -> Row \cup {NoRow}]
    BY <1>0, <1>15, <1>1, <1>2, RowTypes DEF CompleteFails
  <2>2. tasks' \in [Slots -> Task \cup {Free}]
    BY <1>13, <1>15 DEF CompleteFails
  <2>3. faults' \in Nat
    BY <1>0, <1>15 DEF CompleteFails
  <2> QED BY <1>0, <1>15, <2>1, <2>2, <2>3 DEF CompleteFails, TypeOK
<1>16. CASE Send(n)
  <2>1. tasks' \in [Slots -> Task \cup {Free}]
    BY <1>16, <1>1, <1>4, <1>5, TasksTyped DEF Send
  <2>2. told' \subseteq [request : Requests, result : Results]
    <3>1. tasks[n].answer.result \in Results
      BY <1>2 DEF Answer
    <3> QED BY <1>0, <1>2, <1>16, <3>1 DEF Send
  <2>3. connections' \in [Connections -> Opened \cup {Unopened, Gone}]
    BY <1>0, <1>16 DEF Send, Gone
  <2>4. UNCHANGED <<now, latest, rows, generations, runs, faults>>
    BY <1>16 DEF Send
  <2> QED BY <1>0, <2>1, <2>2, <2>3, <2>4 DEF TypeOK
<1>17. CASE Cancel(n)
  <2>1. [tasks[n] EXCEPT !.cancelled = TRUE] \in Task
    BY <1>1, <1>2, <1>4, TaskUpdates
  <2>2. CASE tasks' = [tasks EXCEPT ![n].cancelled = TRUE]
    <3>1. tasks' = [tasks EXCEPT ![n] = [tasks[n] EXCEPT !.cancelled = TRUE]]
      BY <1>0, <2>2
    <3> QED BY <1>0, <1>17, <2>1, <3>1 DEF Cancel, TypeOK
  <2>3. CASE Ends(n)
    <3>1. tasks' \in [Slots -> Task \cup {Free}]
      BY <2>3, <1>1, <1>4, <1>5, TasksTyped
    <3> QED BY <1>0, <1>17, <3>1 DEF Cancel, TypeOK
  <2> QED BY <1>17, <2>2, <2>3 DEF Cancel
<1> QED BY <1>6, <1>7, <1>8, <1>9, <1>10, <1>11, <1>12, <1>14, <1>15, <1>16, <1>17 DEF TaskStep

LEMMA TypingStep ==
  ASSUME DirectAssumption, TypeOK, [Next]_vars
  PROVE  TypeOK'
<1> USE DEF clock, wire
<1>0. /\ now \in Nat /\ latest \in Nat /\ faults \in Nat
      /\ rows \in [Commands -> Row \cup {NoRow}]
      /\ generations \in [Generations -> {"new", "running", "stopping", "closed"}]
      /\ connections \in [Connections -> Opened \cup {Unopened, Gone}]
      /\ tasks \in [Slots -> Task \cup {Free}]
      /\ runs \in [Requests -> Nat]
      /\ told \subseteq [request : Requests, result : Results]
  BY DEF TypeOK
<1>1. CASE \E g \in Generations : Start(g) \/ Retire(g) \/ CloseJournal(g)
  <2> PICK g \in Generations : Start(g) \/ Retire(g) \/ CloseJournal(g)
    BY <1>1
  <2>1. CASE Start(g)
    BY <1>0, <2>1 DEF Start, TypeOK
  <2>2. CASE Retire(g)
    BY <1>0, <2>2 DEF Retire, TypeOK, Gone
  <2>3. CASE CloseJournal(g)
    BY <1>0, <2>3 DEF CloseJournal, TypeOK
  <2> QED BY <2>1, <2>2, <2>3
<1>2. CASE Crash
  <2>1. connections' \in [Connections -> Opened \cup {Unopened, Gone}]
    BY <1>2 DEF Crash, Gone, Unopened
  <2>2. tasks' \in [Slots -> Task \cup {Free}]
    BY <1>2 DEF Crash
  <2>3. generations' \in [Generations -> {"new", "running", "stopping", "closed"}]
    BY <1>2 DEF Crash
  <2> QED BY <1>0, <1>2, <2>1, <2>2, <2>3 DEF Crash, TypeOK
<1>3. CASE Tick \/ StepBack
  BY <1>0, <1>3 DEF Tick, StepBack, TypeOK
<1>4. CASE \E c \in Connections : Authenticate(c) \/ Disconnect(c)
  BY <1>0, <1>4 DEF Authenticate, Disconnect, TypeOK, Opened, Unopened, Gone
<1>5. CASE \E c \in Connections, g \in Generations : Connect(c, g)
  BY <1>0, <1>5 DEF Connect, TypeOK, Opened
<1>6. CASE \E c \in Connections, q \in Requests : Receive(c, q)
  <2> PICK c \in Connections, q \in Requests : Receive(c, q)
    BY <1>6
  <2> DEFINE n == CHOOSE m \in Slots : ~Busy(m)
             t == [at |-> "admit", on |-> c, of |-> connections[c].of, request |-> q,
                   outcome |-> "none", answer |-> NoAnswer, cancelled |-> FALSE]
  <2>1. connections[c].of \in Generations
    BY <1>0 DEF Receive, Opened, Unopened, Gone
  <2>2. t \in Task
    BY <2>1 DEF Task, Places, Results, NoAnswer, Answer
  <2>3. tasks' = [tasks EXCEPT ![n] = t]
    BY DEF Receive
  <2>4. tasks' \in [Slots -> Task \cup {Free}]
    BY <1>0, <2>2, <2>3
  <2> QED BY <1>0, <2>4 DEF Receive, TypeOK
<1>7. CASE \E n \in Slots : TaskStep(n)
  BY <1>7, TypingTask
<1>8. CASE UNCHANGED vars
  BY <1>0, <1>8 DEF vars, TypeOK
<1> QED BY <1>1, <1>2, <1>3, <1>4, <1>5, <1>6, <1>7, <1>8 DEF Next

(* The journal holds admitted and completed rows, and every task, connection *)
(* and receipt is of its kind, whatever the requests and the limits are.     *)
THEOREM Typing == ASSUME DirectAssumption PROVE Spec => []TypeOK
BY TypingInit, TypingStep, PTL DEF Spec
-----------------------------------------------------------------------------
(* One dispatch.                                                            *)
LEMMA OnceInit == ASSUME DirectAssumption, Init PROVE Once
BY DEF DirectAssumption, Init, Once, ClockHolds, Claimed, Free

(* What a step of the journal does to the row of a request.                 *)
LEMMA RowKept ==
  ASSUME DirectAssumption, TypeOK, ClockHolds, NEW n \in Slots, tasks[n] \in Task,
         \/ rows' = Pruned
         \/ New(n) /\ rows' = Inserted(n)
         \/ Completable(n) /\ rows' = Completed(n),
         latest' = latest,
         NEW q \in Requests, HasRow(q)
  PROVE  HasRow(q)' \/ TooOld(q)'
<1> DEFINE c == CommandOf[q]
           k == CommandOf[tasks[n].request]
<1>0. c \in Commands /\ k \in Commands /\ IssuedAt[q] \in Nat /\ Ttl \in Nat
  BY DEF DirectAssumption, Task, Ttl
<1>1. rows[c].state # "absent" /\ rows[c].request = q /\ rows \in [Commands -> Row \cup {NoRow}]
  BY DEF HasRow, Stored, TypeOK
<1>2. ASSUME Pruned[c] # rows[c] PROVE TooOld(q)'
  <2>1. IssuedAt[q] + Ttl <= now
    BY <1>0, <1>1, <1>2 DEF Pruned, Expired
  <2> QED BY <1>0, <2>1 DEF TooOld, ClockHolds, TypeOK
<1>3. CASE rows' = Pruned
  BY <1>1, <1>2, <1>3 DEF HasRow, Stored
<1>4. CASE New(n) /\ rows' = Inserted(n)
  <2>1. CASE c = k
    BY <1>1, <1>2, <1>4, <2>1 DEF New, NoRow
  <2>2. CASE c # k
    <3>1. rows'[c] = Pruned[c]
      BY <1>0, <1>4, <2>2 DEF Inserted, Pruned
    <3> QED BY <1>1, <1>2, <3>1 DEF HasRow, Stored
  <2> QED BY <2>1, <2>2
<1>5. CASE Completable(n) /\ rows' = Completed(n)
  <2>1. CASE c = k
    <3>1. rows'[c] = [[rows[c] EXCEPT !.state = "completed"] EXCEPT !.result = tasks[n].outcome]
      BY <1>0, <1>1, <1>5, <2>1 DEF Completed
    <3>2. rows[c] \in Row
      BY <1>0, <1>1 DEF NoRow
    <3>3. rows'[c].state = "completed" /\ rows'[c].request = rows[c].request
      BY <3>1, <3>2 DEF Row
    <3> QED BY <1>1, <3>3 DEF HasRow, Stored
  <2>2. CASE c # k
    BY <1>0, <1>1, <1>5, <2>2 DEF Completed, HasRow, Stored
  <2> QED BY <2>1, <2>2
<1> QED BY <1>3, <1>4, <1>5

(* What is admitted anew was never claimed: its row could only be gone      *)
(* after the window for it had closed, however the clock was set back.      *)
LEMMA NewIsUnclaimed ==
  ASSUME DirectAssumption, TypeOK, Once, NEW n \in Slots, tasks[n] \in Task, New(n)
  PROVE  ~Claimed(tasks[n].request)
<1> DEFINE q == tasks[n].request
<1>0. /\ q \in Requests /\ CommandOf[q] \in Commands /\ IssuedAt[q] \in Nat
      /\ Past \in Nat /\ Future \in Nat /\ Future > 0 /\ MaxBack \in Nat /\ MaxBack < Future
      /\ now \in Nat /\ latest \in Nat
  BY DEF DirectAssumption, Task, TypeOK
<1>1. now - Past <= IssuedAt[q] /\ Pruned[CommandOf[q]] = NoRow
  BY DEF New, InWindow
<1>2. ~HasRow(q)
  <2> SUFFICES ASSUME HasRow(q) PROVE FALSE
    OBVIOUS
  <2>1. rows[CommandOf[q]].request = q /\ rows[CommandOf[q]].state # "absent"
    BY DEF HasRow, Stored
  <2>2. IssuedAt[q] + Ttl <= now
    BY <1>0, <1>1, <2>1 DEF Pruned, Expired, NoRow
  <2> QED BY <1>0, <1>1, <2>2 DEF Ttl
<1>3. ~TooOld(q)
  BY <1>0, <1>1 DEF TooOld, Ttl, Once, ClockHolds
<1> QED BY <1>0, <1>2, <1>3 DEF Once

(* A step that dispatches nothing and loses no row of the window.           *)
LEMMA OnceQuiet ==
  ASSUME DirectAssumption, TypeOK, Once, runs' = runs, ClockHolds',
         latest' \in Nat, latest <= latest',
         \A m \in Slots : tasks'[m].at = "dispatch" =>
           tasks[m].at = "dispatch" /\ tasks'[m].request = tasks[m].request,
         \A q \in Requests : HasRow(q) => HasRow(q)' \/ TooOld(q)'
  PROVE  Once'
<1>1. ASSUME NEW q \in Requests, Claimed(q)' PROVE HasRow(q)' \/ TooOld(q)'
  <2>1. Claimed(q)
    BY <1>1 DEF Claimed
  <2>2. TooOld(q) => TooOld(q)'
    <3>1. IssuedAt[q] + Ttl \in Nat /\ latest \in Nat
      BY DEF DirectAssumption, Ttl, TypeOK
    <3> QED BY <3>1 DEF TooOld
  <2> QED BY <2>1, <2>2 DEF Once
<1>2. \A m \in Slots : tasks'[m].at = "dispatch" =>
        /\ runs'[tasks'[m].request] = 0
        /\ \A k \in Slots \ {m} :
             tasks'[k].at = "dispatch" => tasks'[k].request # tasks'[m].request
  BY DEF Once
<1>3. \A q \in Requests : runs'[q] <= 1
  BY DEF Once
<1> QED BY <1>1, <1>2, <1>3 DEF Once

LEMMA OnceTask ==
  ASSUME DirectAssumption, TypeOK, Once, NEW n \in Slots, TaskStep(n)
  PROVE  Once'
<1> USE DEF clock, wire
<1>0. /\ tasks \in [Slots -> Task \cup {Free}] /\ latest \in Nat /\ ClockHolds
      /\ runs \in [Requests -> Nat] /\ now \in Nat
  BY DEF TypeOK, Once
<1>1. tasks[n] \in Task
  BY TaskAt DEF TaskStep, AdmitNew, AdmitReplay, AdmitRefused, AdmitFails, Dispatch, Return,
     Complete, CompleteRefused, CompleteFails, Send, Cancel, Busy
<1>2. now' = now /\ latest' = latest /\ ClockHolds'
  BY <1>0 DEF TaskStep, AdmitNew, AdmitReplay, AdmitRefused, AdmitFails, Dispatch, Return,
     Complete, CompleteRefused, CompleteFails, Send, Cancel, ClockHolds
<1>3. ASSUME rows' = rows, NEW q \in Requests, HasRow(q) PROVE HasRow(q)'
  BY <1>3 DEF HasRow, Stored
<1>4. ASSUME NEW place \in Places \ {"dispatch"}, NEW answer,
             Then(n, place, answer) \/ Ends(n) \/ CompletionFailed(n)
      PROVE  \A m \in Slots : tasks'[m].at = "dispatch" =>
               tasks[m].at = "dispatch" /\ tasks'[m].request = tasks[m].request
  <2>1. ASSUME NEW m \in Slots, m # n PROVE tasks'[m] = tasks[m]
    BY <1>0, <1>4, <2>1 DEF Then, Ends, Answers, CompletionFailed
  <2>2. CASE Then(n, place, answer) \/ Ends(n)
    <3>1. tasks'[n].at # "dispatch"
      BY <1>0, <1>1, <2>2 DEF Then, Ends, Answers, Free, Task
    <3> QED BY <2>1, <3>1
  <2>3. CASE CompletionFailed(n)
    <3>1. tasks'[n].at = "dispatch" =>
            tasks[n].at = "dispatch" /\ tasks'[n].request = tasks[n].request
      BY <1>0, <1>1, <2>3 DEF CompletionFailed, Ends, Answers, Free, Task
    <3> QED BY <2>1, <3>1
  <2> QED BY <1>4, <2>2, <2>3
<1>5. "send" \in Places \ {"dispatch"} /\ "complete" \in Places \ {"dispatch"}
  BY DEF Places
<1>6. CASE AdmitNew(n)
  <2>1. \A q \in Requests : HasRow(q) => HasRow(q)' \/ TooOld(q)'
    BY <1>1, <1>2, <1>0, <1>6, RowKept DEF AdmitNew
  <2>2. CASE tasks[n].cancelled
    <3>1. Ends(n)
      BY <1>6, <2>2 DEF AdmitNew, Then
    <3> QED BY <1>0, <1>2, <1>4, <1>5, <1>6, <2>1, <3>1, OnceQuiet DEF AdmitNew
  <2>3. CASE ~tasks[n].cancelled
    <3> DEFINE q == tasks[n].request
    <3>1. ~Claimed(q) /\ q \in Requests /\ CommandOf[q] \in Commands
      BY <1>1, <1>6, NewIsUnclaimed DEF AdmitNew, DirectAssumption, Task
    <3>2. runs' = runs /\ runs[q] = 0
      BY <1>6, <3>1 DEF AdmitNew, Claimed
    <3>3. /\ \A m \in Slots \ {n} : tasks'[m] = tasks[m]
          /\ tasks'[n].request = q
      BY <1>0, <1>1, <1>6, <2>3 DEF AdmitNew, Then, Answers, Task
    <3>4. \A m \in Slots : tasks[m].at = "dispatch" => tasks[m].request # q
      BY <3>1 DEF Claimed
    <3>5. HasRow(q)'
      <4>1. rows'[CommandOf[q]] = [request |-> q, state |-> "admitted",
                                   owner |-> tasks[n].of, result |-> "none"]
        BY <1>6, <3>1 DEF AdmitNew, Inserted, Pruned
      <4> QED BY <3>3, <4>1 DEF HasRow, Stored
    <3>6. ASSUME NEW p \in Requests, Claimed(p)' PROVE HasRow(p)' \/ TooOld(p)'
      <4>1. CASE p = q
        BY <3>3, <3>5, <4>1
      <4>2. CASE p # q
        <5>1. Claimed(p)
          BY <3>2, <3>3, <3>6, <4>2 DEF Claimed
        <5>2. TooOld(p) => TooOld(p)'
          BY <1>2 DEF TooOld
        <5> QED BY <2>1, <5>1, <5>2 DEF Once
      <4> QED BY <4>1, <4>2
    <3>7. \A m \in Slots : tasks'[m].at = "dispatch" =>
            /\ runs'[tasks'[m].request] = 0
            /\ \A k \in Slots \ {m} :
                 tasks'[k].at = "dispatch" => tasks'[k].request # tasks'[m].request
      BY <3>2, <3>3, <3>4 DEF Once
    <3>8. \A p \in Requests : runs'[p] <= 1
      BY <3>2 DEF Once
    <3> QED BY <1>2, <3>6, <3>7, <3>8 DEF Once
  <2> QED BY <2>2, <2>3
<1>7. CASE AdmitReplay(n)
  BY <1>0, <1>1, <1>2, <1>4, <1>5, <1>7, RowKept, OnceQuiet DEF AdmitReplay
<1>8. CASE AdmitRefused(n)
  BY <1>0, <1>2, <1>3, <1>4, <1>5, <1>8, OnceQuiet DEF AdmitRefused
<1>9. CASE AdmitFails(n)
  <2>1. \A q \in Requests : HasRow(q) => HasRow(q)' \/ TooOld(q)'
    BY <1>0, <1>1, <1>2, <1>3, <1>9, RowKept DEF AdmitFails
  <2> QED BY <1>0, <1>2, <1>4, <1>5, <1>9, <2>1, OnceQuiet DEF AdmitFails
<1>10. CASE Dispatch(n)
  <2> DEFINE q == tasks[n].request
  <2>1. q \in Requests /\ tasks[n].at = "dispatch" /\ runs[q] = 0
    BY <1>1, <1>10 DEF Dispatch, Once, Task
  <2>2. runs' = [runs EXCEPT ![q] = 1] /\ rows' = rows
    BY <1>0, <1>10, <2>1 DEF Dispatch
  <2>3. \A m \in Slots : /\ m # n => tasks'[m] = tasks[m]
                         /\ m = n => tasks'[m].at = "running"
    BY <1>0, <1>1, <1>10 DEF Dispatch, Goes, Task
  <2>4. ASSUME NEW p \in Requests, Claimed(p)' PROVE HasRow(p)' \/ TooOld(p)'
    <3>1. Claimed(p)
      BY <1>0, <2>1, <2>2, <2>3, <2>4 DEF Claimed
    <3>2. TooOld(p) => TooOld(p)'
      BY <1>2 DEF TooOld
    <3> QED BY <1>3, <2>2, <3>1, <3>2 DEF Once
  <2>5. \A m \in Slots : tasks'[m].at = "dispatch" =>
          /\ m # n /\ tasks[m].at = "dispatch" /\ tasks'[m].request # q
          /\ runs'[tasks'[m].request] = 0
    BY <1>0, <2>1, <2>2, <2>3 DEF Once
  <2>6. \A m \in Slots : tasks'[m].at = "dispatch" =>
          \A k \in Slots \ {m} :
            tasks'[k].at = "dispatch" => tasks'[k].request # tasks'[m].request
    BY <2>3, <2>5 DEF Once
  <2>7. \A p \in Requests : runs'[p] <= 1
    BY <1>0, <2>2 DEF Once
  <2> QED BY <1>2, <2>4, <2>5, <2>6, <2>7 DEF Once
<1>11. CASE Return(n)
  <2>1. \A m \in Slots : tasks'[m].at = "dispatch" =>
          tasks[m].at = "dispatch" /\ tasks'[m].request = tasks[m].request
    BY <1>0, <1>1, <1>11 DEF Return, Task
  <2> QED BY <1>0, <1>2, <1>3, <1>11, <2>1, OnceQuiet DEF Return
<1>12. CASE Complete(n)
  BY <1>0, <1>1, <1>2, <1>4, <1>5, <1>12, RowKept, OnceQuiet DEF Complete
<1>13. CASE CompleteRefused(n)
  BY <1>0, <1>2, <1>3, <1>4, <1>5, <1>13, OnceQuiet DEF CompleteRefused
<1>14. CASE CompleteFails(n)
  <2>1. \A q \in Requests : HasRow(q) => HasRow(q)' \/ TooOld(q)'
    BY <1>0, <1>1, <1>2, <1>3, <1>14, RowKept DEF CompleteFails
  <2> QED BY <1>0, <1>2, <1>4, <1>5, <1>14, <2>1, OnceQuiet DEF CompleteFails
<1>15. CASE Send(n)
  BY <1>0, <1>2, <1>3, <1>4, <1>5, <1>15, OnceQuiet DEF Send
<1>16. CASE Cancel(n)
  <2>1. \A m \in Slots : tasks'[m].at = "dispatch" =>
          tasks[m].at = "dispatch" /\ tasks'[m].request = tasks[m].request
    BY <1>0, <1>1, <1>16 DEF Cancel, Ends, Free, Task
  <2> QED BY <1>0, <1>2, <1>3, <1>16, <2>1, OnceQuiet DEF Cancel
<1> QED BY <1>6, <1>7, <1>8, <1>9, <1>10, <1>11, <1>12, <1>13, <1>14, <1>15, <1>16 DEF TaskStep

LEMMA OnceStep ==
  ASSUME DirectAssumption, TypeOK, Once, [Next]_vars
  PROVE  Once'
<1> USE DEF clock, wire
<1>0. /\ tasks \in [Slots -> Task \cup {Free}] /\ latest \in Nat /\ now \in Nat /\ ClockHolds
      /\ runs \in [Requests -> Nat] /\ MaxBack \in Nat
  BY DEF TypeOK, Once, DirectAssumption
<1>1. ASSUME rows' = rows, NEW q \in Requests, HasRow(q) PROVE HasRow(q)'
  BY <1>1 DEF HasRow, Stored
<1>2. CASE \E n \in Slots : TaskStep(n)
  BY <1>2, OnceTask
<1>3. CASE Tick \/ StepBack
  <2>1. ClockHolds' /\ latest <= latest' /\ latest' \in Nat
    BY <1>0, <1>3 DEF Tick, StepBack, ClockHolds
  <2> QED BY <1>1, <1>3, <2>1, OnceQuiet DEF Tick, StepBack
<1>4. ASSUME now' = now, latest' = latest, rows' = rows, runs' = runs,
             \A m \in Slots : tasks'[m].at = "dispatch" =>
               tasks[m].at = "dispatch" /\ tasks'[m].request = tasks[m].request
      PROVE  Once'
  <2>1. ClockHolds' /\ latest <= latest' /\ latest' \in Nat
    BY <1>0, <1>4 DEF ClockHolds
  <2> QED BY <1>1, <1>4, <2>1, OnceQuiet
<1>5. CASE \E g \in Generations : Start(g) \/ Retire(g) \/ CloseJournal(g)
  BY <1>4, <1>5 DEF Start, Retire, CloseJournal
<1>6. CASE Crash
  BY <1>4, <1>6 DEF Crash, Free
<1>7. CASE \E c \in Connections : Authenticate(c) \/ Disconnect(c)
  BY <1>4, <1>7 DEF Authenticate, Disconnect
<1>8. CASE \E c \in Connections, g \in Generations : Connect(c, g)
  BY <1>4, <1>8 DEF Connect
<1>9. CASE \E c \in Connections, q \in Requests : Receive(c, q)
  <2>1. \A m \in Slots : tasks'[m].at = "dispatch" =>
          tasks[m].at = "dispatch" /\ tasks'[m].request = tasks[m].request
    BY <1>0, <1>9 DEF Receive
  <2> QED BY <1>4, <1>9, <2>1 DEF Receive
<1>10. CASE UNCHANGED vars
  BY <1>4, <1>10 DEF vars
<1> QED BY <1>2, <1>3, <1>5, <1>6, <1>7, <1>8, <1>9, <1>10 DEF Next

(* A claimed request keeps its row until it is too old for the window at    *)
(* any time the clock may yet show.                                         *)
LEMMA Claims == ASSUME DirectAssumption PROVE Spec => []Once
<1>1. Init => Once
  BY OnceInit
<1>2. TypeOK /\ Once /\ [Next]_vars => Once'
  BY OnceStep
<1> QED BY <1>1, <1>2, Typing, PTL DEF Spec

(* A request is dispatched at most once, for any set of requests, any       *)
(* number of connections, runtimes and crashes, and any window whose        *)
(* allowance for the future exceeds the clock's set-backs.                  *)
THEOREM DispatchedAtMostOnce ==
  ASSUME DirectAssumption
  PROVE  Spec => []DispatchedOnce
<1>1. Once => DispatchedOnce
  BY DEF Once, DispatchedOnce
<1> QED BY <1>1, Claims, PTL

-----------------------------------------------------------------------------
(* Receipts that agree.                                                     *)
LEMMA AgreedInit == ASSUME DirectAssumption, Init PROVE Agreed
BY DEF DirectAssumption, Init, Agreed, Reported, Sending, Free, NoRow

(* The rows after a step of the journal still say what was reported.        *)
LEMMA RowsAgree ==
  ASSUME DirectAssumption, TypeOK, Once, Agreed, NEW n \in Slots, tasks[n] \in Task,
         \/ rows' = rows
         \/ rows' = Pruned
         \/ New(n) /\ rows' = Inserted(n)
         \/ tasks[n].at = "complete" /\ Completable(n) /\ rows' = Completed(n)
  PROVE  /\ \A c \in Commands : rows'[c].state = "completed" => runs[rows'[c].request] # 0
         /\ \A q \in Requests : \A x \in Results : Reported(q, x) => StoredAs(q, x)'
<1> DEFINE p == tasks[n].request
           k == CommandOf[p]
<1>0. /\ rows \in [Commands -> Row \cup {NoRow}] /\ p \in Requests /\ k \in Commands
      /\ \A q \in Requests : CommandOf[q] \in Commands
  BY DEF TypeOK, DirectAssumption, Task
<1>1. /\ \A c \in Commands : rows[c].state = "completed" => runs[rows[c].request] # 0
      /\ \A q \in Requests : \A x \in Results : Reported(q, x) => runs[q] # 0 /\ StoredAs(q, x)
  BY DEF Agreed
<1>2. CASE rows' = rows
  BY <1>1, <1>2 DEF StoredAs, HasRow, Stored
<1>3. \A c \in Commands : Pruned[c] = rows[c] \/ Pruned[c].state = "absent"
  BY <1>0 DEF Pruned, NoRow
<1>4. CASE rows' = Pruned
  BY <1>0, <1>1, <1>3, <1>4 DEF StoredAs, HasRow, Stored
<1>5. CASE New(n) /\ rows' = Inserted(n)
  <2>1. /\ \A c \in Commands \ {k} : rows'[c] = Pruned[c]
        /\ rows'[k].state = "admitted" /\ rows'[k].request = p
    BY <1>0, <1>5 DEF Inserted, Pruned
  <2>2. \A x \in Results : ~Reported(p, x)
    <3>1. runs[p] = 0
      BY <1>5, NewIsUnclaimed DEF Claimed
    <3> QED BY <1>0, <1>1, <3>1
  <2>3. ASSUME NEW q \in Requests, NEW x \in Results, Reported(q, x) PROVE StoredAs(q, x)'
    BY <1>0, <1>1, <1>3, <2>1, <2>2, <2>3 DEF StoredAs, HasRow, Stored
  <2> QED BY <1>1, <1>3, <2>1, <2>3
<1>6. CASE tasks[n].at = "complete" /\ Completable(n) /\ rows' = Completed(n)
  <2>1. rows[k] \in Row /\ rows[k].request = p /\ rows[k].state = "admitted"
    BY <1>0, <1>6 DEF Completable, NoRow
  <2>2. rows'[k] = [[rows[k] EXCEPT !.state = "completed"] EXCEPT !.result = tasks[n].outcome]
    BY <1>0, <1>6 DEF Completed
  <2>3. rows'[k].request = p
    BY <2>1, <2>2 DEF Row
  <2>4. \A c \in Commands \ {k} : rows'[c] = rows[c]
    BY <1>0, <1>6 DEF Completed
  <2>5. runs[p] # 0
    BY <1>6 DEF Agreed
  <2>6. \A x \in Results : ~Reported(p, x)
    BY <1>0, <1>1, <2>1 DEF StoredAs, HasRow, Stored
  <2>7. ASSUME NEW q \in Requests, NEW x \in Results, Reported(q, x) PROVE StoredAs(q, x)'
    BY <1>0, <1>1, <2>3, <2>4, <2>6, <2>7 DEF StoredAs, HasRow, Stored
  <2> QED BY <1>1, <2>3, <2>4, <2>5, <2>7
<1> QED BY <1>2, <1>4, <1>5, <1>6

(* A step that reports nothing new.                                         *)
LEMMA AgreedQuiet ==
  ASSUME Agreed, \A q \in Requests : runs[q] # 0 => runs'[q] # 0,
         \A c \in Commands : rows'[c].state = "completed" => runs'[rows'[c].request] # 0,
         \A q \in Requests : \A x \in Results : Reported(q, x) => StoredAs(q, x)',
         \A m \in Slots : tasks'[m].at \in {"running", "complete"} => runs'[tasks'[m].request] # 0,
         told' \subseteq told \/ \E n \in Slots : \E q \in Requests : \E x \in Results :
           Sending(n, q, x) /\ told' = told \cup {[request |-> q, result |-> x]},
         \A m \in Slots : tasks'[m].at = "send" /\ tasks'[m].answer.state = "completed" =>
           /\ tasks[m].at = "send" /\ tasks'[m].request = tasks[m].request
           /\ tasks'[m].answer = tasks[m].answer
  PROVE  Agreed'
<1>1. ASSUME NEW q \in Requests, NEW x \in Results, Reported(q, x)' PROVE Reported(q, x)
  <2>1. CASE [request |-> q, result |-> x] \in told'
    BY <2>1 DEF Reported
  <2>2. CASE \E n \in Slots : Sending(n, q, x)'
    BY <2>2 DEF Reported, Sending
  <2> QED BY <1>1, <2>1, <2>2 DEF Reported
<1>2. ASSUME NEW q \in Requests, NEW x \in Results, NEW y \in Results, Reported(q, x)'
      PROVE  runs'[q] # 0 /\ StoredAs(q, x)' /\ (Reported(q, y)' => x = y)
  BY <1>1, <1>2 DEF Agreed
<1> QED BY <1>2 DEF Agreed

(* A step that answers a task with less than a completed receipt.           *)
LEMMA TasksQuiet ==
  ASSUME TypeOK, Agreed, runs' = runs, NEW n \in Slots, tasks[n] \in Task,
         NEW place \in Places \ {"running", "complete"}, NEW answer \in Answer,
         answer.state # "completed",
         Then(n, place, answer) \/ Ends(n) \/ CompletionFailed(n)
  PROVE  /\ \A m \in Slots : tasks'[m].at \in {"running", "complete"} =>
              runs'[tasks'[m].request] # 0
         /\ \A m \in Slots : tasks'[m].at = "send" /\ tasks'[m].answer.state = "completed" =>
              /\ tasks[m].at = "send" /\ tasks'[m].request = tasks[m].request
              /\ tasks'[m].answer = tasks[m].answer
<1>0. tasks \in [Slots -> Task \cup {Free}]
  BY DEF TypeOK
<1>1. \A m \in Slots \ {n} : tasks'[m] = tasks[m]
  BY <1>0 DEF Then, Ends, Answers, CompletionFailed
<1>2. \A m \in Slots : tasks[m].at \in {"running", "complete"} => runs[tasks[m].request] # 0
  BY DEF Agreed
<1>3. CASE Ends(n)
  BY <1>0, <1>1, <1>2, <1>3 DEF Ends, Free
<1>4. CASE Answers(n, place, answer)
  BY <1>0, <1>1, <1>2, <1>4 DEF Answers, Task
<1>5. CASE Answers(n, "send", Admitted)
  BY <1>0, <1>1, <1>2, <1>5 DEF Answers, Task, Admitted
<1>6. CASE tasks' = [tasks EXCEPT ![n].outcome = "uncertain"]
  BY <1>0, <1>1, <1>2, <1>6 DEF Task
<1> QED BY <1>3, <1>4, <1>5, <1>6 DEF Then, CompletionFailed

LEMMA AgreedTask ==
  ASSUME DirectAssumption, TypeOK, Once, Agreed, NEW n \in Slots, TaskStep(n)
  PROVE  Agreed'
<1> USE DEF clock, wire
<1> DEFINE p == tasks[n].request
<1>0. /\ tasks \in [Slots -> Task \cup {Free}] /\ rows \in [Commands -> Row \cup {NoRow}]
      /\ runs \in [Requests -> Nat] /\ told \subseteq [request : Requests, result : Results]
  BY DEF TypeOK
<1>1. tasks[n] \in Task
  BY TaskAt DEF TaskStep, AdmitNew, AdmitReplay, AdmitRefused, AdmitFails, Dispatch, Return,
     Complete, CompleteRefused, CompleteFails, Send, Cancel, Busy
<1>2. /\ p \in Requests /\ tasks[n].outcome \in Results /\ tasks[n].answer \in Answer
      /\ CommandOf[p] \in Commands
  BY <1>1 DEF Task, DirectAssumption
<1>3. /\ Rejected \in Answer /\ Rejected.state # "completed"
      /\ Admitted \in Answer /\ Admitted.state # "completed"
      /\ "send" \in Places \ {"running", "complete"}
      /\ "dispatch" \in Places \ {"running", "complete"}
  BY <1>2, AnswerTypes DEF Rejected, Admitted, Places
<1>4. ASSUME runs' = runs, told' = told,
             \/ rows' = rows
             \/ rows' = Pruned
             \/ New(n) /\ rows' = Inserted(n)
             \/ tasks[n].at = "complete" /\ Completable(n) /\ rows' = Completed(n),
             \/ Then(n, "send", Rejected) \/ Then(n, "dispatch", Admitted)
             \/ Ends(n) \/ CompletionFailed(n)
      PROVE  Agreed'
  <2>1. /\ \A c \in Commands : rows'[c].state = "completed" => runs'[rows'[c].request] # 0
        /\ \A q \in Requests : \A x \in Results : Reported(q, x) => StoredAs(q, x)'
    BY <1>1, <1>4, RowsAgree
  <2>2. /\ \A m \in Slots : tasks'[m].at \in {"running", "complete"} =>
             runs'[tasks'[m].request] # 0
        /\ \A m \in Slots : tasks'[m].at = "send" /\ tasks'[m].answer.state = "completed" =>
             /\ tasks[m].at = "send" /\ tasks'[m].request = tasks[m].request
             /\ tasks'[m].answer = tasks[m].answer
    BY <1>1, <1>3, <1>4, TasksQuiet
  <2> QED BY <1>4, <2>1, <2>2, AgreedQuiet
<1>5. CASE AdmitNew(n)
  BY <1>4, <1>5 DEF AdmitNew
<1>6. CASE AdmitRefused(n)
  BY <1>4, <1>6 DEF AdmitRefused
<1>7. CASE AdmitFails(n)
  BY <1>4, <1>7 DEF AdmitFails
<1>8. CASE CompleteRefused(n)
  BY <1>4, <1>8 DEF CompleteRefused
<1>9. CASE CompleteFails(n)
  BY <1>4, <1>9 DEF CompleteFails
<1>10. ASSUME NEW x \in Results, runs' = runs, told' = told,
              \/ rows' = Pruned /\ p = Pruned[CommandOf[p]].request
                 /\ Pruned[CommandOf[p]].state = "completed" /\ Pruned[CommandOf[p]].result = x
              \/ tasks[n].at = "complete" /\ Completable(n) /\ rows' = Completed(n)
                 /\ x = tasks[n].outcome,
              Answers(n, "send", [state |-> "completed", result |-> x])
       PROVE  Agreed'
  <2>1. /\ \A c \in Commands : rows'[c].state = "completed" => runs'[rows'[c].request] # 0
        /\ \A q \in Requests : \A y \in Results : Reported(q, y) => StoredAs(q, y)'
    BY <1>1, <1>10, RowsAgree
  <2>2. /\ \A m \in Slots \ {n} : tasks'[m] = tasks[m]
        /\ tasks'[n].at = "send" /\ tasks'[n].request = p
        /\ tasks'[n].answer = [state |-> "completed", result |-> x]
    BY <1>0, <1>1, <1>10 DEF Answers, Task
  <2>3. \A m \in Slots : tasks'[m].at \in {"running", "complete"} =>
          runs'[tasks'[m].request] # 0
    BY <1>10, <2>2 DEF Agreed
  <2>4. ASSUME NEW q \in Requests, NEW y \in Results, Reported(q, y)'
        PROVE  Reported(q, y) \/ (q = p /\ y = x)
    <3>1. CASE [request |-> q, result |-> y] \in told'
      BY <1>10, <3>1 DEF Reported
    <3>2. CASE \E m \in Slots : Sending(m, q, y)'
      <4>1. PICK m \in Slots : Sending(m, q, y)'
        BY <3>2
      <4>2. CASE m = n
        <5>1. [state |-> "completed", result |-> x].result = y
          BY <2>2, <4>1, <4>2 DEF Sending
        <5> QED BY <2>2, <4>1, <4>2, <5>1 DEF Sending
      <4>3. CASE m # n
        BY <2>2, <4>1, <4>3 DEF Sending, Reported
      <4> QED BY <4>2, <4>3
    <3> QED BY <2>4, <3>1, <3>2 DEF Reported
  <2>5. /\ rows'[CommandOf[p]].state = "completed" /\ rows'[CommandOf[p]].result = x
        /\ rows'[CommandOf[p]].request = p
    <3>1. CASE tasks[n].at = "complete" /\ Completable(n) /\ rows' = Completed(n)
               /\ x = tasks[n].outcome
      <4>1. rows[CommandOf[p]] \in Row /\ rows[CommandOf[p]].request = p
        BY <1>0, <1>2, <3>1 DEF Completable, NoRow
      <4>2. rows'[CommandOf[p]] =
              [[rows[CommandOf[p]] EXCEPT !.state = "completed"] EXCEPT !.result = x]
        BY <1>0, <1>2, <3>1 DEF Completed
      <4> QED BY <4>1, <4>2 DEF Row
    <3> QED BY <1>10, <3>1
  <2>6. runs[p] # 0
    BY <1>2, <1>10, <2>1, <2>5
  <2>7. ASSUME NEW y \in Results, Reported(p, y) PROVE y = x
    <3>1. \A q \in Requests : q = p => StoredAs(q, y)'
      BY <1>2, <2>1, <2>7
    <3>2. rows'[CommandOf[p]].result = y
      BY <1>2, <2>5, <3>1 DEF StoredAs, HasRow, Stored
    <3> QED BY <2>5, <3>2
  <2>8. \A q \in Requests : \A y, z \in Results :
          Reported(q, y) => runs[q] # 0 /\ (Reported(q, z) => y = z)
    BY DEF Agreed
  <2>9. ASSUME NEW q \in Requests, NEW y \in Results, Reported(q, y)'
        PROVE  runs'[q] # 0 /\ StoredAs(q, y)'
    <3>1. CASE Reported(q, y)
      BY <1>10, <2>1, <2>8, <3>1
    <3>2. CASE q = p /\ y = x
      BY <1>10, <2>2, <2>5, <2>6, <3>2 DEF StoredAs, HasRow, Stored
    <3> QED BY <2>4, <2>9, <3>1, <3>2
  <2>10. ASSUME NEW q \in Requests, NEW y \in Results, NEW z \in Results,
                Reported(q, y)', Reported(q, z)'
         PROVE  y = z
    BY <2>4, <2>7, <2>8, <2>10
  <2> QED BY <2>1, <2>3, <2>9, <2>10 DEF Agreed
<1>11. CASE Complete(n)
  <2>1. CASE tasks[n].cancelled
    BY <1>4, <1>11, <2>1 DEF Complete, Then
  <2>2. CASE ~tasks[n].cancelled
    BY <1>2, <1>10, <1>11, <2>2 DEF Complete, Then
  <2> QED BY <2>1, <2>2
<1>12. CASE AdmitReplay(n)
  <2>1. CASE tasks[n].cancelled
    BY <1>4, <1>12, <2>1 DEF AdmitReplay, Then
  <2>2. CASE ~tasks[n].cancelled /\ Replayed(n).state # "completed"
    <3>1. Replayed(n) \in Answer /\ Then(n, "send", Replayed(n))
      BY <1>1, <1>12, RowTypes DEF AdmitReplay
    <3>2. /\ \A c \in Commands : rows'[c].state = "completed" => runs'[rows'[c].request] # 0
          /\ \A q \in Requests : \A x \in Results : Reported(q, x) => StoredAs(q, x)'
      BY <1>1, <1>12, RowsAgree DEF AdmitReplay
    <3>3. /\ \A m \in Slots : tasks'[m].at \in {"running", "complete"} =>
               runs'[tasks'[m].request] # 0
          /\ \A m \in Slots : tasks'[m].at = "send" /\ tasks'[m].answer.state = "completed" =>
               /\ tasks[m].at = "send" /\ tasks'[m].request = tasks[m].request
               /\ tasks'[m].answer = tasks[m].answer
      BY <1>1, <1>3, <1>12, <2>2, <3>1, TasksQuiet DEF AdmitReplay
    <3> QED BY <1>12, <3>2, <3>3, AgreedQuiet DEF AdmitReplay
  <2>3. CASE ~tasks[n].cancelled /\ Replayed(n).state = "completed"
    <3> DEFINE row == Pruned[CommandOf[p]]
    <3>1. row \in Row /\ row.request = p
      BY <1>1, <1>2, <1>12, RowTypes DEF AdmitReplay, Replay
    <3>2. row.state = "completed" /\ row.result \in Results
      BY <2>3, <3>1 DEF Replayed, Row
    <3>3. Replayed(n) = [state |-> "completed", result |-> row.result]
      BY <3>2 DEF Replayed
    <3> QED BY <1>10, <1>12, <2>3, <3>1, <3>2, <3>3 DEF AdmitReplay, Then
  <2> QED BY <2>1, <2>2, <2>3
<1>13. CASE Dispatch(n)
  <2>1. runs' = [runs EXCEPT ![p] = runs[p] + 1]
    BY <1>0, <1>2, <1>13 DEF Dispatch
  <2>2. \A q \in Requests : runs[q] # 0 => runs'[q] # 0
    BY <1>0, <1>2, <2>1
  <2>3. runs'[p] # 0
    BY <1>0, <1>2, <2>1
  <2>4. \A m \in Slots \ {n} : tasks'[m] = tasks[m]
    BY <1>0, <1>13 DEF Dispatch, Goes
  <2>5. tasks'[n].at = "running" /\ tasks'[n].request = p
    BY <1>0, <1>1, <1>13 DEF Dispatch, Goes, Task
  <2>6. \A m \in Slots : tasks'[m].at \in {"running", "complete"} =>
          runs'[tasks'[m].request] # 0
    <3>1. \A m \in Slots : tasks[m].at \in {"running", "complete"} =>
            tasks[m].request \in Requests
      BY <1>0 DEF Task, Free
    <3> QED BY <2>2, <2>3, <2>4, <2>5, <3>1 DEF Agreed
  <2>7. \A c \in Commands : rows'[c].state = "completed" => runs'[rows'[c].request] # 0
    <3>1. \A c \in Commands : rows[c].state = "completed" => rows[c].request \in Requests
      BY <1>0 DEF Row, NoRow
    <3> QED BY <1>13, <2>2, <3>1 DEF Agreed, Dispatch
  <2>8. \A q \in Requests : \A x \in Results : Reported(q, x) => StoredAs(q, x)'
    BY <1>13 DEF Agreed, Dispatch, StoredAs, HasRow, Stored
  <2>9. \A m \in Slots : tasks'[m].at = "send" /\ tasks'[m].answer.state = "completed" =>
          /\ tasks[m].at = "send" /\ tasks'[m].request = tasks[m].request
          /\ tasks'[m].answer = tasks[m].answer
    BY <2>4, <2>5
  <2>10. told' \subseteq told
    BY <1>13 DEF Dispatch
  <2> QED BY <2>2, <2>6, <2>7, <2>8, <2>9, <2>10, AgreedQuiet
<1>14. CASE Return(n)
  <2>1. \A m \in Slots \ {n} : tasks'[m] = tasks[m]
    BY <1>0, <1>14 DEF Return
  <2>2. tasks'[n].at = "complete" /\ tasks'[n].request = p /\ runs[p] # 0
    BY <1>0, <1>1, <1>14 DEF Return, Task, Agreed
  <2>3. /\ \A m \in Slots : tasks'[m].at \in {"running", "complete"} =>
             runs[tasks'[m].request] # 0
        /\ \A m \in Slots : tasks'[m].at = "send" => tasks'[m] = tasks[m]
    BY <2>1, <2>2 DEF Agreed
  <2>4. \A q \in Requests : \A x \in Results : Reported(q, x) => StoredAs(q, x)'
    BY <1>1, <1>14, RowsAgree DEF Return
  <2>5. rows' = rows /\ runs' = runs /\ told' = told
    BY <1>14 DEF Return
  <2> QED BY <2>3, <2>4, <2>5, AgreedQuiet DEF Agreed
<1>15. CASE Send(n)
  <2>1. /\ \A c \in Commands : rows'[c].state = "completed" => runs'[rows'[c].request] # 0
        /\ \A q \in Requests : \A x \in Results : Reported(q, x) => StoredAs(q, x)'
    BY <1>1, <1>15, RowsAgree DEF Send
  <2>2. /\ \A m \in Slots : tasks'[m].at \in {"running", "complete"} =>
             runs'[tasks'[m].request] # 0
        /\ \A m \in Slots : tasks'[m].at = "send" /\ tasks'[m].answer.state = "completed" =>
             /\ tasks[m].at = "send" /\ tasks'[m].request = tasks[m].request
             /\ tasks'[m].answer = tasks[m].answer
    BY <1>1, <1>3, <1>15, TasksQuiet DEF Send
  <2>3. CASE told' = told
    BY <1>15, <2>1, <2>2, <2>3, AgreedQuiet DEF Send
  <2>4. CASE told' # told
    <3> DEFINE x == tasks[n].answer.result
    <3>1. told' = told \cup {[request |-> p, result |-> x]}
      BY <1>15, <2>4 DEF Send
    <3>2. tasks[n].answer = [state |-> "completed", result |-> x] /\ x \in Results
      BY <1>2, <1>15, <2>4 DEF Send, Answer
    <3>3. Sending(n, p, x)
      BY <1>15, <3>2 DEF Send, Sending
    <3> QED BY <1>2, <1>15, <2>1, <2>2, <3>1, <3>2, <3>3, AgreedQuiet DEF Send
  <2> QED BY <2>3, <2>4
<1>16. CASE Cancel(n)
  <2>1. CASE Ends(n)
    BY <1>4, <1>16, <2>1 DEF Cancel
  <2>2. CASE tasks' = [tasks EXCEPT ![n].cancelled = TRUE]
    <3>1. /\ \A m \in Slots \ {n} : tasks'[m] = tasks[m]
          /\ tasks'[n].at = tasks[n].at /\ tasks'[n].request = p
          /\ tasks'[n].answer = tasks[n].answer
      BY <1>0, <1>1, <2>2 DEF Task
    <3>2. \A q \in Requests : \A x \in Results : Reported(q, x) => StoredAs(q, x)'
      BY <1>1, <1>16, RowsAgree DEF Cancel
    <3>3. rows' = rows /\ runs' = runs /\ told' = told
      BY <1>16 DEF Cancel
    <3>4. \A m \in Slots : tasks'[m].at \in {"running", "complete"} =>
            runs'[tasks'[m].request] # 0
      BY <3>1, <3>3 DEF Agreed
    <3> QED BY <3>1, <3>2, <3>3, <3>4, AgreedQuiet DEF Agreed
  <2> QED BY <1>16, <2>1, <2>2 DEF Cancel
<1> QED BY <1>5, <1>6, <1>7, <1>8, <1>9, <1>11, <1>12, <1>13, <1>14, <1>15, <1>16 DEF TaskStep

LEMMA AgreedStep ==
  ASSUME DirectAssumption, TypeOK, Once, Agreed, [Next]_vars
  PROVE  Agreed'
<1> USE DEF clock, wire
<1>1. CASE \E n \in Slots : TaskStep(n)
  BY <1>1, AgreedTask
<1>2. ASSUME rows' = rows, runs' = runs, told' = told,
             \A m \in Slots : \/ tasks'[m] = tasks[m]
                             \/ tasks'[m].at \in {"free", "admit"}
      PROVE  Agreed'
  <2>1. \A q \in Requests : \A x \in Results : Reported(q, x) => StoredAs(q, x)'
    BY <1>2 DEF Agreed, StoredAs, HasRow, Stored
  <2> QED BY <1>2, <2>1, AgreedQuiet DEF Agreed
<1>3. CASE \E g \in Generations : Start(g) \/ Retire(g) \/ CloseJournal(g)
  BY <1>2, <1>3 DEF Start, Retire, CloseJournal
<1>4. CASE Crash
  BY <1>2, <1>4 DEF Crash, Free
<1>5. CASE Tick \/ StepBack
  BY <1>2, <1>5 DEF Tick, StepBack
<1>6. CASE \E c \in Connections : Authenticate(c) \/ Disconnect(c)
  BY <1>2, <1>6 DEF Authenticate, Disconnect
<1>7. CASE \E c \in Connections, g \in Generations : Connect(c, g)
  BY <1>2, <1>7 DEF Connect
<1>8. CASE \E c \in Connections, q \in Requests : Receive(c, q)
  <2>1. \A m \in Slots : tasks'[m] = tasks[m] \/ tasks'[m].at \in {"free", "admit"}
    BY <1>8 DEF Receive, TypeOK
  <2> QED BY <1>2, <1>8, <2>1 DEF Receive
<1>9. CASE UNCHANGED vars
  BY <1>2, <1>9 DEF vars
<1> QED BY <1>1, <1>3, <1>4, <1>5, <1>6, <1>7, <1>8, <1>9 DEF Next

(* The completed receipts of a request agree on its result, and there are   *)
(* none for a request that was not dispatched: whatever is reported is what *)
(* the row holds for as long as it is there, and a request whose row is     *)
(* gone is not admitted again.                                              *)
THEOREM ReceiptsAgree ==
  ASSUME DirectAssumption
  PROVE  Spec => []AnswersAgree
<1>1. Init => Agreed
  BY AgreedInit
<1>2. TypeOK /\ Once /\ Agreed /\ [Next]_vars => Agreed'
  BY AgreedStep
<1>3. TypeOK /\ Agreed => AnswersAgree
  <2> SUFFICES ASSUME TypeOK, Agreed, NEW a \in told
               PROVE  /\ runs[a.request] > 0
                      /\ \A b \in told : b.request = a.request => b = a
    BY DEF AnswersAgree
  <2>1. told \subseteq [request : Requests, result : Results] /\ runs \in [Requests -> Nat]
    BY DEF TypeOK
  <2>2. ASSUME NEW b \in told PROVE Reported(b.request, b.result) /\ b.request \in Requests
                                   /\ b.result \in Results
    BY <2>1 DEF Reported
  <2>3. runs[a.request] > 0
    BY <2>1, <2>2 DEF Agreed
  <2>4. ASSUME NEW b \in told, b.request = a.request PROVE b = a
    <3>1. b.result = a.result
      BY <2>2, <2>4 DEF Agreed
    <3> QED BY <2>1, <2>4, <3>1
  <2> QED BY <2>3, <2>4
<1> QED BY <1>1, <1>2, <1>3, Typing, Claims, PTL DEF Spec
-----------------------------------------------------------------------------
(* DirectAuthority: what the host was told is withdrawn is denied, in memory *)
(* first and then on disk, and what is on disk is denied.                    *)
Denied == \A p \in known : p[1] \in Phones /\ p[2] <= denied[p[1]]
Persisted == (\A d \in Members : stored[d] <= denied[d]) /\ (~dirty => stored = denied)
Fenced == AuthorityTypeOK /\ Denied /\ Persisted

(* The floors of a catalog are epochs, and none is below the denial before it. *)
LEMMA FloorsRise ==
  ASSUME AuthorityAssumption, AuthorityTypeOK, NEW catalog \in [Members -> Listing]
  PROVE  /\ Floors(catalog) \in [Members -> 0 .. MaxEpoch]
         /\ \A d \in Members : denied[d] <= Floors(catalog)[d]
<1> SUFFICES ASSUME NEW d \in Members
             PROVE  Floor(catalog, d) \in 0 .. MaxEpoch /\ denied[d] <= Floor(catalog, d)
  BY DEF Floors
<1>1. /\ MaxEpoch \in Nat \ {0} /\ denied[d] \in 0 .. MaxEpoch /\ catalog[d].epoch \in 1 .. MaxEpoch
      /\ catalog[d].active \in BOOLEAN
  BY DEF AuthorityAssumption, AuthorityTypeOK, Listing, Epochs
<1>2. KnownEpoch(d) \in 0 .. MaxEpoch
  BY <1>1 DEF KnownEpoch, AuthorityTypeOK, Members
<1> HIDE DEF KnownEpoch
<1> DEFINE floor == IF ~catalog[d].active THEN Larger(KnownEpoch(d), catalog[d].epoch)
                   ELSE IF catalog[d].epoch > KnownEpoch(d) THEN catalog[d].epoch - 1
                   ELSE denied[d]
<1>3. floor \in 0 .. MaxEpoch
  BY <1>1, <1>2 DEF Larger
<1>4. Floor(catalog, d) = IF KnownEpoch(d) = 0 THEN denied[d] ELSE Larger(floor, denied[d])
  BY DEF Floor
<1> HIDE DEF floor
<1> QED BY <1>1, <1>3, <1>4 DEF Larger

(* At first nobody is known, and nothing is denied. *)
LEMMA AuthorityBegins ==
  ASSUME AuthorityAssumption, AuthorityInit
  PROVE  Fenced
<1>1. /\ MaxEpoch \in Nat \ {0} /\ Lifetime \in Nat /\ MaxChanges \in Nat /\ MaxRestarts \in Nat /\ MaxCommands \in Nat
      /\ 1 \in Epochs /\ Unlisted \in Listing /\ Host \in Members
  BY DEF AuthorityAssumption, Epochs, Listing, Unlisted, Members
<1>2. registry \in [Members -> Listing] /\ devices \in [Members -> Listing]
  <2>1. [active |-> TRUE, epoch |-> 1] \in Listing
    BY <1>1 DEF Listing
  <2> QED BY <1>1, <2>1 DEF AuthorityInit
<1>3. Cardinality(fetched) <= 1
  BY FS_EmptySet DEF AuthorityInit
<1>4. denied \in [Members -> 0 .. MaxEpoch] /\ stored = denied /\ bindings \in [Phones -> 0 .. MaxEpoch]
  BY <1>1 DEF AuthorityInit
<1>5. Closed \in [phase : {"closed", "challenged", "ready"}, phone : Members, epoch : Epochs]
  BY <1>1 DEF Closed
<1>6. /\ conn \in [Conns -> [phase : {"closed", "challenged", "ready"}, phone : Members, epoch : Epochs]]
      /\ fresh \in [authority : 0 .. Lifetime, runtime : 0 .. Lifetime] /\ commands \in [Peers -> 0 .. MaxCommands]
      /\ changes \in 0 .. MaxChanges /\ restarts \in 0 .. MaxRestarts
  BY <1>1, <1>5 DEF AuthorityInit
<1>7. AuthorityTypeOK
  BY <1>2, <1>3, <1>4, <1>6 DEF AuthorityInit, AuthorityTypeOK
<1>8. Persisted
  BY <1>1, <1>4 DEF Persisted, AuthorityTypeOK
<1> QED BY <1>7, <1>8 DEF AuthorityInit, Fenced, Denied

(* Fetched catalogs, and what a refresh makes of them, keep it. *)
LEMMA RefreshKeepsFences ==
  ASSUME AuthorityAssumption, Fenced, RefreshStep
  PROVE  /\ Fenced' /\ commands' = commands
         /\ \A d \in Members : stored[d] <= stored'[d]
<1>t. /\ AuthorityTypeOK /\ Denied /\ Persisted /\ Lifetime \in Nat /\ MaxEpoch \in Nat \ {0} /\ MaxRestarts \in Nat
  BY DEF Fenced, AuthorityAssumption
<1>n. /\ \A d \in Members : stored[d] \in 0 .. MaxEpoch /\ denied[d] \in 0 .. MaxEpoch
      /\ \A d \in Members : stored[d] <= stored[d] /\ denied[d] <= denied[d]
  <2>1. \A d \in Members : stored[d] \in 0 .. MaxEpoch /\ denied[d] \in 0 .. MaxEpoch
    BY <1>t DEF AuthorityTypeOK
  <2> QED BY <1>t, <2>1
<1>e. Cardinality({}) <= 1 /\ \A x : Cardinality({x}) <= 1
  <2>1. Cardinality({}) = 0
    BY FS_EmptySet
  <2>2. \A x : Cardinality({x}) = 1
    BY FS_Singleton
  <2> QED BY <2>1, <2>2
<1>z. [authority |-> 0, runtime |-> 0] \in [authority : 0 .. Lifetime, runtime : 0 .. Lifetime]
  BY <1>t
<1>1. ASSUME NEW catalog \in past \cup {registry}, Fetch(catalog)
      PROVE  /\ Fenced' /\ commands' = commands
             /\ \A d \in Members : stored[d] <= stored'[d]
  <2>1. catalog \in [Members -> Listing]
    BY <1>t DEF AuthorityTypeOK
  <2>2. AuthorityTypeOK'
    BY <1>1, <1>t, <1>e, <2>1 DEF Fetch, AuthorityTypeOK
  <2> QED BY <1>1, <1>t, <1>n, <2>2 DEF Fetch, Fenced, Denied, Persisted
<1>2. CASE FetchRefused
  <2>1. fresh' \in [authority : 0 .. Lifetime, runtime : 0 .. Lifetime]
    BY <1>2, <1>t DEF FetchRefused, AuthorityTypeOK
  <2>2. AuthorityTypeOK'
    BY <1>2, <1>t, <2>1 DEF FetchRefused, AuthorityTypeOK
  <2> QED BY <1>2, <1>t, <1>n, <2>2 DEF FetchRefused, Fenced, Denied, Persisted
<1>3. CASE RetireRuntime
  <2>1. AuthorityTypeOK'
    BY <1>3, <1>t DEF RetireRuntime, AuthorityTypeOK
  <2> QED BY <1>3, <1>t, <1>n, <2>1 DEF RetireRuntime, Fenced, Denied, Persisted
<1>4. CASE Age
  <2>1. fresh' \in [authority : 0 .. Lifetime, runtime : 0 .. Lifetime]
    <3>1. fresh.authority \in 0 .. Lifetime /\ fresh.runtime \in 0 .. Lifetime
      BY <1>t DEF AuthorityTypeOK
    <3>2. fresh.authority - 1 \in 0 .. Lifetime /\ (IF fresh.runtime > 0 THEN fresh.runtime - 1 ELSE 0) \in 0 .. Lifetime
      BY <1>4, <1>t, <3>1 DEF Age
    <3> QED BY <1>4, <3>2 DEF Age
  <2>2. AuthorityTypeOK'
    BY <1>4, <1>t, <2>1 DEF Age, AuthorityTypeOK
  <2> QED BY <1>4, <1>t, <1>n, <2>2 DEF Age, Fenced, Denied, Persisted
(* What a refresh learns it denies, and what it denies it had not lowered. *)
<1>5. ASSUME NEW catalog \in fetched, denied' = Floors(catalog), Learnt(Floors(catalog))
      PROVE  /\ denied' \in [Members -> 0 .. MaxEpoch] /\ Denied' /\ known' \subseteq Peers
             /\ \A d \in Members : denied[d] <= denied'[d] /\ stored[d] <= denied'[d]
  <2>1. catalog \in [Members -> Listing]
    BY <1>t DEF AuthorityTypeOK
  <2>2. /\ denied' \in [Members -> 0 .. MaxEpoch] /\ \A d \in Members : denied[d] <= denied'[d]
    BY <1>5, <1>t, <2>1, FloorsRise
  <2>3. \A d \in Members : stored[d] \in Nat /\ denied[d] \in Nat /\ denied'[d] \in Nat /\ stored[d] <= denied[d]
    BY <1>t, <1>n, <2>2 DEF Persisted
  <2>4. \A d \in Members : stored[d] <= denied'[d]
    BY <2>2, <2>3
  <2>5. known' = known \cup {p \in Peers : p[2] <= denied'[p[1]]} /\ known \subseteq Peers
    BY <1>5, <1>t DEF Learnt, AuthorityTypeOK
  <2>6. \A p \in Peers : p[1] \in Phones /\ p[1] \in Members /\ p[2] \in Nat
    BY DEF Peers, Epochs, Members
  <2>7. Denied'
    <3> SUFFICES ASSUME NEW p \in known'
                 PROVE  p[1] \in Phones /\ p[2] <= denied'[p[1]]
      BY DEF Denied
    <3>1. p \in Peers /\ p[1] \in Phones /\ p[1] \in Members /\ p[2] \in Nat
      BY <2>5, <2>6
    <3>2. CASE p \in known
      BY <1>t, <2>2, <2>3, <3>1, <3>2 DEF Denied
    <3>3. CASE p \notin known
      BY <2>5, <3>3, <3>1
    <3> QED BY <3>2, <3>3
  <2> QED BY <2>2, <2>4, <2>5, <2>7
<1>6. CASE InstallFails
  <2>1. PICK catalog \in fetched :
          /\ dirty \/ Floors(catalog) # denied
          /\ Publish(Floors(catalog)) /\ Learnt(Floors(catalog))
    BY <1>6 DEF InstallFails
  <2>2. denied' = Floors(catalog) /\ dirty' = TRUE
    BY <2>1 DEF Publish
  <2>3. /\ denied' \in [Members -> 0 .. MaxEpoch] /\ Denied' /\ known' \subseteq Peers
        /\ \A d \in Members : denied[d] <= denied'[d] /\ stored[d] <= denied'[d]
    BY <1>5, <2>1, <2>2
  <2>4. AuthorityTypeOK'
    BY <1>6, <1>t, <1>e, <1>z, <2>2, <2>3 DEF InstallFails, AuthorityTypeOK
  <2>5. Persisted' /\ \A d \in Members : stored[d] <= stored'[d]
    BY <1>6, <1>n, <2>2, <2>3 DEF InstallFails, Persisted
  <2> QED BY <1>6, <2>3, <2>4, <2>5 DEF InstallFails, Fenced
<1>7. CASE Install
  <2>1. PICK catalog \in fetched :
          LET floors == Floors(catalog) IN
          /\ denied' = floors /\ Learnt(floors)
          /\ stored' = IF dirty \/ floors # denied THEN floors ELSE stored
          /\ dirty' = FALSE
          /\ IF RollsBack(catalog, floors)
             THEN /\ fresh' = [authority |-> 0, runtime |-> 0]
                  /\ UNCHANGED <<devices, retired>>
             ELSE /\ devices' = catalog
                  /\ retired' = ~(catalog[Host].active /\ catalog[Host].epoch = 1)
                  /\ fresh' = [authority |-> Lifetime,
                               runtime |-> IF retired' THEN 0 ELSE Lifetime]
    BY <1>7 DEF Install
  <2>2. /\ denied' \in [Members -> 0 .. MaxEpoch] /\ Denied' /\ known' \subseteq Peers
        /\ \A d \in Members : denied[d] <= denied'[d] /\ stored[d] <= denied'[d]
    BY <1>5, <2>1
  <2>3. stored' = denied'
    <3>1. CASE dirty \/ Floors(catalog) # denied
      BY <2>1, <3>1
    <3>2. CASE ~dirty /\ Floors(catalog) = denied
      BY <1>t, <2>1, <3>2 DEF Persisted
    <3> QED BY <3>1, <3>2
  <2>4. catalog \in [Members -> Listing]
    BY <1>t DEF AuthorityTypeOK
  <2>5. devices' \in [Members -> Listing] /\ retired' \in BOOLEAN
    <3>1. CASE RollsBack(catalog, Floors(catalog))
      BY <1>t, <2>1, <3>1 DEF AuthorityTypeOK
    <3>2. CASE ~RollsBack(catalog, Floors(catalog))
      BY <2>1, <2>4, <3>2
    <3> QED BY <3>1, <3>2
  <2>6. fresh' \in [authority : 0 .. Lifetime, runtime : 0 .. Lifetime]
    <3>1. 0 \in 0 .. Lifetime /\ Lifetime \in 0 .. Lifetime
      BY <1>t
    <3>2. CASE RollsBack(catalog, Floors(catalog))
      BY <1>z, <2>1, <3>2
    <3>3. CASE ~RollsBack(catalog, Floors(catalog))
      BY <2>1, <3>1, <3>3
    <3> QED BY <3>2, <3>3
  <2>7. AuthorityTypeOK'
    BY <1>7, <1>t, <1>e, <2>1, <2>2, <2>3, <2>5, <2>6 DEF Install, AuthorityTypeOK
  <2>8. \A d \in Members : stored'[d] <= denied'[d]
    BY <1>t, <2>2, <2>3
  <2> QED BY <1>7, <2>2, <2>3, <2>7, <2>8 DEF Install, Fenced, Persisted
<1>8. CASE Restart
  <2>1. /\ denied' = stored /\ stored' = stored /\ commands' = commands
        /\ known' = {p \in known : p[2] <= stored[p[1]]}
    BY <1>8 DEF Restart
  <2>2. AuthorityTypeOK'
    <3>1. /\ Unlisted \in Listing
          /\ Closed \in [phase : {"closed", "challenged", "ready"}, phone : Members, epoch : Epochs]
      BY <1>t DEF Unlisted, Listing, Closed, Epochs, Members
    <3>2. devices' \in [Members -> Listing]
      BY <1>8, <3>1 DEF Restart
    <3>3. conn' \in [Conns -> [phase : {"closed", "challenged", "ready"}, phone : Members, epoch : Epochs]]
      BY <1>8, <3>1 DEF Restart
    <3>4. restarts' \in 0 .. MaxRestarts
      BY <1>8, <1>t DEF Restart, AuthorityTypeOK
    <3> QED BY <1>8, <1>t, <1>e, <1>z, <3>2, <3>3, <3>4 DEF Restart, AuthorityTypeOK
  <2>3. Denied' /\ Persisted'
    BY <1>t, <1>n, <2>1 DEF Denied, Persisted
  <2> QED BY <1>n, <2>1, <2>2, <2>3 DEF Fenced
<1> QED BY <1>1, <1>2, <1>3, <1>4, <1>6, <1>7, <1>8 DEF RefreshStep

(* A phone enrolls, connects or commands, an account changes: the fences stand. *)
LEMMA OthersKeepFences ==
  ASSUME AuthorityAssumption, Fenced, PeerStep \/ \E d \in Members, row \in Listing : Change(d, row)
  PROVE  /\ Fenced' /\ stored' = stored
         /\ \A p \in known : commands'[p] = commands[p]
<1>t. AuthorityTypeOK /\ Denied /\ Persisted /\ MaxEpoch \in Nat \ {0} /\ MaxChanges \in Nat /\ MaxCommands \in Nat
  BY DEF Fenced, AuthorityAssumption
<1> DEFINE Socket == [phase : {"closed", "challenged", "ready"}, phone : Members, epoch : Epochs]
<1>1. ASSUME AuthorityTypeOK', known' = known, denied' = denied, stored' = stored, dirty' = dirty
      PROVE  Fenced' /\ stored' = stored
  BY <1>1, <1>t DEF Fenced, Denied, Persisted
<1>2. ASSUME NEW d \in Phones, NEW e \in Epochs, Enroll(d, e)
      PROVE  Fenced' /\ stored' = stored /\ commands' = commands
  <2>1. bindings' \in [Phones -> 0 .. MaxEpoch]
    BY <1>2, <1>t DEF Enroll, AuthorityTypeOK, Epochs
  <2>2. AuthorityTypeOK'
    BY <1>2, <1>t, <2>1 DEF Enroll, AuthorityTypeOK
  <2> QED BY <1>1, <1>2, <2>2 DEF Enroll
<1>3. ASSUME NEW d \in Phones, NEW e \in Epochs, NEW c \in Conns, Challenge(c, d, e)
      PROVE  Fenced' /\ stored' = stored /\ commands' = commands
  <2>1. [phase |-> "challenged", phone |-> d, epoch |-> e] \in Socket
    BY DEF Members
  <2>2. conn' \in [Conns -> Socket]
    BY <1>3, <1>t, <2>1 DEF Challenge, AuthorityTypeOK
  <2>3. AuthorityTypeOK'
    BY <1>3, <1>t, <2>2 DEF Challenge, AuthorityTypeOK
  <2> QED BY <1>1, <1>3, <2>3 DEF Challenge
<1>4. ASSUME NEW c \in Conns, Prove(c)
      PROVE  Fenced' /\ stored' = stored /\ commands' = commands
  <2>1. [conn[c] EXCEPT !.phase = "ready"] \in Socket
    BY <1>t DEF AuthorityTypeOK
  <2>2. conn' \in [Conns -> Socket]
    BY <1>4, <1>t, <2>1 DEF Prove, AuthorityTypeOK
  <2>3. AuthorityTypeOK'
    BY <1>4, <1>t, <2>2 DEF Prove, AuthorityTypeOK
  <2> QED BY <1>1, <1>4, <2>3 DEF Prove
<1>5. ASSUME NEW c \in Conns, HangUp(c)
      PROVE  Fenced' /\ stored' = stored /\ commands' = commands
  <2>1. Closed \in Socket
    BY <1>t DEF Closed, Members, Epochs
  <2>2. conn' \in [Conns -> Socket]
    BY <1>5, <1>t, <2>1 DEF HangUp, AuthorityTypeOK
  <2>3. AuthorityTypeOK'
    BY <1>5, <1>t, <2>2 DEF HangUp, AuthorityTypeOK
  <2> QED BY <1>1, <1>5, <2>3 DEF HangUp
<1>6. ASSUME NEW c \in Conns, Command(c)
      PROVE  Fenced' /\ stored' = stored /\ \A p \in known : commands'[p] = commands[p]
  <2> DEFINE peer == <<conn[c].phone, conn[c].epoch>>
  <2>1. /\ commands' = [commands EXCEPT ![peer] = commands[peer] + 1] /\ commands[peer] < MaxCommands
        /\ commands \in [Peers -> 0 .. MaxCommands]
    BY <1>6, <1>t DEF Command, AuthorityTypeOK
  <2>2. commands' \in [Peers -> 0 .. MaxCommands]
    <3> HIDE DEF peer
    <3>1. CASE peer \in Peers
      BY <1>t, <2>1, <3>1
    <3>2. CASE peer \notin Peers
      BY <2>1, <3>2
    <3> QED BY <3>1, <3>2
  <2>3. AuthorityTypeOK'
    BY <1>6, <1>t, <2>2 DEF Command, AuthorityTypeOK
  <2>4. conn[c].epoch > denied[conn[c].phone]
    BY <1>6 DEF Command, Admissible, CurrentPeer
  <2>5. ASSUME NEW p \in known
        PROVE  commands'[p] = commands[p]
    <3>1. p \in Peers /\ p[1] \in Phones /\ p[2] <= denied[p[1]]
      BY <1>t DEF AuthorityTypeOK, Denied
    <3>2. p[2] \in Nat /\ denied[p[1]] \in Nat /\ conn[c].epoch \in Nat
      BY <1>t, <3>1 DEF AuthorityTypeOK, Peers, Epochs, Members
    <3>3. p # peer
      BY <2>4, <3>1, <3>2
    <3> QED BY <2>1, <3>1, <3>3
  <2> QED BY <1>1, <1>6, <2>3, <2>5 DEF Command
<1>7. ASSUME NEW d \in Members, NEW row \in Listing, Change(d, row)
      PROVE  Fenced' /\ stored' = stored /\ commands' = commands
  <2>1. registry' \in [Members -> Listing] /\ past' \subseteq [Members -> Listing]
    BY <1>7, <1>t DEF Change, AuthorityTypeOK
  <2>2. changes' \in 0 .. MaxChanges
    BY <1>7, <1>t DEF Change, AuthorityTypeOK
  <2>3. AuthorityTypeOK'
    BY <1>7, <1>t, <2>1, <2>2 DEF Change, AuthorityTypeOK
  <2> QED BY <1>1, <1>7, <2>3 DEF Change
<1> QED BY <1>2, <1>3, <1>4, <1>5, <1>6, <1>7 DEF PeerStep

(* A step that leaves everything as it is keeps the fences. *)
LEMMA StutterKeepsFences ==
  ASSUME Fenced, UNCHANGED authorityVars
  PROVE  Fenced'
BY DEF Fenced, AuthorityTypeOK, Denied, Persisted, authorityVars

(* The fences hold in every state of every behaviour. *)
LEMMA FencesHold ==
  ASSUME AuthorityAssumption
  PROVE  AuthoritySpec => []Fenced
<1>1. AuthorityInit => Fenced
  BY AuthorityBegins
<1>2. Fenced /\ [AuthorityNext]_authorityVars => Fenced'
  BY RefreshKeepsFences, OthersKeepFences, StutterKeepsFences DEF AuthorityNext
<1> QED BY <1>1, <1>2, PTL DEF AuthoritySpec

(* The catalogs, enrollments, fences and sockets of direct_connection.py keep *)
(* their shape.                                                               *)
THEOREM AuthorityTyping ==
  ASSUME AuthorityAssumption
  PROVE  AuthoritySpec => []AuthorityTypeOK
<1>1. Fenced => AuthorityTypeOK
  BY DEF Fenced
<1> QED BY <1>1, FencesHold, PTL

(* A phone the host was told is withdrawn at an epoch commands nothing any     *)
(* more at that epoch: over the socket it has open, when the withdrawal could  *)
(* not be persisted, after an older catalog, or, once persisted, a restart.    *)
THEOREM WithdrawnPhonesStayOut ==
  ASSUME AuthorityAssumption
  PROVE  AuthoritySpec => WithdrawnStaysOut
<1>1. Fenced /\ [AuthorityNext]_authorityVars => [\A p \in known : commands'[p] = commands[p]]_authorityVars
  <2> SUFFICES ASSUME Fenced, AuthorityNext
               PROVE  \A p \in known : commands'[p] = commands[p]
    OBVIOUS
  <2> QED BY RefreshKeepsFences, OthersKeepFences DEF AuthorityNext
<1> QED BY <1>1, FencesHold, PTL DEF AuthoritySpec, WithdrawnStaysOut

(* A fence that was persisted is never lowered: not by a refresh that fails,   *)
(* not by an older catalog, not by a restart.                                  *)
THEOREM FencesOnlyRise ==
  ASSUME AuthorityAssumption
  PROVE  AuthoritySpec => [][\A d \in Members : stored[d] <= stored'[d]]_authorityVars
<1>1. Fenced /\ [AuthorityNext]_authorityVars => [\A d \in Members : stored[d] <= stored'[d]]_authorityVars
  <2> SUFFICES ASSUME Fenced, AuthorityNext
               PROVE  \A d \in Members : stored[d] <= stored'[d]
    OBVIOUS
  <2>1. CASE RefreshStep
    BY <2>1, RefreshKeepsFences
  <2>2. CASE PeerStep \/ \E d \in Members, row \in Listing : Change(d, row)
    <3>1. stored' = stored
      BY <2>2, OthersKeepFences
    <3>2. \A d \in Members : stored[d] \in 0 .. MaxEpoch
      BY DEF Fenced, AuthorityTypeOK
    <3>3. MaxEpoch \in Nat /\ \A d \in Members : stored[d] <= stored[d]
      BY <3>2 DEF AuthorityAssumption
    <3> QED BY <3>1, <3>3
  <2> QED BY <2>1, <2>2 DEF AuthorityNext
<1> QED BY <1>1, FencesHold, PTL DEF AuthoritySpec
=============================================================================
