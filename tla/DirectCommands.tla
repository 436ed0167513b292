---------------------------- MODULE DirectCommands ----------------------------
(***************************************************************************)
(* Direct commands: the durable journal of direct_commands.py and the      *)
(* command lane of direct_server.py, through the generations of            *)
(* direct_runtime.py.  A generation is one DirectRuntime, with a server    *)
(* and a journal of its own; the generations of a host share one database, *)
(* and a new one may start while its predecessor still stops.  Each        *)
(* transaction of the database is one step, so is each stretch of a task   *)
(* between two awaits.                                                     *)
(*                                                                         *)
(* A request is what a command message says: a command (the peer, its      *)
(* epoch and the command's identifier), when it was issued, its payload.   *)
(* Two requests of one command differ in one of the last two.              *)
(***************************************************************************)
EXTENDS Integers, FiniteSetsExt

CONSTANTS
  Commands, Requests, Connections,
  CommandOf, IssuedAt,      \* [Requests -> Commands], [Requests -> Nat]
  Past, Future,             \* the window of issued_at around the clock
  MaxTasks, MaxConnections, MaxPerPeer, MaxEntries, MaxBytes,
  Body, Small,              \* bytes kept for a result, and bytes of a result
  MaxBack,                  \* how far the clock may be set back
  MaxTime, MaxGenerations, MaxFaults, MaxSlots   \* bounds

ASSUME DirectAssumption ==
  /\ CommandOf \in [Requests -> Commands] /\ IssuedAt \in [Requests -> Nat]
  /\ {Past, Future, MaxTasks, MaxConnections, MaxPerPeer, MaxEntries, MaxSlots,
      MaxGenerations} \subseteq Nat \ {0}
  /\ {MaxBytes, Body, Small, MaxTime, MaxBack, MaxFaults} \subseteq Nat
  /\ Small <= Body
  /\ MaxBack < Future       \* the clock steps back by less than a minute

VARIABLES
  now, latest,   \* the clock, and the latest time it has shown
  rows,          \* direct_commands, by command
  generations,   \* DirectRuntime, by generation
  connections,   \* _connections
  tasks,         \* _request_tasks, and threads their tasks left behind
  runs,          \* history: how often a request was dispatched
  told,          \* history: the completed receipts sent
  faults

vars == <<now, latest, rows, generations, connections, tasks, runs, told, faults>>
wire == <<generations, connections>>
clock == <<now, latest>>

Generations == 1 .. MaxGenerations
Slots == 1 .. MaxSlots

\* Mutant: a row lives as long as a request is accepted.
TtlOfThePast == Past

Ttl == Past + Future

Results == {"none", "result", "uncertain"}
NoRow == [state |-> "absent"]
Row == [request : Requests, state : {"admitted", "completed"}, owner : Generations,
        result : Results]
Free == [at |-> "free"]
Places == {"admit", "dispatch", "running", "complete", "send"}
NoAnswer == [state |-> "none", result |-> "none"]
Answer == [state : {"none", "rejected", "admitted", "uncertain", "completed"},
           result : Results]
Task == [at : Places, on : Connections, of : Generations, request : Requests,
         outcome : Results, answer : Answer, cancelled : BOOLEAN]
Opened == [phase : {"pending", "ready"}, of : Generations]
Unopened == [phase |-> "unopened", of |-> 0]
Gone == [phase |-> "gone", of |-> 0]   \* connection identifiers are not used again

Stored(c) == rows[c].state # "absent"
Busy(n) == tasks[n].at # "free"
TasksOf(g) == {n \in Slots : Busy(n) /\ tasks[n].of = g /\ ~tasks[n].cancelled}

(* check_current: a peer that lost its authorization is one that sends      *)
(* nothing more and is disconnected.                                        *)
Valid(g) == generations[g] = "running"

(* _metadata_bytes + _MAX_BODY_BYTES until the result is known.             *)
Bytes(row) == 1 + (IF row.state = "completed" THEN Small ELSE Body)
Used(table) == MapThenSumSet(LAMBDA c : Bytes(table[c]), {c \in Commands : table[c].state # "absent"})

Goes(n, place) == tasks' = [tasks EXCEPT ![n].at = place]
Ends(n) == tasks' = [tasks EXCEPT ![n] = Free]
Answers(n, place, answer) ==
  tasks' = [tasks EXCEPT ![n].at = place, ![n].answer = answer]

-----------------------------------------------------------------------------
(* The runtime's generations and their connections.                         *)
Start(g) ==
  /\ generations[g] = "new"
  /\ \A h \in Generations : h < g => generations[h] \in {"stopping", "closed"}
  /\ generations' = [generations EXCEPT ![g] = "running"]
  /\ UNCHANGED <<clock, rows, connections, tasks, runs, told, faults>>

(* The owner changed, or the adapter disconnects: validate_peer fails from  *)
(* now on, so the connections are as good as closed; the tasks get five     *)
(* seconds.                                                                 *)
Retire(g) ==
  /\ generations[g] = "running"
  /\ generations' = [generations EXCEPT ![g] = "stopping"]
  /\ connections' = [c \in Connections |->
       IF connections[c].of = g THEN Gone ELSE connections[c]]
  /\ UNCHANGED <<clock, rows, tasks, runs, told, faults>>

(* stop ends with journal.close: threads may be left, and tasks too if stop *)
(* is itself cancelled.                                                     *)
CloseJournal(g) ==
  /\ generations[g] = "stopping"
  /\ \/ TasksOf(g) = {} /\ UNCHANGED faults
     \/ faults < MaxFaults /\ faults' = faults + 1
  /\ generations' = [generations EXCEPT ![g] = "closed"]
  /\ UNCHANGED <<clock, rows, connections, tasks, runs, told>>

Crash ==
  /\ \E g \in Generations : generations[g] \in {"running", "stopping"}
  /\ generations' = [g \in Generations |->
       IF generations[g] = "new" THEN "new" ELSE "closed"]
  /\ connections' = [c \in Connections |->
       IF connections[c] = Unopened THEN Unopened ELSE Gone]
  /\ tasks' = [n \in Slots |-> Free]
  /\ UNCHANGED <<clock, rows, runs, told, faults>>

Connect(c, g) ==
  /\ connections[c] = Unopened /\ generations[g] = "running"
  /\ Cardinality({d \in Connections : connections[d].of = g}) < MaxConnections
  /\ connections' = [connections EXCEPT ![c] = [phase |-> "pending", of |-> g]]
  /\ UNCHANGED <<clock, rows, generations, tasks, runs, told, faults>>

Authenticate(c) ==
  LET g == connections[c].of
  IN /\ connections[c].phase = "pending" /\ Valid(g)
     /\ Cardinality({d \in Connections : connections[d] = [phase |-> "ready", of |-> g]}) < MaxPerPeer
     /\ connections' = [connections EXCEPT ![c].phase = "ready"]
     /\ UNCHANGED <<clock, rows, generations, tasks, runs, told, faults>>

(* The client leaves, the watchdog sees an invalid peer, authentication     *)
(* times out or a send fails.  The tasks of the connection go on.           *)
Disconnect(c) ==
  /\ connections[c] \notin {Unopened, Gone}
  /\ connections' = [connections EXCEPT ![c] = Gone]
  /\ UNCHANGED <<clock, rows, generations, tasks, runs, told, faults>>

-----------------------------------------------------------------------------
(* _admit_command_message, and the start of _run_command that asks for the  *)
(* peer again: a task, unless the lane is full or the peer invalid.         *)
Receive(c, request) ==
  LET g == connections[c].of
      n == CHOOSE m \in Slots : ~Busy(m)
  IN /\ connections[c].phase = "ready" /\ Valid(g)
     /\ \E m \in Slots : ~Busy(m)
     /\ Cardinality(TasksOf(g)) < MaxTasks
     /\ tasks' = [tasks EXCEPT ![n] =
          [at |-> "admit", on |-> c, of |-> g, request |-> request, outcome |-> "none",
           answer |-> NoAnswer, cancelled |-> FALSE]]
     /\ UNCHANGED <<clock, rows, wire, runs, told, faults>>

-----------------------------------------------------------------------------
(* admit and complete, in a thread of their own: what a cancelled task left *)
(* behind still runs, and nobody waits for it.                              *)
InWindow(request) == now - Past <= IssuedAt[request] /\ IssuedAt[request] <= now + Future
Expired(row) == row.state # "absent" /\ IssuedAt[row.request] + Ttl <= now
Pruned == [c \in Commands |-> IF Expired(rows[c]) THEN NoRow ELSE rows[c]]
Open(n) == generations[tasks[n].of] # "closed"

Inserted(n) ==
  [Pruned EXCEPT ![CommandOf[tasks[n].request]] =
     [request |-> tasks[n].request, state |-> "admitted", owner |-> tasks[n].of, result |-> "none"]]

HasRoom ==
  /\ Cardinality({c \in Commands : Pruned[c].state # "absent"}) < MaxEntries
  /\ Used(Pruned) + 1 + Body <= MaxBytes

New(n) == InWindow(tasks[n].request) /\ Pruned[CommandOf[tasks[n].request]] = NoRow /\ HasRoom

Replay(n) ==
  LET row == Pruned[CommandOf[tasks[n].request]]
  IN InWindow(tasks[n].request) /\ row # NoRow /\ row.request = tasks[n].request

(* An admission of another process owner is in doubt.                       *)
Replayed(n) ==
  LET row == Pruned[CommandOf[tasks[n].request]]
  IN [state |-> IF row.state = "admitted" /\ row.owner # tasks[n].of THEN "uncertain" ELSE row.state,
      result |-> row.result]

Then(n, place, answer) == IF tasks[n].cancelled THEN Ends(n) ELSE Answers(n, place, answer)
Rejected == [state |-> "rejected", result |-> "none"]
Admitted == [state |-> "admitted", result |-> "none"]

AdmitNew(n) ==
  /\ tasks[n].at = "admit" /\ Open(n) /\ New(n)
  /\ rows' = Inserted(n)
  /\ Then(n, "dispatch", Admitted)
  /\ UNCHANGED <<clock, wire, runs, told, faults>>

AdmitReplay(n) ==
  /\ tasks[n].at = "admit" /\ Open(n) /\ Replay(n)
  /\ rows' = Pruned
  /\ Then(n, "send", Replayed(n))
  /\ UNCHANGED <<clock, wire, runs, told, faults>>

(* Outside the window, a conflict, no room or a closed journal: rolled back. *)
AdmitRefused(n) ==
  /\ tasks[n].at = "admit" /\ ~(Open(n) /\ (New(n) \/ Replay(n)))
  /\ Then(n, "send", Rejected)
  /\ UNCHANGED <<clock, rows, wire, runs, told, faults>>

(* The transaction fails, or its commit succeeds and what follows fails.    *)
AdmitFails(n) ==
  /\ faults < MaxFaults /\ faults' = faults + 1
  /\ tasks[n].at = "admit" /\ Open(n)
  /\ \/ UNCHANGED rows
     \/ New(n) /\ rows' = Inserted(n)
     \/ Replay(n) /\ rows' = Pruned
  /\ Then(n, "send", Rejected)
  /\ UNCHANGED <<clock, wire, runs, told>>

Dispatch(n) ==
  /\ tasks[n].at = "dispatch" /\ Goes(n, "running")
  /\ runs' = [runs EXCEPT ![tasks[n].request] = @ + 1]
  /\ UNCHANGED <<clock, rows, wire, told, faults>>

(* The handler returns a result that can be sent, or raises.                *)
Return(n) ==
  /\ tasks[n].at = "running"
  /\ \E outcome \in {"result", "uncertain"} :
       tasks' = [tasks EXCEPT ![n].at = "complete", ![n].outcome = outcome]
  /\ UNCHANGED <<clock, rows, wire, runs, told, faults>>

\* Mutant: a result may replace a result.
CompletableAgain(n) ==
  LET row == rows[CommandOf[tasks[n].request]]
  IN /\ Open(n) /\ row # NoRow /\ row.request = tasks[n].request
     /\ row.owner = tasks[n].of

Completable(n) ==
  LET row == rows[CommandOf[tasks[n].request]]
  IN /\ Open(n) /\ row # NoRow /\ row.request = tasks[n].request
     /\ row.state = "admitted" /\ row.owner = tasks[n].of

Completed(n) ==
  [rows EXCEPT ![CommandOf[tasks[n].request]].state = "completed",
               ![CommandOf[tasks[n].request]].result = tasks[n].outcome]

(* A result that could not be kept becomes an uncertain one; if that cannot *)
(* be kept either the admission is all there is to tell.                    *)
CompletionFailed(n) ==
  IF tasks[n].cancelled THEN Ends(n)
  ELSE IF tasks[n].outcome = "result"
  THEN tasks' = [tasks EXCEPT ![n].outcome = "uncertain"]
  ELSE Answers(n, "send", Admitted)

Complete(n) ==
  /\ tasks[n].at = "complete" /\ Completable(n)
  /\ rows' = Completed(n)
  /\ Then(n, "send", [state |-> "completed", result |-> tasks[n].outcome])
  /\ UNCHANGED <<clock, wire, runs, told, faults>>

CompleteRefused(n) ==
  /\ tasks[n].at = "complete" /\ ~Completable(n)
  /\ CompletionFailed(n)
  /\ UNCHANGED <<clock, rows, wire, runs, told, faults>>

CompleteFails(n) ==
  /\ faults < MaxFaults /\ faults' = faults + 1
  /\ tasks[n].at = "complete" /\ Open(n)
  /\ \/ UNCHANGED rows
     \/ Completable(n) /\ rows' = Completed(n)
  /\ CompletionFailed(n)
  /\ UNCHANGED <<clock, wire, runs, told>>

(* The receipt goes to the connection the command came from, or nowhere.    *)
Send(n) ==
  LET t == tasks[n]
  IN /\ t.at = "send" /\ Ends(n)
     /\ IF connections[t.on].phase = "ready" /\ Valid(t.of)
        THEN /\ told' = IF t.answer.state # "completed" THEN told
                        ELSE told \cup {[request |-> t.request, result |-> t.answer.result]}
             /\ UNCHANGED connections
        ELSE /\ connections' = [connections EXCEPT ![t.on] = Gone]
             /\ UNCHANGED told
     /\ UNCHANGED <<clock, rows, generations, runs, faults>>

(* stop cancels what did not end in its five seconds.                       *)
Cancel(n) ==
  /\ Busy(n) /\ generations[tasks[n].of] # "running" /\ ~tasks[n].cancelled
  /\ \/ Ends(n)
     \/ /\ tasks[n].at \in {"admit", "complete"}
        /\ tasks' = [tasks EXCEPT ![n].cancelled = TRUE]
  /\ UNCHANGED <<clock, rows, wire, runs, told, faults>>

-----------------------------------------------------------------------------
Tick ==
  /\ now < MaxTime /\ now' = now + 1
  /\ latest' = IF now' > latest THEN now' ELSE latest
  /\ UNCHANGED <<rows, wire, tasks, runs, told, faults>>

(* The host's clock is set back.                                            *)
StepBack ==
  /\ now > 0 /\ now' = now - 1 /\ now' >= latest - MaxBack
  /\ UNCHANGED <<latest, rows, wire, tasks, runs, told, faults>>

Init ==
  /\ now = 0 /\ latest = 0
  /\ rows = [c \in Commands |-> NoRow]
  /\ generations = [g \in Generations |-> "new"]
  /\ connections = [c \in Connections |-> Unopened]
  /\ tasks = [n \in Slots |-> Free]
  /\ runs = [q \in Requests |-> 0]
  /\ told = {} /\ faults = 0

TaskStep(n) ==
  \/ AdmitNew(n) \/ AdmitReplay(n) \/ AdmitRefused(n) \/ AdmitFails(n)
  \/ Dispatch(n) \/ Return(n) \/ Complete(n) \/ CompleteRefused(n) \/ CompleteFails(n)
  \/ Send(n) \/ Cancel(n)

Next ==
  \/ \E g \in Generations : Start(g) \/ Retire(g) \/ CloseJournal(g)
  \/ Crash \/ Tick \/ StepBack
  \/ \E c \in Connections : Authenticate(c) \/ Disconnect(c)
  \/ \E c \in Connections, g \in Generations : Connect(c, g)
  \/ \E c \in Connections, q \in Requests : Receive(c, q)
  \/ \E n \in Slots : TaskStep(n)

Spec == Init /\ [][Next]_vars

-----------------------------------------------------------------------------
(* Types: the journal holds admitted and completed rows, doubt is never     *)
(* stored.                                                                  *)
TypeOK ==
  /\ now \in Nat /\ latest \in Nat /\ faults \in Nat
  /\ rows \in [Commands -> Row \cup {NoRow}]
  /\ generations \in [Generations -> {"new", "running", "stopping", "closed"}]
  /\ connections \in [Connections -> Opened \cup {Unopened, Gone}]
  /\ tasks \in [Slots -> Task \cup {Free}]
  /\ runs \in [Requests -> Nat]
  /\ told \subseteq [request : Requests, result : Results]

(* However often a request is repeated, on whatever connection, it is       *)
(* dispatched once: through restarts, overlapping runtimes, cancelled       *)
(* tasks, failing transactions, the expiry of its row and a clock that is   *)
(* set back by less than the window's allowance.                            *)
DispatchedOnce == \A q \in Requests : runs[q] <= 1

(* The receipts of one request never disagree about its result, and a       *)
(* result is reported only for a request that was dispatched.               *)
AnswersAgree ==
  \A a \in told : /\ runs[a.request] > 0
                 /\ \A b \in told : b.request = a.request => b = a

=============================================================================
