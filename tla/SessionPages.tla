----------------------------- MODULE SessionPages -----------------------------
(***************************************************************************)
(* How the phone reads a session: the pages of SessionStateReader            *)
(* (session_state.py) over Hermes' own rows, continued under cursors, and    *)
(* the current presentation that sessions_state (workspace_control.py) puts  *)
(* on top of the first page.                                                *)
(*                                                                          *)
(* Hermes appends, rewinds and compacts between any two looks of a reader.   *)
(* raw holds the rows by identity; rows with one order are one message on    *)
(* display.  A revision is the number of active rows, the rewinds and the    *)
(* newest active row.  Row sizes only bound a page; the parts of a row too    *)
(* large for it, read apart under a digest, are left out.                    *)
(***************************************************************************)
EXTENDS Integers, Sequences, FiniteSets, FiniteSetsExt

CONSTANTS Messages                \* of assistants, shown live before they are stored
CONSTANTS PageRows                \* maximum_rows
CONSTANTS MaxRows, MaxReads, MaxRewinds      \* bounds of the model

PagesAssumption == PageRows \in Nat \ {0} /\ {MaxRows, MaxReads, MaxRewinds} \subseteq Nat

VARIABLES
  raw, rewinds,
  session,       \* which continuation the stored id resolves to
  live,          \* of each message: "none", "draft" or "final" in the presentation
  reader,        \* the read under way
  phone,         \* what it assembled: the rows, the newest, the cursor to go on with
  answer,        \* the last first page with its overlay
  reads

pageVars == <<raw, rewinds, session, live, reader, phone, answer, reads>>
store == <<raw, rewinds, session, live>>

Other == "other"                  \* a row that is no named message of an assistant
NoCursor == [rev |-> <<>>, offset |-> 0, session |-> 0]
NoAnswer == [stored |-> {}, overlay |-> {}, begun |-> {}]
Rest == [at |-> "idle", first |-> TRUE, rev |-> <<>>, offset |-> 0, page |-> {}, more |-> FALSE,
         overlay |-> {}, drafts |-> {}, begun |-> {}, session |-> 0]

Ids == DOMAIN raw
ActiveRows == {i \in Ids : raw[i].state = "active"}
Visible == {i \in Ids : raw[i].state \in {"active", "compacted"}}
Display == {raw[i].order : i \in Visible}
Newest == IF ActiveRows = {} THEN 0 ELSE Max(ActiveRows)
Revision == <<Cardinality(ActiveRows), rewinds, Newest>>
Said(rows) == {raw[i].says : i \in rows} \cap Messages
\* Messages that the rows among these orders hold under their identity.
Stored(orders) == {raw[i].says : i \in {j \in Visible : raw[j].order \in orders /\ raw[j].named}}

PagesTypeOK ==
  /\ raw \in Seq([order: 1..MaxRows, state: {"active", "compacted", "gone"},
                  says: Messages \cup {Other}, named: BOOLEAN])
  /\ Len(raw) <= MaxRows /\ live \in [Messages -> {"none", "draft", "final"}]
  /\ reader.at \in {"idle", "before", "count", "rows", "after", "live", "check"}
  /\ phone.shown \subseteq 1..MaxRows /\ reads \in 0..MaxReads

PagesInit ==
  /\ raw = <<>> /\ rewinds = 0 /\ session = 1
  /\ live = [m \in Messages |-> "none"]
  /\ reader = Rest /\ phone = [shown |-> {}, top |-> 0, cursor |-> NoCursor]
  /\ answer = NoAnswer /\ reads = 0

-----------------------------------------------------------------------------
\* Hermes delivers a message it stored before it stores what follows.
Paced == \A i \in Visible : raw[i].says # Other => live[raw[i].says] # "draft"
Row(order, says, named) == [order |-> order, state |-> "active", says |-> says, named |-> named]
Append1(says, named) ==
  /\ Len(raw) < MaxRows /\ raw' = Append(raw, Row(Len(raw) + 1, says, named))
  /\ UNCHANGED <<rewinds, session, reader, phone, answer, reads>>
AppendOther == Paced /\ Append1(Other, FALSE) /\ UNCHANGED live
\* Two rows of one message on display.
AppendPair ==
  /\ Paced /\ Len(raw) + 2 <= MaxRows
  /\ raw' = raw \o <<Row(Len(raw) + 1, Other, FALSE), Row(Len(raw) + 1, Other, FALSE)>>
  /\ UNCHANGED <<rewinds, session, live, reader, phone, answer, reads>>
Rewind ==
  /\ ActiveRows # {} /\ rewinds' = rewinds + 1 /\ rewinds < MaxRewinds
  /\ raw' = [raw EXCEPT ![Newest].state = "gone"]
  /\ UNCHANGED <<session, live, reader, phone, answer, reads>>
\* Compaction archives the active rows and keeps a copy of the newest.
Compact ==
  /\ ActiveRows # {} /\ Len(raw) < MaxRows
  /\ raw' = Append([i \in Ids |-> IF i \in ActiveRows THEN [raw[i] EXCEPT !.state = "compacted"] ELSE raw[i]],
                   raw[Newest])
  /\ UNCHANGED <<rewinds, session, live, reader, phone, answer, reads>>
\* The session goes on under another identity.
Continue ==
  /\ session = 1 /\ session' = 2
  /\ UNCHANGED <<raw, rewinds, live, reader, phone, answer, reads>>

\* A message is shown live, stored (its platform identity may be missing) and finished,
\* and leaves the presentation when its turn is over.
Drafted(m) == live[m] # "none" \/ \E i \in Ids : raw[i].says = m
Draft(m) ==
  /\ ~Drafted(m) /\ live' = [live EXCEPT ![m] = "draft"]
  /\ UNCHANGED <<raw, rewinds, session, reader, phone, answer, reads>>
Store(m, named) ==
  /\ live[m] # "none" /\ ~\E i \in Ids : raw[i].says = m
  /\ Append1(m, named) /\ UNCHANGED live
Finish(m) ==
  /\ \/ live[m] = "draft" /\ live' = [live EXCEPT ![m] = "final"]
     \/ live[m] = "final" /\ (\E i \in Ids : raw[i].says = m) /\ live' = [live EXCEPT ![m] = "none"]
  /\ UNCHANGED <<raw, rewinds, session, reader, phone, answer, reads>>

-----------------------------------------------------------------------------
Moves(r) == reader' = r /\ UNCHANGED <<phone, answer, reads>>
Reset == Moves(Rest)
\* sessions_state reads the first page, or goes on under the phone's cursor.
Begin(first) ==
  /\ reader = Rest /\ reads < MaxReads /\ reads' = reads + 1
  /\ first \/ phone.cursor # NoCursor
  /\ reader' = [Rest EXCEPT !.at = "before", !.first = first]
  /\ answer' = NoAnswer /\ UNCHANGED <<store, phone>>
Before ==
  /\ reader.at = "before"
  /\ IF ~reader.first /\ phone.cursor.session # session THEN Reset
     ELSE Moves([reader EXCEPT !.at = IF reader.first THEN "rows" ELSE "count", !.rev = Revision, !.offset = 0])
  /\ UNCHANGED store
\* _append_count: nothing but verified appends between two revisions.
Appended(old, new) == {i \in ActiveRows : i > old[3]}
OnlyAppends(old, new) ==
  LET added == Appended(old, new)
  IN \/ new = old
     \/ /\ new[2] = old[2] /\ new[3] > old[3]
        /\ added # {} /\ Max(added) = new[3] /\ old[1] + Cardinality(added) = new[1]
        /\ \A i \in added : raw[i].order > old[3]
Grown(old, new) == IF new = old THEN 0 ELSE Cardinality({raw[i].order : i \in Appended(old, new)})
Count ==
  /\ reader.at = "count"
  /\ LET old == phone.cursor.rev
     IN IF OnlyAppends(old, reader.rev)
          THEN Moves([reader EXCEPT !.at = "rows", !.offset = phone.cursor.offset + Grown(old, reader.rev)])
          ELSE Reset
  /\ UNCHANGED store
\* The rows from an offset on, newest first; how many fit depends on their size.
Newer(o) == Cardinality({p \in Display : p > o})
Fetch(rows) ==
  /\ reader.at = "rows"
  /\ Moves([reader EXCEPT !.at = "after",
              !.page = {o \in Display : Newer(o) \in reader.offset..reader.offset + rows - 1},
              !.more = \E o \in Display : Newer(o) >= reader.offset + rows])
  /\ UNCHANGED store
\* The same revision after as before, or once more (three times at most).
After ==
  /\ reader.at = "after" /\ UNCHANGED store
  /\ IF reader.rev # Revision \/ (~reader.first /\ phone.cursor.session # session)
       THEN Moves([reader EXCEPT !.at = "before"]) \/ Reset
     ELSE IF reader.first THEN Moves([reader EXCEPT !.at = "live"])
     ELSE /\ phone' = [phone EXCEPT !.shown = @ \cup reader.page, !.cursor =
                         IF reader.more THEN [rev |-> reader.rev, session |-> session,
                                              offset |-> reader.offset + Cardinality(reader.page)] ELSE NoCursor]
          /\ reader' = Rest /\ UNCHANGED <<answer, reads>>

\* The live checkpoint is taken between two canonical reads.
Snapshot ==
  /\ reader.at = "live"
  /\ Moves([reader EXCEPT !.at = "check", !.overlay = {m \in Messages : live[m] # "none"},
              !.drafts = {m \in Messages : live[m] = "draft"}, !.begun = {m \in Messages : live[m] # "none"} \cup Said(Visible),
              !.session = session])
  /\ UNCHANGED store
\* _reconcile_session_presentation: what the page holds under its identity is dropped;
\* what else is live must be a draft, and no nameless row may be its final.
Reconciled ==
  LET shown == {i \in Visible : raw[i].order \in reader.page}
      nameless == \E i \in shown : raw[i].says # Other /\ ~raw[i].named
      left == reader.overlay \ Stored(reader.page)
  IN left = {} \/ (left \subseteq reader.drafts /\ ~nameless)
Check ==
  /\ reader.at = "check" /\ UNCHANGED store
  /\ IF Revision # reader.rev \/ session # reader.session \/ ~Reconciled THEN Reset
     ELSE /\ answer' = [stored |-> Said(Visible),
                        overlay |-> reader.overlay \ Stored(reader.page), begun |-> reader.begun]
          /\ phone' = [shown |-> reader.page, top |-> Max(reader.page \cup {0}), cursor |->
                         IF reader.more THEN [rev |-> Revision, session |-> session,
                                              offset |-> Cardinality(reader.page)] ELSE NoCursor]
          /\ reader' = Rest /\ UNCHANGED reads

PagesNext ==
  \/ AppendOther \/ AppendPair \/ Rewind \/ Compact \/ Continue
  \/ \E m \in Messages : Draft(m) \/ Finish(m) \/ \E named \in BOOLEAN : Store(m, named)
  \/ \E first \in BOOLEAN : Begin(first)
  \/ Before \/ Count \/ (\E rows \in 1..PageRows : Fetch(rows)) \/ After \/ Snapshot \/ Check

-----------------------------------------------------------------------------
\* Whatever Hermes writes between the pages: a page that is accepted goes on where the
\* last one ended, so what the phone assembled is every message on display from its
\* oldest to the newest it began with, none missing and none from before a rewind.
PagesJoin ==
  [][phone'.shown # phone.shown =>
       phone'.shown = {o \in Display : o <= phone'.top /\ \E p \in phone'.shown : p <= o}]_pageVars
PagesAreNew ==
  [][phone'.shown # phone.shown /\ ~reader.first => phone.shown \cap reader.page = {}]_pageVars

\* A message that had begun when the presentation was looked at is in the answer once:
\* as a row of the session or in the overlay, never both and never neither.
ShownOnce == \A m \in answer.begun : (m \in answer.stored) # (m \in answer.overlay)
================================================================================
