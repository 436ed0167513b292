------------------------------- MODULE WikiSaves -------------------------------
(***************************************************************************)
(* Saving a Markdown file of a connected wiki: wiki_uploads.py (staged     *)
(* uploads) and the save journal of wiki_service.py.  Every request takes  *)
(* the one advisory lock of the state directory, whichever process serves  *)
(* it; one that neither stages nor replaces a file is one step.  A commit  *)
(* is several: between its journal transactions and its file operations    *)
(* the process may die, an operation may fail, and a program that knows    *)
(* nothing of the lock may write the file.                                 *)
(*                                                                         *)
(* The module follows one path of one wiki and the saves that name it.     *)
(***************************************************************************)
EXTENDS Naturals, FiniteSets

CONSTANTS
  Saves,                \* operation identifiers
  Contents, Nothing,    \* what the file may hold, and its absence
  Proposed,             \* [Saves -> Contents]: the upload's bytes
  Chunks,               \* chunks of an upload
  UploadLimit,          \* MAX_UPLOADS and MAX_STAGED_BYTES
  OperationLimit,       \* _MAX_OPERATIONS and _MAX_RECOVERY_BYTES
  MaxGenerations, MaxWrites, MaxFaults    \* bounds of the model

ASSUME WikiAssumption ==
  /\ Nothing \notin Contents
  /\ Proposed \in [Saves -> Contents]
  /\ {Chunks, MaxGenerations} \subseteq Nat \ {0}
  /\ {UploadLimit, OperationLimit, MaxWrites, MaxFaults} \subseteq Nat
  /\ IsFiniteSet(Saves)

VARIABLES
  file,        \* the path: content, inode, hard links, and its last write
  grant,       \* the connection: its generation, and whether it is live
  valid,       \* check_owner and the identity of the wiki's root
  uploads,     \* wiki_uploads, by operation
  journal,     \* wiki_operations with the last of its wiki_events
  holder,      \* the commit that holds wiki.lock
  replaced,    \* history: how often a save put its content in place
  told,        \* history: the last outcome a caller was given
  writes, faults

saveVars == <<file, grant, valid, uploads, journal, holder, replaced, told, writes, faults>>
budgets == <<writes, faults>>

Outside == "outside"    \* a writer that does not know the lock
FinalStatus == {"committed", "conflict", "failed", "indeterminate"}
Status == {"prepared", "committing"} \cup FinalStatus
Writers == Saves \cup {Outside}
File == [content : Contents \cup {Nothing}, node : Writers, links : {1, 2},
         by : Writers, write : Nat]
Upload == [state : {"receiving", "submitted"}, base : Contents \cup {Nothing},
           generation : Nat \ {0}, chunks : 0 .. Chunks, sound : BOOLEAN]
NoUpload == [state |-> "none"]
NoOperation == "none"
Places == {"submitted", "prepared", "staged", "checked", "linked", "put"}
Holder == [at : Places, save : Saves, seen : Nat, matches : BOOLEAN]
Free == [at |-> "free"]

Locked == holder # Free
Uploaded == {s \in Saves : uploads[s] # NoUpload}
Operations == {s \in Saves : journal[s] # NoOperation}
Creating(s) == uploads[s].base = Nothing
(* _authorize, and _load of an upload whose grant is still the same.        *)
Authorized == valid /\ grant.live
Loaded(s) == s \in Uploaded /\ Authorized /\ uploads[s].generation = grant.generation
(* _snapshot refuses a missing file and one with a second link.             *)
Snapshot == file.content # Nothing /\ file.links = 1
Readable(s) == Snapshot \/ (Creating(s) /\ file.content = Nothing)
Goes(place) == holder' = [holder EXCEPT !.at = place]
Written(content, node, links, by) ==
  file' = [content |-> content, node |-> node, links |-> links, by |-> by, write |-> file.write + 1]

-----------------------------------------------------------------------------
(* Connections.  A changed policy rotates the generation.                   *)
Connect ==
  /\ ~Locked /\ valid /\ grant.generation < MaxGenerations
  /\ grant' = [generation |-> grant.generation + 1, live |-> TRUE]
  /\ UNCHANGED <<file, valid, uploads, journal, holder, replaced, told, budgets>>

Disconnect ==
  /\ ~Locked /\ valid /\ grant.live
  /\ grant' = [grant EXCEPT !.live = FALSE]
  /\ UNCHANGED <<file, valid, uploads, journal, holder, replaced, told, budgets>>

(* The pairing or the session ends or is renewed, the wiki's folder moves.  *)
WikiOwnerChanges ==
  /\ valid' = ~valid
  /\ UNCHANGED <<file, grant, uploads, journal, holder, replaced, told, budgets>>

-----------------------------------------------------------------------------
(* Uploads.  A repeated begin or chunk changes nothing.                     *)
Begin(s, base) ==
  /\ ~Locked /\ Authorized /\ s \notin Uploaded /\ s \notin Operations
  /\ Snapshot \/ (base = Nothing /\ file.content = Nothing)
  /\ Cardinality(Uploaded) < UploadLimit
  /\ uploads' = [uploads EXCEPT ![s] = [state |-> "receiving", base |-> base,
                  generation |-> grant.generation, chunks |-> 0, sound |-> TRUE]]
  /\ UNCHANGED <<file, grant, valid, journal, holder, replaced, told, budgets>>

(* The next chunk, which may not be what the digest was taken of.           *)
Chunk(s, sound) ==
  /\ ~Locked /\ Loaded(s) /\ uploads[s].state = "receiving" /\ uploads[s].chunks < Chunks
  /\ uploads' = [uploads EXCEPT ![s].chunks = @ + 1, ![s].sound = @ /\ sound]
  /\ UNCHANGED <<file, grant, valid, journal, holder, replaced, told, budgets>>

(* _recover: who holds the lock knows that no save is under way.            *)
\* Mutant: the bytes on disk decide what became of an interrupted save.
RecoveredFromBytes(s) ==
  CASE journal[s] = "prepared" -> "failed"
    [] journal[s] = "committing" -> IF file.content = Proposed[s] THEN "committed" ELSE "failed"
    [] OTHER -> journal[s]
Recovered(s) ==
  CASE journal[s] = "prepared" -> "failed"
    [] journal[s] = "committing" -> "indeterminate"
    [] OTHER -> journal[s]

(* status, and commit of an upload that was submitted before.               *)
Answer(s) ==
  /\ ~Locked /\ Loaded(s)
  /\ \/ /\ s \in Operations
        /\ journal' = [journal EXCEPT ![s] = Recovered(s)]
        /\ told' = [told EXCEPT ![s] = Recovered(s)]
     \/ /\ s \notin Operations /\ uploads[s].state = "submitted"
        /\ told' = [told EXCEPT ![s] = "indeterminate"]
        /\ UNCHANGED journal
  /\ UNCHANGED <<file, grant, valid, uploads, holder, replaced, budgets>>

-----------------------------------------------------------------------------
(* A commit.  The submission is durable before anything else.               *)
Receiving(s) == uploads[s].state = "receiving" /\ s \notin Operations
Commit(s) ==
  /\ ~Locked /\ Loaded(s) /\ Receiving(s)
  /\ uploads[s].chunks = Chunks /\ uploads[s].sound
  /\ uploads' = [uploads EXCEPT ![s].state = "submitted"]
  /\ holder' = [at |-> "submitted", save |-> s, seen |-> 0, matches |-> FALSE]
  /\ UNCHANGED <<file, grant, valid, journal, replaced, told, budgets>>

(* The commit returns: with its outcome, unless the owner's check fails.    *)
Ends(s, status) ==
  /\ holder' = Free
  /\ journal' = [journal EXCEPT ![s] = status]
  /\ told' = [told EXCEPT ![s] = IF valid THEN status ELSE @]
Step == holder' # holder /\ UNCHANGED <<grant, valid, uploads>>
At(s, place) == Locked /\ holder.save = s /\ holder.at = place

(* The snapshot and the operation's row, unless authority, file or quota    *)
(* refuse: then the upload stays submitted and has no operation.            *)
Prepare(s) ==
  /\ At(s, "submitted") /\ Authorized /\ Readable(s)
  /\ Cardinality(Operations) < OperationLimit
  /\ journal' = [journal EXCEPT ![s] = "prepared"]
  /\ holder' = [holder EXCEPT !.at = "prepared", !.seen = file.write,
                              !.matches = file.content = uploads[s].base]
  /\ Step /\ UNCHANGED <<file, replaced, told, budgets>>
Refuse(s) ==
  /\ At(s, "submitted")
  /\ ~Authorized \/ ~Readable(s) \/ Cardinality(Operations) >= OperationLimit
  /\ holder' = Free
  /\ Step /\ UNCHANGED <<file, journal, replaced, told, budgets>>

(* The base the author saw is not what the file holds.                      *)
Stale(s) ==
  /\ At(s, "prepared") /\ ~holder.matches
  /\ Ends(s, "conflict")
  /\ Step /\ UNCHANGED <<file, replaced, budgets>>
(* The content is staged beside the file, then "committing" is journaled.   *)
Stage(s) ==
  /\ At(s, "prepared") /\ holder.matches
  /\ journal' = [journal EXCEPT ![s] = "committing"]
  /\ Goes("staged")
  /\ Step /\ UNCHANGED <<file, replaced, told, budgets>>

(* The last look at the file and at the authority.                          *)
\* Mutant: the file is not compared with the first snapshot again.
UnlookedAt(s) == Readable(s)
Unchanged(s) ==
  \/ Creating(s) /\ file.content = Nothing
  \/ ~Creating(s) /\ Snapshot /\ file.write = holder.seen
Check(s) ==
  /\ At(s, "staged") /\ Unchanged(s) /\ Authorized
  /\ holder' = [holder EXCEPT !.at = "checked", !.seen = file.write]
  /\ Step /\ UNCHANGED <<file, journal, replaced, told, budgets>>
CheckFails(s) ==
  /\ At(s, "staged")
  /\ \/ ~Readable(s) /\ Ends(s, "indeterminate")
     \/ Readable(s) /\ ~Unchanged(s) /\ Ends(s, "conflict")
     \/ Unchanged(s) /\ ~Authorized /\ Ends(s, "indeterminate")
  /\ Step /\ UNCHANGED <<file, replaced, budgets>>

Once(s) == replaced' = [replaced EXCEPT ![s] = @ + 1]
(* A new file is linked, which fails if there is one by now, then the       *)
(* staging name goes; an existing file is replaced, whatever it is by now.  *)
Put(s) ==
  /\ At(s, "checked")
  /\ \/ /\ Creating(s) /\ file.content = Nothing
        /\ Written(Proposed[s], s, 2, s) /\ Goes("linked") /\ Once(s)
        /\ UNCHANGED <<journal, told>>
     \/ /\ Creating(s) /\ file.content # Nothing
        /\ Ends(s, "conflict")
        /\ UNCHANGED <<file, replaced>>
     \/ /\ ~Creating(s)
        /\ Written(Proposed[s], s, 1, s) /\ Goes("put") /\ Once(s)
        /\ UNCHANGED <<journal, told>>
  /\ Step /\ UNCHANGED budgets
Unlink(s) ==
  /\ At(s, "linked")
  /\ file' = [file EXCEPT !.links = 1]
  /\ Goes("put")
  /\ Step /\ UNCHANGED <<journal, replaced, told, budgets>>
(* What is there is read back.                                              *)
ReadBack(s) ==
  /\ At(s, "put")
  /\ Ends(s, IF Snapshot /\ Authorized /\ file.content = Proposed[s] /\ file.node = s
             THEN "committed" ELSE "indeterminate")
  /\ Step /\ UNCHANGED <<file, replaced, budgets>>

-----------------------------------------------------------------------------
(* What goes wrong.  An operation on the file or the journal fails: the     *)
(* outcome says whether "committing" was reached.                           *)
Failure(s) == IF holder.at = "prepared" THEN "failed" ELSE "indeterminate"
Fails(s) ==
  /\ Locked /\ holder.save = s /\ faults < MaxFaults
  /\ holder.at = "prepared" => holder.matches
  /\ holder.at # "submitted"
  /\ Ends(s, Failure(s))
  /\ faults' = faults + 1
  /\ Step /\ UNCHANGED <<file, replaced, writes>>
(* The process dies, or cannot journal its outcome, or the failure comes    *)
(* where nothing is journaled for it: the lock goes, the rows stay.         *)
SaverDies ==
  /\ Locked /\ faults < MaxFaults
  /\ holder' = Free /\ faults' = faults + 1
  /\ Step /\ UNCHANGED <<file, journal, replaced, told, writes>>

(* A program outside the lock writes the file in place, replaces or removes *)
(* it.                                                                      *)
Edit(content) ==
  /\ writes < MaxWrites
  /\ \/ Written(content, Outside, 1, Outside)
     \/ Nothing \notin {content, file.content} /\ Written(content, file.node, file.links, Outside)
  /\ writes' = writes + 1
  /\ UNCHANGED <<grant, valid, uploads, journal, holder, replaced, told, faults>>

-----------------------------------------------------------------------------
SavesInit ==
  /\ file \in [content : Contents \cup {Nothing}, node : {Outside}, links : {1},
              by : {Outside}, write : {0}]
  /\ grant = [generation |-> 1, live |-> TRUE]
  /\ valid = TRUE
  /\ uploads = [s \in Saves |-> NoUpload]
  /\ journal = [s \in Saves |-> NoOperation]
  /\ holder = Free
  /\ replaced = [s \in Saves |-> 0] /\ told = [s \in Saves |-> "none"]
  /\ writes = 0 /\ faults = 0

Committing(s) ==
  \/ Prepare(s) \/ Refuse(s) \/ Stale(s) \/ Stage(s) \/ Check(s) \/ CheckFails(s)
  \/ Put(s) \/ Unlink(s) \/ ReadBack(s)

SavesNext ==
  \/ Connect \/ Disconnect \/ WikiOwnerChanges \/ SaverDies
  \/ \E content \in Contents \cup {Nothing} : Edit(content)
  \/ \E s \in Saves :
       \/ \E base \in Contents \cup {Nothing} : Begin(s, base)
       \/ \E sound \in BOOLEAN : Chunk(s, sound)
       \/ Commit(s) \/ Answer(s) \/ Committing(s) \/ Fails(s)

SavesSpec == SavesInit /\ [][SavesNext]_saveVars

-----------------------------------------------------------------------------
(* Type invariant. *)
SavesTypeOK ==
  /\ file \in File
  /\ grant \in [generation : Nat \ {0}, live : BOOLEAN] /\ valid \in BOOLEAN
  /\ uploads \in [Saves -> Upload \cup {NoUpload}]
  /\ journal \in [Saves -> Status \cup {NoOperation}]
  /\ holder \in Holder \cup {Free}
  /\ replaced \in [Saves -> Nat]
  /\ told \in [Saves -> FinalStatus \cup {"none"}]
  /\ writes \in Nat /\ faults \in Nat

(* What the journal says of a save is what happened to the file: its        *)
(* content was put in place at most once, at least once if it is called     *)
(* committed, and never if it is called a conflict or failed.  Only a save  *)
(* in doubt leaves both open.                                               *)
OutcomesTrue ==
  \A s \in Saves :
    /\ replaced[s] <= 1
    /\ journal[s] = "committed" => replaced[s] = 1
    /\ journal[s] \in {NoOperation, "prepared", "conflict", "failed"} => replaced[s] = 0

(* A save never overwrites content its author did not start from, other     *)
(* than a write from outside the lock that fell between its last look and   *)
(* its replacement.  A creation never overwrites anything.                  *)
NoLostSave ==
  [][\A s \in Saves : replaced'[s] # replaced[s] =>
       \/ file.content = uploads[s].base
       \/ ~Creating(s) /\ file.by = Outside /\ file.write # holder.seen]_saveVars

(* A caller that was told how its save ended may rely on it: the answer     *)
(* stays, and the save no longer touches the file, whatever is asked,       *)
(* repeated or recovered later.                                             *)
AnswersFinal ==
  [][\A s \in Saves : told[s] # "none" => told'[s] = told[s] /\ replaced'[s] = replaced[s]]_saveVars

(* Nothing is put in place for a connection that was ended or changed since *)
(* the upload began ("A commit holding the lock finishes before             *)
(* disconnect", docs/NATIVE_WIKI.md:105).                                   *)
GrantHeld ==
  [][\A s \in Saves : replaced'[s] # replaced[s] =>
       grant.live /\ grant.generation = uploads[s].generation]_saveVars
=============================================================================
