-------------------------------- MODULE Workspaces --------------------------------
(***************************************************************************)
(* What a phone may have done in a directory of the host, and read of it:   *)
(* the Git operations on a configured repository (workspace_git.py), and    *)
(* the pages of granted files and directories (workspace_files.py).  The    *)
(* two are served side by side and share no state.                          *)
(***************************************************************************)
EXTENDS Integers, Sequences
LOCAL INSTANCE SequencesExt
LOCAL INSTANCE FiniteSetsExt

-----------------------------------------------------------------------------
(***************************************************************************)
(* The Git operations a phone may have the host perform on a configured     *)
(* repository (workspace_git.py): it reviews the status, prepares one       *)
(* operation on it, is given a confirmation that it can use once, and       *)
(* executes the operation under a key of its own.                           *)
(*                                                                          *)
(* Every call holds the workspace's lock, but Git belongs to nobody: other  *)
(* programs write files, stage and commit between any two Git commands,     *)
(* others push to the remote, a command can time out with or without its    *)
(* effect, and the host can stop anywhere.  Confirmations live in memory,   *)
(* the ledger of answers on disk.                                           *)
(*                                                                          *)
(* The repository has one file; contents are numbers, and what another      *)
(* program writes is new (a change undone between two looks is not seen).   *)
(* A branch is the sequence of the contents committed to it; one branch     *)
(* tracks one remote.  The workspace is a public one, all operations are    *)
(* enabled, and the phone has one connection.                               *)
(***************************************************************************)
CONSTANTS
  Confirmations, Keys,     \* confirmation tokens, idempotency keys
  Attempts, KeyOf,         \* execute requests, and the key of each
  Secret                   \* contents with findings: not to be committed by the phone
CONSTANTS MaxIntrusions, MaxFailures, MaxCrashes     \* bounds of the model

GitAssumption ==
  /\ KeyOf \in [Attempts -> Keys] /\ Secret \subseteq Nat \ {0}
  /\ {MaxIntrusions, MaxFailures, MaxCrashes} \subseteq Nat

Operations == {"stage", "unstage", "commit", "fetch", "push", "pull"}

VARIABLES
  tree, index, local, tracking, remote,   \* the repository and its remote
  seen,          \* the status the phone has reviewed last
  confirmation,  \* _confirmations
  ledger,        \* workspace_git_operations: the operation and the answer of a key
  attempt,       \* the execute calls
  intrusions, failures, crashes,
  performed      \* history: for a confirmation, the statuses Git was started on, and
                 \* whether another program had changed something since the last look

repoVars == <<tree, index, local, tracking, remote>>
gitVars == <<repoVars, seen, confirmation, ledger, attempt, intrusions, failures, crashes, performed>>

Tip(branch) == IF branch = <<>> THEN 0 ELSE Last(branch)
Shared == Len(LongestCommonPrefix({local, tracking}))
Ahead == Len(local) - Shared
Behind == Len(tracking) - Shared
\* status: of the tracking branch the token only holds how far it is away.
Status == [tree |-> tree, index |-> index, local |-> local, ahead |-> Ahead, behind |-> Behind]
Dirty == tree # index \/ index # Tip(local)

NoStatus == [tree |-> -1, index |-> -1, local |-> <<>>, ahead |-> 0, behind |-> 0]
NoConfirmation == [state |-> "none", operation |-> "", status |-> NoStatus]
NoAttempt == [at |-> "idle", confirmation |-> "", operation |-> "", looked |-> 0, before |-> <<>>, target |-> <<>>, answer |-> ""]
NoAnswer == [operation |-> "", report |-> <<>>]

GitTypeOK ==
  /\ {tree, index} \subseteq Nat /\ {local, tracking, remote} \subseteq Seq(Nat)
  /\ IsPrefix(tracking, remote)
  /\ \A c \in Confirmations : confirmation[c].state \in {"none", "open", "used", "expired"}
  /\ \A a \in Attempts : attempt[a].at \in {"idle", "validated", "performing", "merging", "reading", "recording", "over"}
  /\ \A k \in Keys : ledger[k].operation \in Operations \cup {""}

GitInit ==
  /\ local \in {<<>>, <<1>>} /\ remote \in {<<>>, <<1>>} /\ tracking = remote
  /\ index = Tip(local) /\ tree \in {index, 1}
  /\ seen = NoStatus
  /\ confirmation = [c \in Confirmations |-> NoConfirmation]
  /\ ledger = [k \in Keys |-> NoAnswer]
  /\ attempt = [a \in Attempts |-> NoAttempt]
  /\ intrusions = 0 /\ failures = 0 /\ crashes = 0
  /\ performed = [c \in Confirmations |-> <<>>]

Locked == {a \in Attempts : attempt[a].at \in {"performing", "merging", "reading", "recording"}}
Free == Locked = {}

-----------------------------------------------------------------------------
\* Other programs, and others who push.
Fresh == 2 + intrusions
Intrudes ==
  /\ intrusions < MaxIntrusions /\ intrusions' = intrusions + 1
  /\ UNCHANGED <<seen, confirmation, ledger, attempt, failures, crashes, performed>>
Edited    == Intrudes /\ tree' = Fresh /\ UNCHANGED <<index, local, tracking, remote>>
Staged    == Intrudes /\ index' = Fresh /\ tree' = Fresh /\ UNCHANGED <<local, tracking, remote>>
Committed == Intrudes /\ local' = Append(local, Fresh) /\ index' = Fresh /\ tree' = Fresh /\ UNCHANGED <<tracking, remote>>
Pushed    == Intrudes /\ remote' = Append(remote, Fresh) /\ UNCHANGED <<tree, index, local, tracking>>

\* status, as the phone reviews it.
Review ==
  /\ Free /\ seen # Status /\ seen' = Status
  /\ UNCHANGED <<repoVars, confirmation, ledger, attempt, intrusions, failures, crashes, performed>>

\* _validate_operation
Valid(operation) ==
  \/ operation = "stage" /\ tree # index
  \/ operation = "unstage" /\ index # Tip(local)
  \/ operation = "commit" /\ index # Tip(local) /\ index \notin Secret
  \/ operation = "fetch"
  \/ /\ operation = "push" /\ Behind = 0 /\ Ahead > 0
     /\ ~Dirty /\ \A i \in Shared + 1..Len(local) : local[i] \notin Secret
  \/ operation = "pull" /\ Ahead = 0 /\ Behind > 0 /\ ~Dirty

\* prepare, on the status that the phone has reviewed.
Prepare(c, operation) ==
  /\ Free /\ confirmation[c].state = "none"
  /\ seen = Status /\ Valid(operation)
  /\ confirmation' = [confirmation EXCEPT ![c] = [state |-> "open", operation |-> operation, status |-> seen]]
  /\ UNCHANGED <<repoVars, seen, ledger, attempt, intrusions, failures, crashes, performed>>
Expire(c) ==
  /\ confirmation[c].state = "open"
  /\ confirmation' = [confirmation EXCEPT ![c].state = "expired"]
  /\ UNCHANGED <<repoVars, seen, ledger, attempt, intrusions, failures, crashes, performed>>

-----------------------------------------------------------------------------
\* execute, before its own lock: a key with an answer gets it again, or is refused for
\* another operation; the operation is validated on the status of now, which waits for
\* the lock.
Moved(a, at) == attempt' = [attempt EXCEPT ![a].at = at]
Answered(a, answer) == attempt' = [attempt EXCEPT ![a].at = "over", ![a].answer = answer]
Execute(a, c) ==
  LET operation == confirmation[c].operation
      k == KeyOf[a]
  IN /\ attempt[a].at = "idle" /\ confirmation[c].state # "none"
     /\ ledger[k] # NoAnswer \/ Free
     /\ attempt' = [attempt EXCEPT ![a] =
          [NoAttempt EXCEPT !.at = IF ledger[k] # NoAnswer \/ ~Valid(operation) THEN "over" ELSE "validated",
                            !.confirmation = c, !.operation = operation,
                            !.answer = IF ledger[k] # NoAnswer
                                         THEN IF ledger[k].operation = operation THEN "replayed" ELSE "conflict"
                                       ELSE IF Valid(operation) THEN "" ELSE "refused"]]
     /\ UNCHANGED <<repoVars, seen, confirmation, ledger, intrusions, failures, crashes, performed>>

\* Under the lock: the status must be the confirmed one, and the confirmation is used.
Confirm(a) ==
  LET c == attempt[a].confirmation
      stands == confirmation[c].state = "open" /\ confirmation[c].status = Status
                /\ confirmation[c].operation = attempt[a].operation
  IN /\ attempt[a].at = "validated" /\ Free
     /\ IF stands
          THEN /\ confirmation' = [confirmation EXCEPT ![c].state = "used"]
               /\ attempt' = [attempt EXCEPT ![a].at = "performing", ![a].before = local, ![a].looked = intrusions]
          ELSE Answered(a, "refused") /\ UNCHANGED confirmation
     /\ UNCHANGED <<repoVars, seen, ledger, intrusions, failures, crashes, performed>>

\* _perform: what the Git command does.
FastForward(branch) ==
  IF IsPrefix(local, branch) /\ ~Dirty
    THEN local' = branch /\ index' = Tip(branch) /\ tree' = Tip(branch)
    ELSE UNCHANGED <<local, index, tree>>
Effect(operation) ==
  CASE operation = "stage"   -> index' = tree /\ UNCHANGED <<tree, local, tracking, remote>>
    [] operation = "unstage" -> index' = Tip(local) /\ UNCHANGED <<tree, local, tracking, remote>>
    [] operation = "commit"  -> /\ local' = IF index # Tip(local) THEN Append(local, index) ELSE local
                                /\ UNCHANGED <<tree, index, tracking, remote>>
    [] operation \in {"fetch", "pull"} -> tracking' = remote /\ UNCHANGED <<tree, index, local, remote>>
    [] operation = "push"    -> IF IsPrefix(remote, local)
                                  THEN remote' = local /\ tracking' = local /\ UNCHANGED <<tree, index, local>>
                                  ELSE UNCHANGED repoVars
\* Git is started on the repository as it is now; a commit or a push is read back by
\* the revision that was there before it.
Started(a) ==
  performed' = [performed EXCEPT ![attempt[a].confirmation] =
                  Append(@, [status |-> Status, late |-> intrusions # attempt[a].looked])]
Perform(a) ==
  /\ attempt[a].at = "performing" /\ Started(a)
  /\ Effect(attempt[a].operation)
  /\ attempt' = [attempt EXCEPT ![a].at = IF attempt[a].operation = "pull" THEN "merging" ELSE "reading",
                                ![a].target = IF attempt[a].operation = "pull" THEN remote ELSE local]
  /\ UNCHANGED <<seen, confirmation, ledger, intrusions, failures, crashes>>
Merge(a) ==
  /\ attempt[a].at = "merging" /\ Moved(a, "reading")
  /\ FastForward(attempt[a].target)
  /\ UNCHANGED <<tracking, remote, seen, confirmation, ledger, intrusions, failures, crashes, performed>>
\* A command fails or times out, with its effect or without it: the call ends, and
\* nothing is written to the ledger.
Fail(a) ==
  /\ attempt[a].at \in {"performing", "merging"}
  /\ failures < MaxFailures /\ failures' = failures + 1
  /\ Answered(a, "failed")
  /\ IF attempt[a].at = "performing"
       THEN Started(a) /\ (UNCHANGED repoVars \/ Effect(attempt[a].operation))
       ELSE UNCHANGED performed /\ UNCHANGED <<tracking, remote>>
            /\ (UNCHANGED <<tree, index, local>> \/ FastForward(attempt[a].target))
  /\ UNCHANGED <<seen, confirmation, ledger, intrusions, crashes>>

\* The read-back: what an operation has not visibly done is an unknown outcome.
Done(a) ==
  LET t == attempt[a].target
  IN CASE attempt[a].operation = "stage"   -> index # Tip(local)
       [] attempt[a].operation = "unstage" -> index = Tip(local)
       [] attempt[a].operation = "commit"  -> Len(local) > 0 /\ Front(local) = attempt[a].before
       [] attempt[a].operation = "fetch"   -> TRUE
       [] attempt[a].operation = "push"    -> remote = t
       [] attempt[a].operation = "pull"    -> local = t /\ ~Dirty
ReadBack(a) ==
  /\ attempt[a].at = "reading"
  /\ IF Done(a)
       THEN attempt' = [attempt EXCEPT ![a].at = "recording", ![a].target =
                          IF attempt[a].operation = "commit" THEN local ELSE @]
       ELSE Answered(a, "unknown")
  /\ UNCHANGED <<repoVars, seen, confirmation, ledger, intrusions, failures, crashes, performed>>
\* _ledger_put, and the answer; a key that has one by now is an error of the database.
Record(a) ==
  /\ attempt[a].at = "recording"
  /\ LET k == KeyOf[a]
     IN IF ledger[k] = NoAnswer
          THEN /\ ledger' = [ledger EXCEPT ![k] = [operation |-> attempt[a].operation, report |-> attempt[a].target]]
               /\ Answered(a, "done")
          ELSE Answered(a, "failed") /\ UNCHANGED ledger
  /\ UNCHANGED <<repoVars, seen, confirmation, intrusions, failures, crashes, performed>>

\* The host stops: calls end without an answer, and the confirmations are gone.
Crash ==
  /\ crashes < MaxCrashes /\ crashes' = crashes + 1
  /\ attempt' = [a \in Attempts |-> IF attempt[a].at \in {"idle", "over"} THEN attempt[a]
                                    ELSE [attempt[a] EXCEPT !.at = "over", !.answer = "lost"]]
  /\ confirmation' = [c \in Confirmations |-> IF confirmation[c].state = "none" THEN confirmation[c]
                                              ELSE [confirmation[c] EXCEPT !.state = "expired"]]
  /\ UNCHANGED <<repoVars, seen, ledger, intrusions, failures, performed>>

GitNext ==
  \/ Edited \/ Staged \/ Committed \/ Pushed \/ Review \/ Crash
  \/ \E c \in Confirmations : Expire(c) \/ \E operation \in Operations : Prepare(c, operation)
  \/ \E a \in Attempts : \/ \E c \in Confirmations : Execute(a, c)
                         \/ Confirm(a) \/ Perform(a) \/ Merge(a) \/ Fail(a) \/ ReadBack(a) \/ Record(a)

-----------------------------------------------------------------------------
\* Git is started at most once for a confirmation, however often the request is sent,
\* fails or is lost, and on the status that was confirmed, unless another program
\* changed it after the last look: nothing else comes between, and what has findings is
\* not committed.
PerformedAsConfirmed == \A c \in Confirmations :
  /\ Len(performed[c]) <= 1
  /\ \A i \in 1..Len(performed[c]) : performed[c][i].late \/
       /\ performed[c][i].status = confirmation[c].status
       /\ confirmation[c].operation = "commit" => performed[c][i].status.index \notin Secret

\* What an answer reports stays true: a pushed revision is on the remote, a committed or
\* pulled one on the branch, and a key keeps its first answer.
AnswersTrue ==
  /\ \A k \in Keys : /\ ledger[k].operation = "push" => IsPrefix(ledger[k].report, remote)
                     /\ ledger[k].operation \in {"commit", "pull"} => IsPrefix(ledger[k].report, local)
  /\ \A a \in Attempts : attempt[a].answer \in {"done", "replayed"} =>
                           ledger[KeyOf[a]].operation = attempt[a].operation

-----------------------------------------------------------------------------
(***************************************************************************)
(* What a phone may read of a directory that the owner granted on the host  *)
(* (workspace_files.py): the entries of a directory, a file and the diff of *)
(* a file, each page by page.  A read of one page has no lock: it loads the *)
(* grant, opens what it reads from the granted directory, reads it piece by *)
(* piece, looks whether anything has changed meanwhile, and loads the grant *)
(* again before it answers.                                                 *)
(*                                                                          *)
(* Meanwhile other programs overwrite files in place or put others in their *)
(* place, rename entries, and move the granted directory away; the owner    *)
(* revokes and grants again.  What they write is new, and a move is not     *)
(* undone: what changes back between two looks is not seen.                 *)
(*                                                                          *)
(* A node is a file or a directory, known by its inode; it has two parts,   *)
(* the chunks of a file or the entries of a directory, and a part is a      *)
(* number, given to it when it was written.  The time of the last change of *)
(* a node is thus its largest part.                                         *)
(***************************************************************************)
CONSTANTS
  Dirs, Granted, Other,              \* two directories: the one the owner grants, and another
  SecretParts                             \* parts with findings in them
CONSTANTS MaxWrites, MaxGrants       \* bounds of the model

FilesAssumption == Dirs = {Granted, Other} /\ Granted # Other /\ {MaxWrites, MaxGrants} \subseteq Nat

Parts == {1, 2}
Kinds == {"file", "directory", "diff"}
Objects == {"file", "directory"}

VARIABLES
  place,         \* the directory that is at the granted path
  node,          \* the inode of a directory's file, and of the directory itself
  parts,         \* the parts of a node
  writes,
  grant, grants, \* workspace_file_grants: the directory and the generation of the row
  reader,        \* the request that is being served
  phone,         \* the pages the phone has of one revision
  past           \* history: everything a file or a directory has ever held

outsideVars == <<place, node, parts, writes, past>>
filesVars == <<outsideVars, grant, grants, reader, phone>>

NoGrant == [dir |-> Granted, generation |-> 0]
NoRevision == [node |-> 0, parts |-> <<>>]
Idle == [at |-> "idle", kind |-> "file", grant |-> NoGrant, node |-> 0, changed |-> 0, parts |-> <<>>, withdrawn |-> FALSE]
NoPages == [kind |-> "none", revision |-> NoRevision, pages |-> <<>>]

Held(dir, object) == parts[node[<<dir, object>>]]
ChangedAt(n) == Max(Range(parts[n]))

FilesTypeOK ==
  /\ place \in Dirs /\ \A o \in Dirs \X Objects : node[o] \in DOMAIN parts
  /\ grant.dir \in Dirs /\ grant.generation \in 0..grants
  /\ reader.at \in {"idle", "loaded", "reading", "checked"} /\ reader.kind \in Kinds
  /\ phone.kind \in Kinds \cup {"none"} /\ Len(phone.pages) <= 2

FilesInit ==
  /\ place = Granted
  /\ node = [o \in Dirs \X Objects |-> (IF o[1] = Granted THEN 0 ELSE 2) + (IF o[2] = "file" THEN 1 ELSE 2)]
  /\ parts = [n \in 1..4 |-> <<n, n>>]
  /\ writes = 4
  /\ grant = [dir |-> Granted, generation |-> 1] /\ grants = 1
  /\ reader = Idle /\ phone = NoPages
  /\ past = {<<n, n>> : n \in 1..4}

-----------------------------------------------------------------------------
\* Other programs.
OthersWrite == writes < 4 + MaxWrites /\ writes' = writes + 1 /\ UNCHANGED <<grant, grants, reader, phone>>
Overwrite(n, i) ==
  /\ OthersWrite
  /\ parts' = [parts EXCEPT ![n][i] = writes'] /\ past' = past \cup {parts'[n]}
  /\ UNCHANGED <<place, node>>
\* A file saved by a rename over it, a directory moved into the place of another.
Replace(o) ==
  /\ OthersWrite
  /\ parts' = Append(parts, <<writes', writes'>>) /\ node' = [node EXCEPT ![o] = Len(parts')]
  /\ past' = past \cup {<<writes', writes'>>}
  /\ UNCHANGED place
MoveAway ==
  /\ place = Granted /\ place' = Other
  /\ UNCHANGED <<node, parts, writes, past, grant, grants, reader, phone>>

\* The owner: grant is refused while a row for another directory is there, and keeps the
\* generation of a row for the same one.
Revoke ==
  /\ grant # NoGrant /\ grant' = NoGrant
  /\ reader' = [reader EXCEPT !.withdrawn = reader.at # "idle"]
  /\ UNCHANGED <<outsideVars, grants, phone>>
Grant ==
  /\ grant = NoGrant /\ grants < MaxGrants
  /\ grants' = grants + 1 /\ grant' = [dir |-> place, generation |-> grants']
  /\ UNCHANGED <<outsideVars, reader, phone>>

-----------------------------------------------------------------------------
\* _load_grant: the row, and the granted directory still at its path.
Stands(g) == g # NoGrant /\ place = g.dir
\* Another generation of the row is another grant.
SameGrant(g, h) == g = h

\* git_status: the token a diff is asked for stands for what the file holds now.
GitStatus ==
  /\ reader = Idle /\ phone = NoPages /\ Stands(grant)
  /\ phone' = [kind |-> "diff", revision |-> [node |-> 0, parts |-> Held(place, "file")], pages |-> <<>>]
  /\ UNCHANGED <<outsideVars, grant, grants, reader>>
\* A first page of a file or a directory is asked for without a revision, a later one with it.
Ask(kind) ==
  /\ reader = Idle /\ Stands(grant)
  /\ \/ phone.kind = kind /\ Len(phone.pages) < 2
     \/ phone = NoPages /\ kind # "diff"
  /\ reader' = [Idle EXCEPT !.at = "loaded", !.kind = kind, !.grant = grant]
  /\ UNCHANGED <<outsideVars, grant, grants, phone>>

\* Any error: the phone starts again.
Refused == reader' = Idle /\ phone' = NoPages

\* A file or a directory is opened from the granted directory, without following links,
\* and read through what was opened.
Open ==
  LET opened == node[<<reader.grant.dir, reader.kind>>]
  IN /\ reader.at = "loaded" /\ reader.kind # "diff"
     /\ IF Stands(reader.grant)
          THEN reader' = [reader EXCEPT !.at = "reading", !.node = opened, !.changed = ChangedAt(opened)] /\ UNCHANGED phone
          ELSE Refused
     /\ UNCHANGED <<outsideVars, grant, grants>>
Reads(n) ==
  /\ reader.at = "reading" /\ Len(reader.parts) < 2
  /\ reader' = [reader EXCEPT !.parts = Append(@, parts[n][Len(@) + 1])]
  /\ UNCHANGED <<outsideVars, grant, grants, phone>>
ReadPart == reader.kind # "diff" /\ Reads(reader.node)

\* It must look the same as before, also for who opens the path again (_same_stat).
Unmoved ==
  node[<<reader.grant.dir, reader.kind>>] = reader.node /\ ChangedAt(reader.node) = reader.changed
\* The revision of a file is its content.
Revision ==
  [node |-> IF reader.kind = "directory" THEN reader.node ELSE 0, parts |-> reader.parts]
\* The findings are looked for in all that was read, not in the page alone.
Clean == reader.kind = "directory" \/ Range(reader.parts) \cap SecretParts = {}
Checked(holds) ==
  /\ reader.at = "reading" /\ Len(reader.parts) = 2
  /\ IF holds THEN reader' = [reader EXCEPT !.at = "checked"] /\ UNCHANGED phone ELSE Refused
  /\ UNCHANGED <<outsideVars, grant, grants>>

\* Mutant: what was read is not compared with the revision the phone pages through.
CheckAlone == reader.kind # "diff" /\ Checked(Unmoved /\ Clean)

Check == reader.kind # "diff" /\ Checked(Unmoved /\ phone.revision \in {NoRevision, Revision} /\ Clean)

\* A diff begins and ends with a status that must be the expected one; Git reads what is
\* at the path by then.
AsReviewed == Held(place, "file") = phone.revision.parts
OpenDiff ==
  /\ reader.at = "loaded" /\ reader.kind = "diff"
  /\ IF Stands(reader.grant) /\ AsReviewed
       THEN reader' = [reader EXCEPT !.at = "reading"] /\ UNCHANGED phone
       ELSE Refused
  /\ UNCHANGED <<outsideVars, grant, grants>>
ReadDiff == reader.kind = "diff" /\ Reads(node[<<place, "file">>])
CheckDiff == reader.kind = "diff" /\ Checked(AsReviewed /\ Clean)

\* _revalidate_grant, and the page.
Return ==
  /\ reader.at = "checked"
  /\ IF Stands(grant) /\ SameGrant(grant, reader.grant)
       THEN /\ reader' = Idle
            /\ phone' = [kind |-> reader.kind, revision |-> Revision,
                         pages |-> Append(phone.pages, reader.parts[Len(phone.pages) + 1])]
       ELSE Refused
  /\ UNCHANGED <<outsideVars, grant, grants>>

FilesNext ==
  \/ \E n \in DOMAIN parts, i \in Parts : Overwrite(n, i)
  \/ \E o \in Dirs \X Objects : Replace(o)
  \/ MoveAway \/ Revoke \/ Grant
  \/ GitStatus \/ \E kind \in Kinds : Ask(kind)
  \/ Open \/ ReadPart \/ Check \/ OpenDiff \/ ReadDiff \/ CheckDiff \/ Return

-----------------------------------------------------------------------------
\* The pages the phone puts together under one revision are those of a content the file or
\* directory had at one moment, however it was rewritten between the pages and during each;
\* and none of them is a page of a content with findings.
OneMoment == phone.pages # <<>> =>
  /\ IsPrefix(phone.pages, phone.revision.parts) /\ phone.revision.parts \in past
  /\ phone.kind # "directory" => Range(phone.revision.parts) \cap SecretParts = {}

\* No page leaves after the grant it was asked under was revoked, even when the same
\* directory has been granted again since.
GrantStood == [][phone'.pages # phone.pages /\ phone'.pages # <<>> => ~reader.withdrawn]_filesVars
================================================================================
