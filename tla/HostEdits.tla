-------------------------------- MODULE HostEdits --------------------------------
(***************************************************************************)
(* What phones edit of the host's own configuration (workspace_control.py):  *)
(* whether a capability is enabled, the text of a skill, the description and *)
(* SOUL of an agent, and bundles of a new skill.  Hermes' interfaces offer   *)
(* no compare-and-set, so the plugin compares a digest, writes and, under a   *)
(* lock of its own, reads back.  The owner edits the same files beside it.    *)
(*                                                                          *)
(* One capability, one skill, one agent, one name for bundles.               *)
(***************************************************************************)
EXTENDS Naturals

CONSTANTS Requests, NoRequest, Values
CONSTANTS MaxEdits, MaxCrashes     \* bounds of the model

EditsAssumption == NoRequest \notin Requests /\ {MaxEdits, MaxCrashes} \subseteq Nat

VARIABLES
  saved,      \* what the host holds of the capability, the skill and the SOUL
  profile,    \* the request that last wrote the agent's description, NoRequest before
  bundle,     \* who put the bundle there, and how far it is
  holder,     \* the request that holds each lock
  request,
  late,       \* requests cancelled while their write ran in a thread
  wrote,      \* the value each request replaced, the last time it wrote
  meddled,    \* requests after whose comparison somebody else wrote
  edits, crashes

editVars == <<saved, profile, bundle, holder, request, late, wrote, meddled, edits, crashes>>

Locked == {"capability", "skill"}
Files == Locked \cup {"soul"}
NoBundle == [by |-> NoRequest, at |-> "none"]
New == [kind |-> "capability", at |-> "new", expected |-> CHOOSE v \in Values : TRUE,
        value |-> CHOOSE v \in Values : TRUE, soul |-> FALSE]
NoWrite == <<>>

EditsTypeOK ==
  /\ saved \in [Files -> Values] /\ profile \in Requests \cup {NoRequest}
  /\ bundle \in [by: Requests \cup {NoRequest}, at: {"none", "created", "whole", "scanned"}]
  /\ holder \in [Locked -> Requests \cup {NoRequest}]
  /\ request \in [Requests -> [kind: Locked \cup {"agent", "import"},
       at: {"new", "wait", "read", "write", "verify", "meta", "recheck", "replace", "create", "files", "scan",
            "remove", "saved", "conflict", "unconfirmed", "refused", "gone"},
       expected: Values, value: Values, soul: BOOLEAN]]
  /\ {late, meddled} \subseteq SUBSET Requests
  /\ wrote \in [Requests -> {NoWrite} \cup {<<v>> : v \in Values}]
  /\ edits \in 0..MaxEdits /\ crashes \in 0..MaxCrashes

EditsInit ==
  /\ saved \in [Files -> {New.value}] /\ profile = NoRequest /\ bundle = NoBundle
  /\ holder = [k \in Locked |-> NoRequest] /\ request = [q \in Requests |-> New]
  /\ late = {} /\ wrote = [q \in Requests |-> NoWrite] /\ meddled = {} /\ edits = 0 /\ crashes = 0

At(q, step) == request[q].at = step
Moves(q, step) == request' = [request EXCEPT ![q].at = step]
Lets(q) == holder' = [k \in Locked |-> IF holder[k] = q THEN NoRequest ELSE holder[k]]
FileOf(q) == IF request[q].kind = "agent" THEN "soul" ELSE request[q].kind
\* Those between their comparison and their write on the same file.
Between(q) == {p \in Requests \ {q} : FileOf(p) = FileOf(q) /\ request[p].at \in {"write", "replace"}}
Writes(q) ==
  /\ saved' = [saved EXCEPT ![FileOf(q)] = request[q].value]
  /\ wrote' = [wrote EXCEPT ![q] = <<saved[FileOf(q)]>>]
  /\ meddled' = meddled \cup Between(q)

-----------------------------------------------------------------------------
\* A request reaches its handler.
Begin(q, kind, expected, value, soul) ==
  /\ At(q, "new") /\ (soul => kind = "agent")
  /\ request' = [request EXCEPT ![q] = [kind |-> kind, expected |-> expected, value |-> value, soul |-> soul,
       at |-> CASE kind \in Locked -> "wait" [] kind = "agent" -> "read" [] OTHER -> "create"]]
  /\ UNCHANGED <<saved, profile, bundle, holder, late, wrote, meddled, edits, crashes>>
\* _capability_set_enabled, skills_tools_update: one at a time for each.
Lock(q) ==
  /\ At(q, "wait") /\ holder[request[q].kind] = NoRequest
  /\ holder' = [holder EXCEPT ![request[q].kind] = q] /\ Moves(q, "read")
  /\ UNCHANGED <<saved, profile, bundle, late, wrote, meddled, edits, crashes>>
\* What is there is compared with what the phone confirmed; agents_update compares a
\* SOUL it replaces, and has no lock.
Matches(q) == saved[FileOf(q)] = request[q].expected
Compare(q) ==
  /\ At(q, "read")
  /\ IF request[q].kind = "agent"
     THEN /\ Moves(q, IF request[q].soul /\ ~Matches(q) THEN "conflict" ELSE "meta") /\ UNCHANGED holder
     ELSE IF Matches(q) THEN Moves(q, "write") /\ UNCHANGED holder
     ELSE Moves(q, "conflict") /\ Lets(q)
  /\ UNCHANGED <<saved, profile, bundle, late, wrote, meddled, edits, crashes>>
\* set_enabled, _skill_update: Hermes writes, or raises having written or not.
Write(q, written, raised) ==
  /\ At(q, "write") /\ (written \/ raised)
  /\ IF written THEN Writes(q) ELSE UNCHANGED <<saved, wrote, meddled>>
  /\ IF q \in late THEN Moves(q, "gone") /\ late' = late \ {q} /\ UNCHANGED holder
     ELSE /\ Moves(q, IF raised THEN "unconfirmed" ELSE "verify") /\ UNCHANGED late
          /\ IF raised THEN Lets(q) ELSE UNCHANGED holder
  /\ UNCHANGED <<profile, bundle, edits, crashes>>
\* It is read back under the lock.
Verify(q) ==
  /\ At(q, "verify") /\ Lets(q)
  /\ Moves(q, IF saved[FileOf(q)] = request[q].value THEN "saved" ELSE "unconfirmed")
  /\ UNCHANGED <<saved, profile, bundle, late, wrote, meddled, edits, crashes>>

\* _update_profile, in a thread: the description first, then the SOUL, compared again.
Describe(q) ==
  /\ At(q, "meta") /\ profile' = q /\ Moves(q, IF request[q].soul THEN "recheck" ELSE "saved")
  /\ UNCHANGED <<saved, bundle, holder, late, wrote, meddled, edits, crashes>>
Recheck(q) ==
  /\ At(q, "recheck") /\ Moves(q, IF Matches(q) THEN "replace" ELSE "conflict")
  /\ UNCHANGED <<saved, profile, bundle, holder, late, wrote, meddled, edits, crashes>>
Replace(q) ==
  /\ At(q, "replace") /\ Writes(q) /\ Moves(q, "saved")
  /\ UNCHANGED <<profile, bundle, holder, late, edits, crashes>>

\* _skill_import_bundle: Hermes refuses a name in use; files, then the scan; a failure
\* removes the bundle by its name.
Create(q) ==
  /\ At(q, "create")
  /\ IF bundle = NoBundle THEN bundle' = [by |-> q, at |-> "created"] /\ Moves(q, "files")
     ELSE Moves(q, "refused") /\ UNCHANGED bundle
  /\ UNCHANGED <<saved, profile, holder, late, wrote, meddled, edits, crashes>>
Place(q, ok) ==
  /\ At(q, "files") /\ Moves(q, IF ok THEN "scan" ELSE "remove")
  /\ bundle' = IF ok THEN [bundle EXCEPT !.at = "whole"] ELSE bundle
  /\ UNCHANGED <<saved, profile, holder, late, wrote, meddled, edits, crashes>>
Scan(q, ok) ==
  /\ At(q, "scan") /\ Moves(q, IF ok THEN "saved" ELSE "remove")
  /\ bundle' = IF ok THEN [bundle EXCEPT !.at = "scanned"] ELSE bundle
  /\ UNCHANGED <<saved, profile, holder, late, wrote, meddled, edits, crashes>>
Remove(q) ==
  /\ At(q, "remove") /\ bundle' = NoBundle /\ Moves(q, "refused")
  /\ UNCHANGED <<saved, profile, holder, late, wrote, meddled, edits, crashes>>

-----------------------------------------------------------------------------
\* The request is cancelled: its locks go, a write already handed to a thread does not.
Cancel(q) ==
  /\ request[q].at \in {"wait", "read", "write", "verify"} /\ q \notin late /\ request[q].kind \in Locked
  /\ Lets(q)
  /\ IF At(q, "write") THEN late' = late \cup {q} /\ UNCHANGED request
     ELSE Moves(q, "gone") /\ UNCHANGED late
  /\ UNCHANGED <<saved, profile, bundle, wrote, meddled, edits, crashes>>
\* The host's owner edits a file.
Edit(f, v) ==
  /\ edits < MaxEdits /\ edits' = edits + 1 /\ v # saved[f] /\ saved' = [saved EXCEPT ![f] = v]
  /\ meddled' = meddled \cup {p \in Requests : FileOf(p) = f /\ request[p].at \in {"write", "replace"}}
  /\ UNCHANGED <<profile, bundle, holder, request, late, wrote, crashes>>
\* Hermes dies.
Crash ==
  /\ crashes < MaxCrashes /\ crashes' = crashes + 1 /\ late' = {}
  /\ holder' = [k \in Locked |-> NoRequest]
  /\ request' = [q \in Requests |-> IF request[q].at \in {"saved", "conflict", "unconfirmed", "refused", "new"}
                                    THEN request[q] ELSE [request[q] EXCEPT !.at = "gone"]]
  /\ UNCHANGED <<saved, profile, bundle, wrote, meddled, edits>>

EditsNext ==
  \/ \E q \in Requests :
       \/ \E kind \in Locked \cup {"agent", "import"}, expected, value \in Values, soul \in BOOLEAN :
            Begin(q, kind, expected, value, soul)
       \/ Lock(q) \/ Compare(q) \/ Verify(q) \/ Describe(q) \/ Recheck(q) \/ Replace(q)
       \/ Create(q) \/ Remove(q) \/ Cancel(q)
       \/ \E written, raised \in BOOLEAN : Write(q, written, raised)
       \/ \E ok \in BOOLEAN : Place(q, ok) \/ Scan(q, ok)
  \/ \E f \in Files, v \in Values : Edit(f, v)
  \/ Crash

-----------------------------------------------------------------------------
\* What a request replaces is what its phone confirmed, unless somebody wrote in between:
\* the owner, a request cancelled while it wrote, or (of a SOUL, which has no lock) another
\* request.  Two phones never overwrite each other's capability or skill.
ConfirmedIsReplaced ==
  \A q \in Requests :
    /\ wrote[q] # NoWrite /\ wrote[q] # <<request[q].expected>> => q \in meddled
    /\ q \in meddled \ late /\ FileOf(q) \in Locked => edits > 0 \/ \E p \in Requests : At(p, "gone")

\* A bundle said to be imported is there, whole and scanned; one that was not is removed, and
\* only by the request that put it there, unless Hermes died before it could be.
BundlesAreScanned ==
  /\ \A q \in Requests : request[q].kind = "import" /\ At(q, "saved") => bundle = [by |-> q, at |-> "scanned"]
  /\ bundle # NoBundle /\ crashes = 0 =>
       \E q \in Requests : bundle.by = q /\ request[q].at \in {"saved", "files", "scan", "remove"}
===============================================================================
