------------------------------ MODULE Marketplace ------------------------------
(***************************************************************************)
(* What an agent is made of: the templates its user saves (agent_templates.py)*)
(* and the reviewed skills installed into it (marketplace.py).  The two share*)
(* no state; both act on files that others write.                           *)
(***************************************************************************)
EXTENDS Naturals, FiniteSets

-----------------------------------------------------------------------------
(***************************************************************************)
(* Saving an agent template: agent_templates.py.  A template is a JSON     *)
(* file under the agent's own workspace, so the agent, and anything else   *)
(* that runs there, can write it without the advisory lock requests take.  *)
(* A request names the revision its author read; its check, its replace    *)
(* and its readback are separate steps of a thread, during which the       *)
(* process may die or the native context may change.                       *)
(*                                                                         *)
(* A revision is a digest of the document, and is taken for it.  The       *)
(* module follows one template identifier.                                 *)
(***************************************************************************)

CONSTANTS
  Requests,
  Sources, Bodies,      \* provenance of a document, and the rest of it
  NoFile,
  MaxContexts, MaxIntrusions, MaxDeaths    \* bounds of the model

TemplateAssumption ==
  /\ {MaxContexts, MaxIntrusions, MaxDeaths} \subseteq Nat
  /\ NoFile \notin Sources \X Bodies

VARIABLES
  template,    \* the file of the template
  holders,     \* requests that hold .lock exclusively
  requests,
  read,        \* history: the documents some author has been shown
  context,     \* revision of the native context
  intrusions, deaths

templateVars == <<template, holders, requests, read, context, intrusions, deaths>>

-----------------------------------------------------------------------------
Documents == Sources \X Bodies
SaveSteps == {"idle", "received", "checked", "replaced", "decided"}
Outcomes == {"none", "saved", "conflict", "changed", "failed", "context"}
Fresh == [at |-> "idle", base |-> NoFile, document |-> NoFile, context |-> 0,
          disturbed |-> FALSE, outcome |-> "none"]
Source(document) == document[1]
Reached(r, step) == requests[r].at = step
(* An error leaves the lock and is answered once the context is checked.    *)
Decide(r, outcome) ==
  /\ requests' = [requests EXCEPT ![r].at = "decided", ![r].outcome = outcome]
  /\ holders' = holders \ {r}

(* list, read: under the shared lock.                                       *)
Read ==
  /\ holders = {} /\ template # NoFile
  /\ read' = read \cup {template}
  /\ UNCHANGED <<template, holders, requests, context, intrusions, deaths>>

(* _request and _normalize_document: expectedRevision is of a document its  *)
(* author was shown, or absent for a new template.                          *)
Receive(r, base, document) ==
  /\ Reached(r, "idle") /\ requests[r].outcome = "none" /\ base \in read \cup {NoFile}
  /\ requests' = [requests EXCEPT ![r] = [Fresh EXCEPT !.at = "received", !.base = base,
                                          !.document = document, !.context = context]]
  /\ UNCHANGED <<template, holders, read, context, intrusions, deaths>>

\* Mutant: a save takes the lock the readers take.
LockShared == TRUE

(* _locked, exclusive                                                       *)
Lock == holders = {}

(* The first half of _write_file: the revision and the provenance.          *)
Acceptable(r) ==
  /\ template = requests[r].base
  /\ template # NoFile => Source(template) = Source(requests[r].document)

Check(r) ==
  /\ Reached(r, "received") /\ Lock
  /\ \/ /\ Acceptable(r)
        /\ holders' = holders \cup {r}
        /\ requests' = [requests EXCEPT ![r].at = "checked", ![r].disturbed = FALSE]
     \/ ~Acceptable(r) /\ Decide(r, "conflict")
  /\ UNCHANGED <<template, read, context, intrusions, deaths>>

(* The second half: a temporary file, then os.replace.  The directory may   *)
(* fail to sync after it.                                                   *)
Replace(r) ==
  /\ Reached(r, "checked") /\ template' = requests[r].document
  /\ \/ requests' = [requests EXCEPT ![r].at = "replaced"]
        /\ UNCHANGED holders
     \/ Decide(r, "failed")
  /\ UNCHANGED <<read, context, intrusions, deaths>>

WriteFails(r) ==
  /\ Reached(r, "checked") /\ Decide(r, "failed")
  /\ UNCHANGED <<template, read, context, intrusions, deaths>>

(* Exact readback, still under the lock.                                    *)
ReadsBack(r) == template = requests[r].document

Readback(r) ==
  /\ Reached(r, "replaced") /\ Decide(r, IF ReadsBack(r) THEN "saved" ELSE "changed")
  /\ UNCHANGED <<template, read, context, intrusions, deaths>>

(* The answer: a changed context hides what the save did.                   *)
Answer(r) ==
  /\ Reached(r, "decided")
  /\ requests' = [requests EXCEPT ![r].at = "idle",
                    ![r].outcome = IF @ = "saved" /\ requests[r].context # context
                                   THEN "context" ELSE @]
  /\ read' = IF requests'[r].outcome = "saved" THEN read \cup {requests[r].document} ELSE read
  /\ UNCHANGED <<template, holders, context, intrusions, deaths>>

-----------------------------------------------------------------------------
(* A program of the workspace writes, or removes, the file.                 *)
Intrude(document) ==
  /\ intrusions < MaxIntrusions /\ intrusions' = intrusions + 1
  /\ document # template /\ template' = document
  /\ requests' = [r \in Requests |-> [requests[r] EXCEPT !.disturbed = TRUE]]
  /\ UNCHANGED <<holders, read, context, deaths>>

ChangeContext ==
  /\ context < MaxContexts /\ context' = context + 1
  /\ UNCHANGED <<template, holders, requests, read, intrusions, deaths>>

(* The process dies: its locks are released, its requests get no answer.    *)
ServerDies ==
  /\ deaths < MaxDeaths /\ deaths' = deaths + 1
  /\ holders' = {}
  /\ requests' = [r \in Requests |->
                    IF Reached(r, "idle") THEN requests[r]
                    ELSE [requests[r] EXCEPT !.at = "idle", !.outcome = "failed"]]
  /\ UNCHANGED <<template, read, context, intrusions>>

-----------------------------------------------------------------------------
TemplateInit ==
  /\ template = NoFile /\ holders = {} /\ requests = [r \in Requests |-> Fresh] /\ read = {}
  /\ context = 0 /\ intrusions = 0 /\ deaths = 0

TemplateNext ==
  \/ Read \/ ChangeContext \/ ServerDies
  \/ \E r \in Requests :
       \/ Check(r) \/ Replace(r) \/ WriteFails(r) \/ Readback(r) \/ Answer(r)
       \/ \E base \in Documents \cup {NoFile}, document \in Documents : Receive(r, base, document)
  \/ \E document \in Documents \cup {NoFile} : Intrude(document)

TemplateSpec == TemplateInit /\ [][TemplateNext]_templateVars

-----------------------------------------------------------------------------
(* Type invariant. *)
TemplateTypeOK ==
  /\ template \in Documents \cup {NoFile} /\ holders \subseteq Requests
  /\ requests \in [Requests -> [at : SaveSteps, base : Documents \cup {NoFile},
                                document : Documents \cup {NoFile}, context : 0 .. MaxContexts,
                                disturbed : BOOLEAN, outcome : Outcomes]]
  /\ read \subseteq Documents /\ context \in 0 .. MaxContexts
  /\ intrusions \in 0 .. MaxIntrusions /\ deaths \in 0 .. MaxDeaths

(* A save replaces the revision its author had read, or nothing, and keeps  *)
(* the provenance, whatever other saves run beside it: the only thing it    *)
(* can overwrite unread is what a program of the workspace wrote between    *)
(* its check and its replace.                                               *)
SavedOverRead ==
  [][\A r \in Requests :
       /\ Reached(r, "checked") /\ ~requests[r].disturbed
       /\ requests'[r].at # "checked" /\ template' # template
       => Acceptable(r)]_templateVars

-----------------------------------------------------------------------------
(***************************************************************************)
(* Installing a reviewed release of a marketplace skill into an agent:     *)
(* MarketplaceSkillInstaller of marketplace.py, and the receipts of        *)
(* store.py.  The installation is made by Hermes' own command line, once   *)
(* the approval is redeemed and the release verified; the plugin asks it   *)
(* what is there before and after, and keeps a receipt.  No lock spans     *)
(* these steps: other installs, and the user, come between them.           *)
(*                                                                         *)
(* The module follows one agent profile.                                   *)
(***************************************************************************)

CONSTANTS
  Installs,             \* requests of the phone
  Items, ItemOf,        \* [Installs -> Items]
  Versions, VersionOf,  \* [Installs -> Versions]: immutable releases of an item
  Names, NameOf,        \* [Items -> Names]: the name its SKILL.md gives
  MaxMeddling, MaxCrashes    \* bounds of the model

MarketplaceAssumption ==
  /\ ItemOf \in [Installs -> Items] /\ VersionOf \in [Installs -> Versions]
  /\ NameOf \in [Items -> Names] /\ {MaxMeddling, MaxCrashes} \subseteq Nat

VARIABLES
  skills,      \* what Hermes lists under each name (external)
  receipts,    \* marketplace_skill_installs
  install,     \* step each request has reached
  placed,      \* history: releases an install of this host has put in place
  answered,    \* history: requests answered "installed"
  meddling, crashes

marketVars == <<skills, receipts, install, placed, answered, meddling, crashes>>

-----------------------------------------------------------------------------
Releases == Items \X Versions
Absent == <<>>
Local == <<"local">>      \* a skill the Hub did not install
Release(q) == <<ItemOf[q], VersionOf[q]>>
Name(q) == NameOf[ItemOf[q]]
None == <<>>
At(q, step) == install[q] = step
Goes(q, step) == install' = [install EXCEPT ![q] = step]
(* contains(source="hub") and contains(source="all")                        *)
InHub(name) == skills[name] \notin {Absent, Local}
Listed(name) == skills[name] # Absent
Steps == {"idle", "recorded", "unknown", "fetched", "vacant", "run", "verified", "done"}

(* install: the receipt of the item is read first.  A different release is  *)
(* refused.                                                                 *)
Begin(q) ==
  /\ At(q, "idle")
  /\ LET receipt == receipts[ItemOf[q]] IN
     Goes(q, IF receipt = None THEN "unknown"
             ELSE IF receipt = Release(q) THEN "recorded" ELSE "done")
  /\ UNCHANGED <<skills, receipts, placed, answered, meddling, crashes>>

(* The release is recorded: is it still there?                              *)
Present(q) ==
  /\ At(q, "recorded")
  /\ IF InHub(Name(q)) THEN Goes(q, "done") /\ answered' = answered \cup {q}
                       ELSE Goes(q, "unknown") /\ UNCHANGED answered
  /\ UNCHANGED <<skills, receipts, placed, meddling, crashes>>

(* redeem_and_fetch_skill: approval, signed manifest, artifact digest.      *)
Fetch(q) ==
  /\ At(q, "unknown") /\ Goes(q, "fetched")
  /\ UNCHANGED <<skills, receipts, placed, answered, meddling, crashes>>

Vacant(q) ==
  /\ At(q, "fetched") /\ Goes(q, IF Listed(Name(q)) THEN "done" ELSE "vacant")
  /\ UNCHANGED <<skills, receipts, placed, answered, meddling, crashes>>

(* The command line installs what no skill stands in the way of.            *)
Placed(q) ==
  /\ ~Listed(Name(q))
  /\ skills' = [skills EXCEPT ![Name(q)] = Release(q)] /\ placed' = placed \cup {Release(q)}

(* Its output is read: exit code, "already installed", "blocked", one       *)
(* "Installed:" line.                                                       *)
Counts(q) == skills'[Name(q)] = Release(q) /\ ~Listed(Name(q))

RunHub(q) ==
  /\ At(q, "vacant")
  /\ Placed(q) \/ UNCHANGED <<skills, placed>>
  /\ Goes(q, IF Counts(q) THEN "run" ELSE "done")
  /\ UNCHANGED <<receipts, answered, meddling, crashes>>

(* ... which dies, or outlives its 90 seconds, having installed or not.     *)
HubLost(q) ==
  /\ At(q, "vacant") /\ Placed(q) /\ Goes(q, "done")
  /\ UNCHANGED <<receipts, answered, meddling, crashes>>

Verify(q) ==
  /\ At(q, "run") /\ Goes(q, IF InHub(Name(q)) THEN "verified" ELSE "done")
  /\ UNCHANGED <<skills, receipts, placed, answered, meddling, crashes>>

Taken(q) == \E i \in Items \ {ItemOf[q]} : receipts[i] # None /\ NameOf[i] = Name(q)

(* record_marketplace_skill_install                                         *)
Record(q) ==
  /\ At(q, "verified") /\ Goes(q, "done")
  /\ IF Taken(q) THEN UNCHANGED <<receipts, answered>>
     ELSE /\ receipts' = [receipts EXCEPT ![ItemOf[q]] = Release(q)]
          /\ answered' = answered \cup {q}
  /\ UNCHANGED <<skills, placed, meddling, crashes>>

(* A request that waits fails: the gateway or the command line is not there,*)
(* the approval is spent, the release does not verify.                      *)
Fail(q) ==
  /\ install[q] \notin {"idle", "done"} /\ Goes(q, "done")
  /\ UNCHANGED <<skills, receipts, placed, answered, meddling, crashes>>

-----------------------------------------------------------------------------
(* The user removes a skill, or writes one of the name.                     *)
Meddle(name) ==
  /\ meddling < MaxMeddling /\ meddling' = meddling + 1
  /\ skills' = [skills EXCEPT ![name] = IF @ = Absent THEN Local ELSE Absent]
  /\ UNCHANGED <<receipts, install, placed, answered, crashes>>

Crash ==
  /\ crashes < MaxCrashes /\ crashes' = crashes + 1
  /\ install' = [q \in Installs |-> IF At(q, "idle") THEN "idle" ELSE "done"]
  /\ UNCHANGED <<skills, receipts, placed, answered, meddling>>

-----------------------------------------------------------------------------
MarketInit ==
  /\ skills = [n \in Names |-> Absent] /\ receipts = [i \in Items |-> None]
  /\ install = [q \in Installs |-> "idle"] /\ placed = {} /\ answered = {}
  /\ meddling = 0 /\ crashes = 0

MarketNext ==
  \/ \E q \in Installs : \/ Begin(q) \/ Present(q) \/ Fetch(q) \/ Vacant(q) \/ RunHub(q)
                         \/ HubLost(q) \/ Verify(q) \/ Record(q) \/ Fail(q)
  \/ \E name \in Names : Meddle(name)
  \/ Crash

MarketSpec == MarketInit /\ [][MarketNext]_marketVars

-----------------------------------------------------------------------------
(* Type invariant. *)
MarketTypeOK ==
  /\ \A n \in Names : skills[n] \in {Absent, Local} \/ skills[n] \in Releases
  /\ receipts \in [Items -> Releases \cup {None}]
  /\ install \in [Installs -> Steps] /\ placed \subseteq Releases /\ answered \subseteq Installs
  /\ meddling \in 0 .. MaxMeddling /\ crashes \in 0 .. MaxCrashes

(* A receipt, and an answer "installed", names a release this host itself   *)
(* put in place - never a skill of the same name that was in the way - and  *)
(* no two receipts claim the same name.                                     *)
ReceiptsEarned ==
  /\ \A i \in Items : receipts[i] # None => receipts[i] \in placed
  /\ \A q \in answered : Release(q) \in placed
  /\ \A i, j \in Items : i # j /\ receipts[i] # None /\ receipts[j] # None => NameOf[i] # NameOf[j]
================================================================================
