----------------------------- MODULE MCPhoneRequests ----------------------------
(***************************************************************************)
(* What a phone asks the host to keep, change or show, one component at a   *)
(* time: a run's first state chooses whose steps it takes (focus).  Each    *)
(* save of a page proposes a content of its own; three requests install two *)
(* versions of one item of the marketplace and another item of the same     *)
(* name.                                                                    *)
(***************************************************************************)
EXTENDS WikiSaves, Sequences

CONSTANTS s1, s2, a, b, f1, k1, k2, v1, v2, t1, t2, r1, r2, p1, p2, q1, q2, q3, i1, i2, NoFile, NoRequest, NoAsk

MCProposed == [s \in Saves |-> IF s = s1 THEN a ELSE b]

VARIABLES
  focus,
  \* PhoneQuestions: forms, clarifications, pickers
  forms, threads, now, accepted, given, ended,
  status, dismissed, prompted, frame, abandon, cards, calls, made, askCrashes, askFaults, job,
  gateway, answering, heard,
  opens, waiting, calling, requested, pickers, sending, delivered, offered, picked, connection,
  \* Marketplace
  template, holders, requests, read, context, intrusions, templateCrashes,
  skills, receipts, install, placed, answered, meddling, hostCrashes,
  \* Workspaces: Git, files
  tree, index, local, tracking, remote, seen, confirmation, ledger, attempt, gitIntrusions,
  failures, gitCrashes, performed,
  place, node, parts, fileWrites, fileGrant, grants, reader, pages, past,
  \* ChatSessions: directories
  exists, cwd, override, kept, lane, queued, running, waits, chosen, settled, choices, laneFaults,
  \* HostEdits
  saved, profile, bundle, editor, edit, late, wrote, meddled, edits, editCrashes,
  \* ChatSessions: forks
  source, fork, row, busy, ask, ready, asks, rewinds, forkCrashes,
  \* SessionPages
  raw, undone, session, drafts, pager, assembled, answer, reads

Q == INSTANCE PhoneQuestions WITH
       Forms <- {f1}, Keys <- {k1, k2}, Values <- {v1, v2}, Threads <- {t1, t2},
       Lifetime <- 1, MaxTime <- 2,
       Asks <- {q1}, Answers <- {"yes", "no"}, NoAnswer <- "none",
       MaxCalls <- 3, MaxCrashes <- 1, MaxFaults <- 1,
       arrivals <- cards, crashes <- askCrashes, faults <- askFaults, told <- heard,
       Phones <- {p1, p2}, Requests <- {1}, Choices <- {"u", "v"}, AskedBy <- [r \in {1} |-> p1],
       MaxOpens <- 2, MaxReconnects <- 1, Capacity <- 1,
       pending <- requested, active <- pickers, ready <- delivered, chosen <- picked
M == INSTANCE Marketplace WITH
       Requests <- {r1, r2}, Sources <- {p1, p2}, Bodies <- {b},
       MaxContexts <- 1, MaxIntrusions <- 1, MaxDeaths <- 1, deaths <- templateCrashes,
       Installs <- {q1, q2, q3}, Items <- {i1, i2}, Versions <- {1, 2}, Names <- {"name"},
       ItemOf <- [q \in {q1, q2, q3} |-> IF q = q3 THEN i2 ELSE i1],
       VersionOf <- [q \in {q1, q2, q3} |-> IF q = q2 THEN 2 ELSE 1],
       NameOf <- [i \in {i1, i2} |-> "name"],
       MaxMeddling <- 2, MaxCrashes <- 1, crashes <- hostCrashes
G == INSTANCE Workspaces WITH
       Confirmations <- {"c"}, Keys <- {"k"}, Attempts <- {r1, r2}, KeyOf <- [r \in {r1, r2} |-> "k"],
       Secret <- {2}, MaxIntrusions <- 1, MaxFailures <- 1, MaxCrashes <- 1,
       intrusions <- gitIntrusions, crashes <- gitCrashes,
       Dirs <- {1, 2}, Granted <- 1, Other <- 2, SecretParts <- {6}, MaxWrites <- 2, MaxGrants <- 2,
       writes <- fileWrites, grant <- fileGrant, phone <- pages
W == INSTANCE ChatSessions WITH
       Lanes <- {1}, Cwds <- {"a", "b"}, NoCwd <- "none", MaxRequests <- 5, MaxFaults <- 2,
       row <- cwd, requests <- choices, faults <- laneFaults,
       Askers <- {1}, Texts <- {"x", "y"}, MaxMessages <- 3, MaxRewinds <- 1, MaxAsks <- 2,
       MaxCrashes <- 1, forkRow <- row, crashes <- forkCrashes
E == INSTANCE HostEdits WITH
       Requests <- {r1, r2}, Values <- {1, 2}, MaxEdits <- 1, MaxCrashes <- 1,
       holder <- editor, request <- edit, crashes <- editCrashes
P == INSTANCE SessionPages WITH
       Messages <- {"m"}, PageRows <- 1, MaxRows <- 3, MaxReads <- 2, MaxRewinds <- 1,
       rewinds <- undone, live <- drafts, reader <- pager, phone <- assembled

formVars == <<forms, threads, now, accepted, given, ended>>
templateVars == <<template, holders, requests, read, context, intrusions, templateCrashes>>
marketVars == <<skills, receipts, install, placed, answered, meddling, hostCrashes>>
gitVars == <<tree, index, local, tracking, remote, seen, confirmation, ledger, attempt,
  gitIntrusions, failures, gitCrashes, performed>>
filesVars == <<place, node, parts, fileWrites, fileGrant, grants, reader, pages, past>>
choiceVars == <<exists, cwd, override, kept, lane, queued, running, waits, chosen, settled, choices,
  laneFaults>>
editVars == <<saved, profile, bundle, editor, edit, late, wrote, meddled, edits, editCrashes>>
forkVars == <<source, fork, row, busy, ask, ready, asks, rewinds, forkCrashes>>
pickerVars == <<opens, waiting, calling, requested, pickers, sending, delivered, offered, picked,
  connection>>
clarifyVars == <<status, dismissed, prompted, frame, abandon, cards, calls, made, askCrashes,
  askFaults, job, gateway, answering, heard>>
pageVars == <<raw, undone, session, drafts, pager, assembled, answer, reads>>
keptVars == <<formVars, templateVars, marketVars>>
workspaceVars == <<gitVars, filesVars, choiceVars, editVars, forkVars>>
askedVars == <<pickerVars, clarifyVars, pageVars>>
allVars == <<focus, saveVars, keptVars, workspaceVars, askedVars>>

ASSUME /\ Q!FormAssumption /\ M!TemplateAssumption /\ M!MarketplaceAssumption
       /\ G!GitAssumption /\ G!FilesAssumption /\ W!WorkspaceAssumption
       /\ E!EditsAssumption /\ W!ForkAssumption
       /\ Q!PickerAssumption /\ Q!ClarifyAssumption /\ P!PagesAssumption

-----------------------------------------------------------------------------
Begins ==
  /\ focus \in {"saves", "forms", "templates", "marketplace", "git", "files", "choices", "edits",
                 "forks", "pickers", "clarify", "pages"}
  /\ SavesInit /\ Q!FormInit /\ M!TemplateInit /\ M!MarketInit
  /\ G!GitInit /\ G!FilesInit /\ W!WorkspaceInit /\ E!EditsInit /\ W!ForkInit
  /\ Q!PickerInit /\ Q!ClarifyInit /\ P!PagesInit
  /\ focus = "saves" \/ file.content = Nothing
  /\ focus = "git" \/ (local = <<>> /\ remote = <<>> /\ tree = index)

Keeps ==
  \/ focus = "forms" /\ Q!FormNext /\ UNCHANGED <<templateVars, marketVars>>
  \/ focus = "templates" /\ M!TemplateNext /\ UNCHANGED <<formVars, marketVars>>
  \/ focus = "marketplace" /\ M!MarketNext /\ UNCHANGED <<formVars, templateVars>>
Works ==
  \/ focus = "git" /\ G!GitNext /\ UNCHANGED <<filesVars, choiceVars, editVars, forkVars>>
  \/ focus = "files" /\ G!FilesNext /\ UNCHANGED <<gitVars, choiceVars, editVars, forkVars>>
  \/ focus = "choices" /\ W!WorkspaceNext /\ UNCHANGED <<gitVars, filesVars, editVars, forkVars>>
  \/ focus = "edits" /\ E!EditsNext /\ UNCHANGED <<gitVars, filesVars, choiceVars, forkVars>>
  \/ focus = "forks" /\ W!ForkNext /\ UNCHANGED <<gitVars, filesVars, choiceVars, editVars>>
Asks ==
  \/ focus = "pickers" /\ Q!PickerNext /\ UNCHANGED <<clarifyVars, pageVars>>
  \/ focus = "clarify" /\ Q!ClarifyNext /\ UNCHANGED <<pickerVars, pageVars>>
  \/ focus = "pages" /\ P!PagesNext /\ UNCHANGED <<pickerVars, clarifyVars>>
Steps ==
  /\ UNCHANGED focus
  /\ \/ focus = "saves" /\ SavesNext /\ UNCHANGED <<keptVars, workspaceVars, askedVars>>
     \/ Keeps /\ UNCHANGED <<saveVars, workspaceVars, askedVars>>
     \/ Works /\ UNCHANGED <<saveVars, keptVars, askedVars>>
     \/ Asks /\ UNCHANGED <<saveVars, keptVars, workspaceVars>>

Runs == Begins /\ [][Steps]_allVars

-----------------------------------------------------------------------------
\* The properties of the instances include the types of their variables.

\* PhoneQuestions and Marketplace: of all that is submitted to a form,
\* one submission is accepted and handed over; a save replaces the revision its author had
\* read, or nothing; a receipt names a release this host itself put in place.
KeptAsAsked ==
  /\ [](Q!FormTypeOK /\ Q!OneAnswer)
  /\ []M!TemplateTypeOK /\ M!SavedOverRead
  /\ [](M!MarketTypeOK /\ M!ReceiptsEarned)

\* Workspaces: Git is started on what the phone confirmed, and answers
\* say what it did; the pages of a file or a directory are of one moment, under a grant that
\* stood.
WorkspaceTrue ==
  /\ [](G!GitTypeOK /\ G!PerformedAsConfirmed /\ G!AnswersTrue)
  /\ [](G!FilesTypeOK /\ G!OneMoment) /\ G!GrantStood

\* ChatSessions and HostEdits: the directory chosen last is the session's;
\* an edit replaces what its phone had seen, and skills from bundles are scanned; a fork
\* holds what the phone saw, and loses nothing that is said in it.
EditsKept ==
  /\ [](W!WorkspaceTypeOK /\ W!ChoiceStands)
  /\ [](E!EditsTypeOK /\ E!ConfirmedIsReplaced /\ E!BundlesAreScanned)
  /\ [](W!ForkTypeOK /\ W!ForkHoldsWhatWasSeen) /\ W!ForkLosesNothing

\* PhoneQuestions and SessionPages: a picker is answered once and by the phone that
\* asked; a clarification is in the chat before its card is recorded, and its card is not
\* repeated once sent; the pages of a chat join, and show each message once.
ShownAndAskedOnce ==
  /\ [](Q!PickerTypeOK /\ Q!ChosenOnce)
  /\ [](Q!ClarifyTypeOK /\ Q!PromptComesFirst /\ Q!SentIsNotRepeated)
  /\ [](P!PagesTypeOK /\ P!ShownOnce) /\ P!PagesJoin /\ P!PagesAreNew
================================================================================
