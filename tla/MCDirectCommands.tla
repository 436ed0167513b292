--------------------------- MODULE MCDirectCommands ---------------------------
(***************************************************************************)
(* What a phone asks of its host: commands over the direct connection, the  *)
(* files of messages, and the files it sends with turns.  A run's first     *)
(* state chooses whose steps it takes (focus); the three share no state.    *)
(*                                                                         *)
(* q1 and q2 are requests of one command, q3 is one of another; the clock's *)
(* unit stands for half the allowance of the window.  Of the messages, i1   *)
(* names two files or, in the text of another route, one; i2 names one.  A  *)
(* long upload and a short one; one turn has the first, another has both.   *)
(***************************************************************************)
EXTENDS DirectCommands, TLC

CONSTANTS q1, q2, q3, k1, k2, c1, c2, r1, r2, i1, i2, NoFile, NoItem

MCCommandOf == [q \in Requests |-> IF q = q3 THEN k2 ELSE k1]
MCIssuedAt == [q \in Requests |-> IF q = q2 THEN 1 ELSE 0]
Symmetry == Permutations(Connections) \cup Permutations({r1, r2})

VARIABLES
  focus,
  \* Attachments: the cache, the inbox
  disk, stored, messages, resolver, handed, download, artifacts, asks, edits, failures,
  frames, inbox, frame, waiting, calling, working, refused, finished, spoiled, troubles

\* Two files fit the cache, but not two of the larger kind.
A == INSTANCE Attachments WITH
       Resolvers <- {r1, r2}, Items <- {i1, i2}, Texts <- {"both", "one"}, Files <- {"f", "g"},
       TextsOf <- [i \in {i1, i2} |-> IF i = i1 THEN {"both", "one"} ELSE {"one"}],
       PathsOf <- [t \in {"both", "one"} |-> IF t = "both" THEN <<"f", "g">> ELSE <<"g">>],
       SizeOf <- [old |-> 2, new |-> 3, huge |-> 4],
       MaxArtifacts <- 2, MaxStored <- 5, MaxSize <- 3, MaxPerItem <- 2, Chunk <- 1,
       MaxAsks <- 3, MaxEdits <- 1, MaxFails <- 1,
       Absent <- NoFile, None <- NoItem, rows <- stored, fails <- failures,
       Uploads <- {"long", "short"}, Sent <- {"x", "y"}, Turns <- {"x", "xy"},
       SentAs <- [long |-> "x", short |-> "y"], CountOf <- [long |-> 3, short |-> 1],
       SentWith <- [x |-> {"x"}, xy |-> {"x", "y"}],
       MaxFrames <- 5, MaxTroubles <- 2

fileVars == <<disk, stored, messages, resolver, handed, download, artifacts, asks, edits, failures>>
inboxVars ==
  <<frames, inbox, frame, waiting, calling, working, refused, finished, spoiled, troubles>>
allVars == <<focus, vars, fileVars, inboxVars>>

ASSUME A!CacheAssumption /\ A!InboxAssumption

Begins ==
  /\ focus \in {"commands", "files", "uploads"} /\ Init /\ A!CacheInit /\ A!InboxInit
  /\ focus = "files" \/ disk = [f |-> "old", g |-> "old"]
Step ==
  \/ focus = "commands" /\ Next /\ UNCHANGED <<focus, fileVars, inboxVars>>
  \/ focus = "files" /\ A!CacheNext /\ UNCHANGED <<focus, vars, inboxVars>>
  \/ focus = "uploads" /\ A!InboxNext /\ UNCHANGED <<focus, vars, fileVars>>
Runs == Begins /\ [][Step]_allVars

-----------------------------------------------------------------------------
\* Attachments: the cache keeps to its limits, one file of a message has one identity,
\* downloads are of one content, and projections go with the artifacts they had; a turn is
\* refused for its files only if one did not arrive, and they outlive its callback.
FilesKept ==
  /\ [](focus = "files" =>
         A!CacheTypeOK /\ A!CacheBounded /\ A!OneIdentity /\ A!DownloadIsWhole)
  /\ A!ProjectionsFollow
  /\ [](focus = "uploads" => A!InboxTypeOK /\ A!ArrivedIsAccepted /\ A!FilesOutlive)

\* What PROTOCOL.md promises of an eviction, where the files are asked for.
FileRuns == Begins /\ focus = "files" /\ [][Step]_allVars
EvictedTogether == A!EvictedTogether
===============================================================================
