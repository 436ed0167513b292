------------------------------ MODULE Attachments ------------------------------
(***************************************************************************)
(* Files on their way between the phone and the agent.                      *)
(*                                                                         *)
(* The cache (attachments.py) holds what agents sent.  A phone, or a page   *)
(* of the dashboard, asks for the files a message names: each is read once  *)
(* and kept as an artifact under an identity of its own, the message's      *)
(* projection lists those identities, and the phone downloads them in       *)
(* chunks.  Threads and processes of one profile share the tables; each     *)
(* statement outside the lock, and each block under it, is one step.        *)
(* Left out: the gateway's policy on paths (a text names the files it may   *)
(* deliver), names and MIME types, empty files (kept, but the Link does not *)
(* list them), clocks that run backwards (rows are as old as their place).  *)
(*                                                                         *)
(* The inbox (link_attachments.py) holds what phones send with a turn: the  *)
(* chunks of an upload, then the turn that names its file, as frames of the *)
(* Link.  Frames are parsed as they are read and journaled when their       *)
(* callback is done; until the relay has a frame's receipt it delivers it   *)
(* again.  Left out: uploads over Direct, whose commands are dispatched     *)
(* once, and an upload that changes its metadata or a chunk its bytes.      *)
(***************************************************************************)
EXTENDS Naturals, Sequences, FiniteSets
LOCAL INSTANCE SequencesExt

CONSTANTS
  Resolvers,       \* threads and processes that resolve
  Items, Texts, Files,
  TextsOf,         \* [Items -> SUBSET Texts]: the routes hand over different texts of a message
  PathsOf,         \* [Texts -> Seq(Files)]
  SizeOf,          \* function of what a file may contain to its size
  Absent, None,
  MaxArtifacts, MaxStored, MaxSize, MaxPerItem,
  Chunk

CONSTANTS
  Uploads, Sent, Turns,
  SentAs, CountOf,           \* [Uploads -> Sent], [Uploads -> Nat]: the file, its chunks
  SentWith                   \* [Turns -> SUBSET Sent]

CONSTANTS MaxAsks, MaxEdits, MaxFails, MaxFrames, MaxTroubles   \* bounds of the model

Contents == DOMAIN SizeOf

CacheAssumption ==
  /\ TextsOf \in [Items -> SUBSET Texts] /\ PathsOf \in [Texts -> Seq(Files)]
  /\ \A c \in Contents : SizeOf[c] \in Nat \ {0}
  /\ {MaxArtifacts, MaxStored, MaxSize, MaxPerItem, Chunk} \subseteq Nat \ {0}
  /\ MaxSize <= MaxStored
  /\ Absent \notin Contents

InboxAssumption ==
  /\ SentAs \in [Uploads -> Sent] /\ CountOf \in [Uploads -> Nat \ {0}]
  /\ SentWith \in [Turns -> SUBSET Sent]
  /\ {MaxFrames, MaxTroubles} \subseteq Nat

VARIABLES
  disk,        \* what each file contains
  rows,        \* agent_attachments: identities, oldest first
  messages,    \* agent_attachment_messages with the items they list
  resolver,    \* the calls of resolve
  handed,      \* identities phones were given
  download,    \* a phone fetching an artifact chunk by chunk
  artifacts,   \* history: what was stored under each identity
  asks, edits, fails

VARIABLES
  frames,      \* what the phone sent, by sequence
  inbox,       \* the inbox's directories
  frame,       \* the last frame read, journaled and receipted
  waiting,     \* _inbound_callback_queue: frames read, and what their parsing gave
  calling,     \* the callback of its first has handed the turn to Hermes
  working,     \* [Turns -> Nat]: Hermes' runs of a turn
  refused,     \* history: turns told "attachment_unavailable"
  finished,    \* history: turns whose processing completed
  spoiled,     \* history: files purged, or cut short by a full disk
  troubles     \* lost sockets, deaths, short writes, days that pass

inboxVars == <<frames, inbox, frame, waiting, calling, working, refused, finished, spoiled, troubles>>

cacheVars == <<disk, rows, messages, resolver, handed, download, artifacts, asks, edits, fails>>

Idle == [at |-> "idle", item |-> None, text |-> None, next |-> 1, got |-> <<>>, seen |-> Absent]

-----------------------------------------------------------------------------
Stored == ToSet(rows)
Of(item, file) == {id \in Stored : artifacts[id].item = item /\ artifacts[id].file = file}
Paths(text) ==
  IF Len(PathsOf[text]) <= MaxPerItem THEN PathsOf[text] ELSE SubSeq(PathsOf[text], 1, MaxPerItem)

Bytes(ids, made) == FoldLeft(LAMBDA sum, id : sum + SizeOf[made[id].content], 0, ids)
Fits(ids, made) == Len(ids) <= MaxArtifacts /\ Bytes(ids, made) <= MaxStored

\* _enforce_profile_limits: the oldest go until the rest fits, and with each the projections
\* that list it.
Within(ids, made) ==
  LET kept(n) == SubSeq(ids, n, Len(ids))
      first == CHOOSE n \in 1 .. Len(ids) + 1 :
                 Fits(kept(n), made) /\ \A m \in 1 .. n - 1 : ~Fits(kept(m), made)
  IN kept(first)
Listing(evicted) ==
  {i \in Items : messages[i] # None /\ ToSet(messages[i].links) \cap evicted # {}}
Enforce(ids, made) ==
  /\ rows' = Within(ids, made)
  /\ messages' = [i \in Items |-> IF i \in Listing(ToSet(ids) \ ToSet(rows'))
                                  THEN None ELSE messages[i]]

-----------------------------------------------------------------------------
\* resolve of one item.
At(r, place) == resolver[r].at = place
Item(r) == resolver[r].item
File(r) == Paths(resolver[r].text)[resolver[r].next]
Own(r) == Of(Item(r), File(r))

To(r, place) == resolver' = [resolver EXCEPT ![r].at = place]
Takes(r, id) ==
  resolver' = [resolver EXCEPT ![r] = [@ EXCEPT
    !.at = "file", !.next = @ + 1, !.got = Append(@, id), !.seen = Absent]]
Skips(r) ==
  resolver' = [resolver EXCEPT ![r] = [@ EXCEPT !.at = "file", !.next = @ + 1, !.seen = Absent]]

\* The first SELECT of _cached_item, by the digest of the text.
Known(i, t) == messages[i] # None /\ messages[i].text = t

Ask(r, i, t) ==
  /\ At(r, "idle") /\ asks < MaxAsks /\ t \in TextsOf[i]
  /\ asks' = asks + 1
  /\ resolver' = [resolver EXCEPT ![r] = [Idle EXCEPT
       !.at = IF Known(i, t) THEN "links" ELSE "file",
       !.item = i, !.text = t]]
  /\ UNCHANGED <<disk, rows, messages, handed, download, artifacts, edits, fails>>

Answer(r, links) ==
  /\ handed' = handed \cup ToSet(links)
  /\ resolver' = [resolver EXCEPT ![r] = Idle]

\* Its second SELECT, which knows no digest: the links of now, those still stored.
ReadLinks(r) ==
  /\ At(r, "links")
  /\ Answer(r, IF messages[Item(r)] = None THEN <<>>
               ELSE SelectSeq(messages[Item(r)].links, LAMBDA id : id \in Stored))
  /\ UNCHANGED <<disk, rows, messages, download, artifacts, asks, edits, fails>>

\* _cache_file, with the next file.
More(r) == At(r, "file") /\ resolver[r].next <= Len(Paths(resolver[r].text))

Look(r) ==
  /\ More(r)
  /\ To(r, IF Own(r) = {} THEN "stat" ELSE "reuse")
  /\ UNCHANGED <<disk, rows, messages, handed, download, artifacts, asks, edits, fails>>

Reuse(r) ==
  /\ At(r, "reuse")
  /\ Enforce(rows, artifacts)
  /\ LET own == Own(r) \cap ToSet(rows')
     IN IF own = {} THEN To(r, "stat") ELSE \E id \in own : Takes(r, id)
  /\ UNCHANGED <<disk, handed, download, artifacts, asks, edits, fails>>

Stat(r) ==
  LET content == disk[File(r)]
  IN /\ At(r, "stat")
     /\ IF content = Absent THEN Skips(r)
        ELSE IF SizeOf[content] > MaxSize THEN Skips(r)
        ELSE resolver' = [resolver EXCEPT ![r].at = "read", ![r].seen = content]
     /\ UNCHANGED <<disk, rows, messages, handed, download, artifacts, asks, edits, fails>>

Read(r) ==
  LET content == disk[File(r)]
      whole == content # Absent /\ SizeOf[content] = SizeOf[resolver[r].seen]
  IN /\ At(r, "read")
     /\ IF whole THEN resolver' = [resolver EXCEPT ![r].at = "insert", ![r].seen = content]
        ELSE Skips(r)
     /\ UNCHANGED <<disk, rows, messages, handed, download, artifacts, asks, edits, fails>>

Artifact(r) == [item |-> Item(r), file |-> File(r), content |-> resolver[r].seen]
Fresh == Len(artifacts) + 1

\* Mutant: an identity that is free again is given again.
MintedAgain(r) ==
  LET id == CHOOSE n \in 1 .. Fresh : n \notin Stored /\ \A m \in 1 .. n - 1 : m \in Stored
  IN /\ Own(r) = {}
     /\ artifacts' = [n \in 1 .. Len(artifacts) + (IF id = Fresh THEN 1 ELSE 0) |->
                        IF n = id THEN Artifact(r) ELSE artifacts[n]]
     /\ Enforce(Append(rows, id), artifacts')
     /\ Takes(r, id)

Minted(r) ==
  /\ Own(r) = {}
  /\ artifacts' = Append(artifacts, Artifact(r))
  /\ Enforce(Append(rows, Fresh), artifacts')
  /\ Takes(r, Fresh)

\* INSERT OR IGNORE: a source another call has stored since keeps its artifact.
Insert(r) ==
  /\ At(r, "insert")
  /\ \/ Minted(r)
     \/ /\ Enforce(rows, artifacts) /\ UNCHANGED artifacts
        /\ \E id \in Own(r) : Takes(r, id)
  /\ UNCHANGED <<disk, handed, download, asks, edits, fails>>

\* _cache_item: what was got is recorded, whether or not it is still stored.
Record(r) ==
  /\ At(r, "file") /\ ~More(r)
  /\ messages' = IF resolver[r].got = <<>> THEN messages
                 ELSE [messages EXCEPT ![Item(r)] =
                        [text |-> resolver[r].text, links |-> resolver[r].got]]
  /\ Answer(r, resolver[r].got)
  /\ UNCHANGED <<disk, rows, download, artifacts, asks, edits, fails>>

\* SQLite stays busy, or the process ends; what was stored stays.
Fail(r) ==
  /\ ~At(r, "idle") /\ fails < MaxFails
  /\ fails' = fails + 1
  /\ resolver' = [resolver EXCEPT ![r] = Idle]
  /\ UNCHANGED <<disk, rows, messages, handed, download, artifacts, asks, edits>>

-----------------------------------------------------------------------------
\* read, chunk by chunk; what is no longer stored is unavailable.
NoDownload == [id |-> 0, parts |-> <<>>]
Whole(parts) == parts # <<>> => Len(parts) * Chunk >= SizeOf[Last(parts)]

Fetch(id) ==
  /\ LET before == IF download.id # id \/ Whole(download.parts) THEN <<>> ELSE download.parts
         content == artifacts[id].content
     IN download' = IF id \notin Stored \/ Len(before) * Chunk >= SizeOf[content] THEN NoDownload
                    ELSE [id |-> id, parts |-> Append(before, content)]
  /\ UNCHANGED <<disk, rows, messages, resolver, handed, artifacts, asks, edits, fails>>

Edit(f, c) ==
  /\ edits < MaxEdits /\ c # disk[f]
  /\ edits' = edits + 1 /\ disk' = [disk EXCEPT ![f] = c]
  /\ UNCHANGED <<rows, messages, resolver, handed, download, artifacts, asks, fails>>

CacheInit ==
  /\ disk \in [Files -> Contents] /\ rows = <<>> /\ messages = [i \in Items |-> None]
  /\ resolver = [r \in Resolvers |-> Idle]
  /\ handed = {} /\ download = NoDownload /\ artifacts = <<>>
  /\ asks = 0 /\ edits = 0 /\ fails = 0

Resolve(r) ==
  \/ ReadLinks(r) \/ Look(r) \/ Reuse(r) \/ Stat(r) \/ Read(r) \/ Insert(r) \/ Record(r) \/ Fail(r)

CacheNext ==
  \/ \E r \in Resolvers : Resolve(r) \/ \E i \in Items, t \in Texts : Ask(r, i, t)
  \/ \E id \in handed : Fetch(id)
  \/ \E f \in Files, c \in Contents \cup {Absent} : Edit(f, c)

-----------------------------------------------------------------------------
\* The inbox.  A chunk counts two, a short write of one counts one.  `manifest` is its
\* nextIndex, 0 when there is none; `old` are the files whose last change is a day ago.
EmptyInbox ==
  [partial |-> [u \in Uploads |-> 0], manifest |-> [u \in Uploads |-> 0], ready |-> {}, old |-> {}]

PartOf(u) == <<"partial", u>>
ManifestOf(u) == <<"manifest", u>>
ReadyOf(s) == <<"ready", s>>
Kept(box) ==
  {PartOf(u) : u \in {v \in Uploads : box.partial[v] > 0}}
    \cup {ManifestOf(u) : u \in {v \in Uploads : box.manifest[v] > 0}}
    \cup {ReadyOf(s) : s \in box.ready}

\* _purge_stale, and the uploads it spoils.
Purged(box) ==
  [partial  |-> [u \in Uploads |-> IF PartOf(u) \in box.old THEN 0 ELSE box.partial[u]],
   manifest |-> [u \in Uploads |-> IF ManifestOf(u) \in box.old THEN 0 ELSE box.manifest[u]],
   ready    |-> {s \in box.ready : ReadyOf(s) \notin box.old},
   old      |-> {}]
LostIn(box) ==
  {s \in Sent : \/ ReadyOf(s) \in box.old
                \/ \E u \in Uploads : SentAs[u] = s /\ {PartOf(u), ManifestOf(u)} \cap box.old # {}}

\* accept: the chunks it takes, and its writes in their order.
Wanted(box, u, i) ==
  /\ SentAs[u] \notin box.ready
  /\ \/ box.manifest[u] = i /\ box.partial[u] \in {2 * i, 2 * i + 2}
     \/ box.manifest[u] = i + 1
Appends(box, u, i) == box.manifest[u] = i /\ box.partial[u] = 2 * i

Grown(box, u, size) == [box EXCEPT !.partial[u] = size, !.old = @ \ {PartOf(u)}]
Appended(box, u, i) == IF Appends(box, u, i) THEN Grown(box, u, 2 * i + 2) ELSE box
Short(box, u, i) == IF Appends(box, u, i) THEN {Grown(box, u, 2 * i + 1)} ELSE {}
Noted(box, u, i) ==
  IF i + 1 < CountOf[u]
  THEN [box EXCEPT !.manifest[u] = i + 1, !.old = @ \ {ManifestOf(u)}]
  ELSE LET ages == PartOf(u) \in box.old
       IN [box EXCEPT !.partial[u] = 0, !.ready = @ \cup {SentAs[u]},
                      !.old = (@ \ {PartOf(u)}) \cup (IF ages THEN {ReadyOf(SentAs[u])} ELSE {})]
Closed(box, u, i) ==
  IF i + 1 < CountOf[u] THEN box
  ELSE [box EXCEPT !.manifest[u] = 0, !.old = @ \ {ManifestOf(u)}]

Begun(i) == IF i = 0 THEN Purged(inbox) ELSE inbox
Assembled(box, u, i) ==
  IF Wanted(box, u, i) THEN Closed(Noted(Appended(box, u, i), u, i), u, i) ELSE box
\* What a process that dies in accept leaves, besides a short write.
BrokenOff(box, u, i) ==
  IF Wanted(box, u, i) THEN {box, Appended(box, u, i), Noted(Appended(box, u, i), u, i)} ELSE {box}

-----------------------------------------------------------------------------
\* What the phone sends: the chunks of an upload in order, then turns that name its file.
ChunkFrame(u, i) == [kind |-> "chunk", of |-> u, index |-> i]
TurnFrame(t) == [kind |-> "turn", of |-> t, index |-> 0]
HasSent(f) == f \in ToSet(frames)

Send(f) ==
  /\ Len(frames) < MaxFrames /\ ~HasSent(f)
  /\ frames' = Append(frames, f)
  /\ UNCHANGED <<inbox, frame, waiting, calling, working, refused, finished, spoiled, troubles>>

SendChunk(u) ==
  \E i \in 0 .. CountOf[u] - 1 : (i = 0 \/ HasSent(ChunkFrame(u, i - 1))) /\ Send(ChunkFrame(u, i))
SendTurn(t) ==
  /\ \A s \in SentWith[t] :
       \E u \in Uploads : SentAs[u] = s /\ HasSent(ChunkFrame(u, CountOf[u] - 1))
  /\ Send(TurnFrame(t))

\* handle_wire_message parses the next frame and queues what it gave; a chunk that is
\* refused and one that is taken are both only journaled.
HasNext == frame.read < Len(frames)
NextFrame == frames[frame.read + 1]
Queues(outcome) ==
  /\ waiting' = Append(waiting, [seq |-> frame.read + 1, of |-> NextFrame.of, gives |-> outcome])
  /\ frame' = [frame EXCEPT !.read = @ + 1]

Trouble == troubles < MaxTroubles /\ troubles' = troubles + 1

PurgedBy(i) == IF i = 0 THEN LostIn(inbox) ELSE {}

ReadChunk ==
  /\ HasNext /\ NextFrame.kind = "chunk" /\ Queues("nothing")
  /\ LET u == NextFrame.of
         i == NextFrame.index
     IN \/ /\ inbox' = Assembled(Begun(i), u, i)
           /\ spoiled' = spoiled \cup PurgedBy(i)
           /\ UNCHANGED troubles
        \/ /\ Trouble
           /\ Wanted(Begun(i), u, i) /\ inbox' \in Short(Begun(i), u, i)
           /\ spoiled' = spoiled \cup PurgedBy(i) \cup {SentAs[u]}
  /\ UNCHANGED <<frames, calling, working, refused, finished>>

\* resolve.
ReadTurn ==
  /\ HasNext /\ NextFrame.kind = "turn"
  /\ Queues(IF SentWith[NextFrame.of] \subseteq inbox.ready THEN "turn" ELSE "unavailable")
  /\ UNCHANGED <<frames, inbox, calling, working, refused, finished, spoiled, troubles>>

\* _dispatch_inbound_callbacks, with the first in the queue.
First == waiting[1]
IsNew == waiting # <<>> /\ First.seq > frame.journaled
Journals == waiting' = Tail(waiting) /\ frame' = [frame EXCEPT !.journaled = First.seq]

DropReplay ==
  /\ waiting # <<>> /\ ~IsNew /\ waiting' = Tail(waiting)
  /\ UNCHANGED <<frames, inbox, frame, calling, working, refused, finished, spoiled, troubles>>

\* A chunk, a turn whose files are unavailable, or one Hermes does not accept.
Settle ==
  /\ IsNew /\ ~calling /\ Journals
  /\ refused' = IF First.gives = "unavailable" THEN refused \cup {First.of} ELSE refused
  /\ UNCHANGED <<frames, inbox, calling, working, finished, spoiled, troubles>>

HandOver ==
  /\ IsNew /\ First.gives = "turn" /\ ~calling
  /\ calling' = TRUE /\ working' = [working EXCEPT ![First.of] = @ + 1]
  /\ UNCHANGED <<frames, inbox, frame, waiting, refused, finished, spoiled, troubles>>

HandedOver ==
  /\ calling /\ Journals /\ calling' = FALSE
  /\ UNCHANGED <<frames, inbox, working, refused, finished, spoiled, troubles>>

Receipt ==
  /\ frame.receipted < frame.journaled
  /\ frame' = [frame EXCEPT !.receipted = frame.journaled]
  /\ UNCHANGED <<frames, inbox, waiting, calling, working, refused, finished, spoiled, troubles>>

\* on_processing_complete discards the files of the turn.
Complete(t) ==
  /\ working[t] > 0
  /\ working' = [working EXCEPT ![t] = @ - 1] /\ finished' = finished \cup {t}
  /\ inbox' = [inbox EXCEPT !.ready = @ \ SentWith[t], !.old = @ \ {ReadyOf(s) : s \in SentWith[t]}]
  /\ UNCHANGED <<frames, frame, waiting, calling, refused, spoiled, troubles>>

\* The socket is lost, and opened again.
Disconnected ==
  /\ Trouble
  /\ frame' = [frame EXCEPT !.read = frame.receipted] /\ waiting' = <<>> /\ calling' = FALSE

Reconnect ==
  /\ Disconnected
  /\ UNCHANGED <<frames, inbox, working, refused, finished, spoiled>>

\* The process dies, perhaps in accept, and is started again.
Restarts(box, lost) ==
  /\ inbox' = Purged(box) /\ spoiled' = spoiled \cup lost \cup LostIn(box)
Die ==
  /\ Disconnected /\ working' = [t \in Turns |-> 0]
  /\ \/ Restarts(inbox, {})
     \/ /\ HasNext /\ NextFrame.kind = "chunk"
        /\ LET u == NextFrame.of
               i == NextFrame.index
           IN \/ \E box \in BrokenOff(Begun(i), u, i) : Restarts(box, PurgedBy(i))
              \/ /\ Wanted(Begun(i), u, i)
                 /\ \E box \in Short(Begun(i), u, i) : Restarts(box, PurgedBy(i) \cup {SentAs[u]})
  /\ UNCHANGED <<frames, refused, finished>>

Day ==
  /\ Trouble
  /\ inbox' = [inbox EXCEPT !.old = Kept(inbox)]
  /\ UNCHANGED <<frames, frame, waiting, calling, working, refused, finished, spoiled>>

InboxInit ==
  /\ frames = <<>> /\ inbox = EmptyInbox
  /\ frame = [read |-> 0, journaled |-> 0, receipted |-> 0]
  /\ waiting = <<>> /\ calling = FALSE /\ working = [t \in Turns |-> 0]
  /\ refused = {} /\ finished = {} /\ spoiled = {} /\ troubles = 0

InboxNext ==
  \/ \E u \in Uploads : SendChunk(u)
  \/ \E t \in Turns : SendTurn(t) \/ Complete(t)
  \/ ReadChunk \/ ReadTurn \/ DropReplay \/ Settle \/ HandOver \/ HandedOver \/ Receipt
  \/ Reconnect \/ Die \/ Day

-----------------------------------------------------------------------------
\* Type invariant; no artifact is stored twice, and a projection lists something.
CacheTypeOK ==
  /\ disk \in [Files -> Contents \cup {Absent}]
  /\ ToSet(rows) \cup handed \subseteq DOMAIN artifacts /\ Cardinality(Stored) = Len(rows)
  /\ \A i \in Items : messages[i] # None => messages[i].text \in TextsOf[i] /\ messages[i].links # <<>>
  /\ \A r \in Resolvers : resolver[r].at \in {"idle", "links", "file", "reuse", "stat", "read", "insert"}

\* However many calls store at once, the cache keeps to its limits.
CacheBounded == Fits(rows, artifacts)

\* Calls that resolve one file of one message at the same time hand phones one identity.
OneIdentity ==
  \A id, other \in handed \cap Stored :
    artifacts[id].item = artifacts[other].item /\ artifacts[id].file = artifacts[other].file
      => id = other

\* The chunks a phone puts together are of one content, whatever is evicted, edited and
\* stored again between them.
DownloadIsWhole ==
  \A n \in DOMAIN download.parts : download.parts[n] = download.parts[1]

\* A projection loses no artifact it had: with the artifact it goes itself.
ProjectionsFollow ==
  [][\A i \in Items : messages'[i] # None =>
       \A id \in ToSet(messages'[i].links) : id \in Stored => id \in ToSet(rows')]_cacheVars

\* "oldest artifacts and their cached message projection are evicted together so a
\* surviving source can be resolved again" (PROTOCOL.md:542): no projection lists what is
\* no longer stored.
EvictedTogether ==
  \A i \in Items : messages[i] # None => ToSet(messages[i].links) \subseteq Stored

\* Type invariant; what is old is there.
InboxTypeOK ==
  /\ Len(frames) <= MaxFrames /\ inbox.ready \subseteq Sent /\ inbox.old \subseteq Kept(inbox)
  /\ frame.receipted <= frame.journaled /\ frame.read <= Len(frames)
  /\ \A n \in DOMAIN waiting : waiting[n].gives \in {"nothing", "turn", "unavailable"}

\* The exceptions: a file was purged or cut short, or a turn that has it finished.
Excused(s) == s \in spoiled \/ \E t \in finished : s \in SentWith[t]

\* A turn is told that its files are unavailable only if one of them did not arrive,
\* wherever the process died while they came and however often their frames came again.
ArrivedIsAccepted == \A t \in refused : \E s \in SentWith[t] : Excused(s)

\* The files of a turn outlive the callback that handed it to Hermes.
FilesOutlive ==
  \A t \in Turns : working[t] > 0 => \A s \in SentWith[t] : s \in inbox.ready \/ Excused(s)
==============================================================================
