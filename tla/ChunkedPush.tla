---------------------------- MODULE ChunkedPush ----------------------------
(***************************************************************************)
(* How a large file reaches the Server.  The pusher cuts it into chunks,   *)
(* reading each from the disk just before it is sent and waiting for its   *)
(* acknowledgement; the handler appends the chunks to a staging file that  *)
(* lies in the dataset itself and renames it over the target with the      *)
(* final chunk.  A small file goes the same way at once: into a temporary  *)
(* file beside the target, which is then renamed.  A handler that ends     *)
(* early removes these files; a Server that stops does not.  The snapshot  *)
(* at the end of a stream holds whatever is in the dataset, and a restore  *)
(* sends every regular file of a snapshot.                                 *)
(*                                                                         *)
(* The content of a file is the sequence of its blocks, a block is the     *)
(* number of the edit that wrote it.  A file of one block is small: it is  *)
(* sent as one entry.  A stream is one call of PushBackup, on both sides;  *)
(* a retry is another stream.                                              *)
(***************************************************************************)
EXTENDS Naturals, Sequences, SequencesExt

CONSTANTS
  Files,       \* changed paths of the root
  Streams,     \* PushBackup streams of one user
  FirstSize,   \* FirstSize[f]: blocks of f at the start
  MaxSize,     \* bound: blocks of a file
  MaxEdits,    \* bound: changes of source files
  MaxStops     \* bound: times the Server stops

ASSUME SizesAssumption ==
  /\ MaxSize \in Nat \ {0}
  /\ FirstSize \in [Files -> 1..MaxSize]
  /\ MaxEdits \in Nat /\ MaxStops \in Nat

VARIABLES
  content,     \* the source files
  edits,       \* changes so far
  pusher,      \* pusher[s]: where the Agent's side of s is
  job,         \* job[s]: the paths s has to send
  todo,        \* todo[s]: those of them still to be sent, or in part
  size,        \* size[s][f]: blocks of f when it was scanned
  read,        \* read[s][f]: the blocks of f that s has read so far
  msg,         \* msg[s]: the batch that is not acknowledged yet, if any
  handler,     \* handler[s]: where the Server's side is
  uploads,     \* uploads[s]: paths in partialUploads, or whose removal WriteFile deferred
  staging,     \* staging[s][f]: blocks in s's staging or temporary file for f, if there is one
  dataset,     \* dataset[f]: content of the target file, if there is one
  newest,      \* the newest snapshot: target files and staging files
  stops,       \* times the Server has stopped
  stopped,     \* history: streams whose handler a stop ended
  steady,      \* steady[s], history: paths unchanged since s's scan
  overlapped   \* history: a stream began beside a live one

source == <<content, edits>>
agent  == <<pusher, job, todo, size, read>>
server == <<handler, uploads, staging, dataset, newest, stops, stopped>>
vars   == <<source, agent, msg, server, steady, overlapped>>

None   == <<>>   \* no file, no batch: a file has at least one block
Blocks == 0..MaxEdits
Contents == BoundedSeq(Blocks, MaxSize)

\* A batch of one entry.  The offset of a chunk counts blocks.
Entry(f, c, chunked, offset, final) ==
  [file |-> f, content |-> c, chunked |-> chunked, offset |-> offset, final |-> final]

Batches ==
  [file: Files, content: Contents \ {None}, chunked: BOOLEAN, offset: 0..MaxSize, final: BOOLEAN]

PushStages    == {"idle", "send", "await", "close", "done", "failed"}
HandlerStages == {"free", "recv", "commit", "eof", "ok", "failed", "gone"}

Serving(s) == handler[s] \in {"recv", "commit", "eof"}
Pushing(s) == pusher[s] \in {"send", "await", "close"}

TypeOK ==
  /\ content \in [Files -> Contents \ {None}]
  /\ edits \in 0..MaxEdits
  /\ pusher \in [Streams -> PushStages]
  /\ job \in [Streams -> SUBSET Files]
  /\ todo \in [Streams -> SUBSET Files]
  /\ size \in [Streams -> [Files -> 0..MaxSize]]
  /\ read \in [Streams -> [Files -> Contents]]
  /\ msg \in [Streams -> {None} \cup Batches]
  /\ handler \in [Streams -> HandlerStages]
  /\ uploads \in [Streams -> SUBSET Files]
  /\ staging \in [Streams -> [Files -> Contents]]
  /\ dataset \in [Files -> Contents]
  /\ newest.files \in [Files -> Contents]
  /\ newest.partials \subseteq Streams \X Files
  /\ stops \in 0..MaxStops
  /\ stopped \subseteq Streams
  /\ steady \in [Streams -> SUBSET Files]
  /\ overlapped \in BOOLEAN

Init ==
  /\ content = [f \in Files |-> [i \in 1..FirstSize[f] |-> 0]]
  /\ edits = 0
  /\ pusher = [s \in Streams |-> "idle"]
  /\ job = [s \in Streams |-> {}]
  /\ todo = [s \in Streams |-> {}]
  /\ size = [s \in Streams |-> [f \in Files |-> 0]]
  /\ read = [s \in Streams |-> [f \in Files |-> None]]
  /\ msg = [s \in Streams |-> None]
  /\ handler = [s \in Streams |-> "free"]
  /\ uploads = [s \in Streams |-> {}]
  /\ staging = [s \in Streams |-> [f \in Files |-> None]]
  /\ dataset = [f \in Files |-> None]
  /\ newest = [files |-> [f \in Files |-> None], partials |-> {}]
  /\ stops = 0
  /\ stopped = {}
  /\ steady = [s \in Streams |-> {}]
  /\ overlapped = FALSE

PushGoto(s, p)    == pusher' = [pusher EXCEPT ![s] = p]
HandlerGoto(s, p) == handler' = [handler EXCEPT ![s] = p]

-----------------------------------------------------------------------------
(* The source files: one block is overwritten in place, added or cut off.  *)

Edit(f) ==
  /\ edits < MaxEdits
  /\ edits' = edits + 1
  /\ \/ \E i \in DOMAIN content[f] : content' = [content EXCEPT ![f][i] = edits']
     \/ Len(content[f]) < MaxSize /\ content' = [content EXCEPT ![f] = Append(@, edits')]
     \/ Len(content[f]) > 1 /\ content' = [content EXCEPT ![f] = Front(@)]
  /\ steady' = [s \in Streams |-> steady[s] \ {f}]
  /\ UNCHANGED <<agent, msg, server, overlapped>>

-----------------------------------------------------------------------------
(* The pusher.                                                             *)

\* PushBackup is called with the diffs of a scan, and opens the stream.
Begin(s) ==
  /\ pusher[s] = "idle"
  /\ PushGoto(s, "send")
  /\ \E fs \in SUBSET Files \ {{}} :
       job' = [job EXCEPT ![s] = fs] /\ todo' = [todo EXCEPT ![s] = fs]
  /\ size' = [size EXCEPT ![s] = [f \in Files |-> Len(content[f])]]
  /\ HandlerGoto(s, "recv")
  /\ steady' = [steady EXCEPT ![s] = Files]
  /\ overlapped' = (overlapped \/ \E t \in Streams : Pushing(t) \/ Serving(t))
  /\ UNCHANGED <<source, read, msg, uploads, staging, dataset, newest, stops, stopped>>

Large(s, f) == size[s][f] > 1

\* The path has been sent in part.
Started(s, f) == f \in todo[s] /\ read[s][f] # None

\* What s has read of the path is all it had to read.
ReadWhole(s, f) == read[s][f] # None /\ (Large(s, f) => Len(read[s][f]) = size[s][f])

\* As if the last chunk were recognised one chunk early.
IsFinalEarly(s, f) == Len(read'[s][f]) + 1 >= size[s][f]

IsFinal(s, f) == Len(read'[s][f]) = size[s][f]

\* sendBatch: a small file, whole, as it is now.
SendFile(s, f) ==
  /\ pusher[s] = "send"
  /\ f \in todo[s] /\ ~Large(s, f)
  /\ ~\E g \in Files : Started(s, g)
  /\ read' = [read EXCEPT ![s][f] = content[f]]
  /\ msg' = [msg EXCEPT ![s] = Entry(f, content[f], FALSE, 0, FALSE)]
  /\ PushGoto(s, "await")
  /\ UNCHANGED <<source, job, todo, size, server, steady, overlapped>>

\* sendChunkedFile: the next chunk, if the file still has it.
SendChunk(s, f) ==
  LET next == Len(read[s][f]) + 1 IN
  /\ pusher[s] = "send"
  /\ f \in todo[s] /\ Large(s, f)
  /\ \A g \in Files \ {f} : ~Started(s, g)
  /\ next <= Len(content[f])
  /\ read' = [read EXCEPT ![s][f] = Append(@, content[f][next])]
  /\ msg' = [msg EXCEPT ![s] = Entry(f, <<content[f][next]>>, TRUE, next - 1, IsFinal(s, f))]
  /\ PushGoto(s, "await")
  /\ UNCHANGED <<source, job, todo, size, server, steady, overlapped>>

\* The acknowledgement of the batch just sent.
Acknowledged(s) ==
  /\ pusher[s] = "await"
  /\ msg[s] = None
  /\ todo' = [todo EXCEPT ![s] = {f \in @ : ~ReadWhole(s, f)}]
  /\ PushGoto(s, "send")
  /\ UNCHANGED <<source, job, size, read, msg, server, steady, overlapped>>

\* Every path is acknowledged.  A handler that still runs reads the end of the stream.
CloseSend(s) ==
  /\ pusher[s] = "send"
  /\ todo[s] = {}
  /\ PushGoto(s, "close")
  /\ HandlerGoto(s, IF handler[s] = "recv" THEN "eof" ELSE handler[s])
  /\ UNCHANGED <<source, job, todo, size, read, msg, uploads, staging, dataset, newest,
                 stops, stopped, steady, overlapped>>

\* As if a closed request half were taken for a finished stream.
ConfirmUnread(s) ==
  /\ pusher[s] = "close"
  /\ PushGoto(s, "done")
  /\ UNCHANGED <<source, job, todo, size, read, msg, server, steady, overlapped>>

\* The terminal read: the handler has returned without an error.
Confirm(s) ==
  /\ pusher[s] = "close"
  /\ handler[s] = "ok"
  /\ PushGoto(s, "done")
  /\ UNCHANGED <<source, job, todo, size, read, msg, server, steady, overlapped>>

\* The file has become shorter, cannot be read, the stream fails or its ten minutes are
\* over, or the Agent stops.
PushFails(s) ==
  /\ Pushing(s)
  /\ PushGoto(s, "failed")
  /\ UNCHANGED <<source, job, todo, size, read, msg, server, steady, overlapped>>

-----------------------------------------------------------------------------
(* The handler.                                                            *)

\* The batch is acknowledged.
Ack(s) == msg' = [msg EXCEPT ![s] = None]

\* As if staging files of one path had one name, and were appended to.
NewStagingShared(s, f) ==
  IF \E t \in Streams : staging[t][f] # None
    THEN staging[CHOOSE t \in Streams : staging[t][f] # None][f] ELSE None

\* os.CreateTemp: a new, empty staging file.
NewStaging(s, f) == None

\* A received chunk, by writeChunk: chunks of a path follow one another, from offset 0.
WriteChunk(s) ==
  LET e    == msg[s]
      have == IF e.file \in uploads[s] THEN staging[s][e.file] ELSE NewStaging(s, e.file)
  IN
  /\ handler[s] = "recv" /\ e # None
  /\ e.chunked
  /\ e.offset = IF e.file \in uploads[s] THEN Len(staging[s][e.file]) ELSE 0
  /\ staging' = [staging EXCEPT ![s][e.file] = have \o e.content]
  /\ uploads' = [uploads EXCEPT ![s] = @ \cup {e.file}]
  /\ IF e.final THEN HandlerGoto(s, "commit") /\ UNCHANGED msg ELSE Ack(s) /\ UNCHANGED handler
  /\ UNCHANGED <<source, agent, dataset, newest, stops, stopped, steady, overlapped>>

\* ChunkWriter.Commit, or the end of WriteFile: the file is renamed over the target.
Commit(s) ==
  LET f == msg[s].file IN
  /\ handler[s] = "commit"
  /\ dataset' = [dataset EXCEPT ![f] = staging[s][f]]
  /\ staging' = [staging EXCEPT ![s][f] = None]
  /\ uploads' = [uploads EXCEPT ![s] = @ \ {f}]
  /\ HandlerGoto(s, "recv")
  /\ Ack(s)
  /\ UNCHANGED <<source, agent, newest, stops, stopped, steady, overlapped>>

\* Receiver.WriteFile, for an entry that is not a chunk, up to its rename: the content is
\* in a temporary file of the dataset, whose removal is deferred.
WriteFile(s) ==
  LET e == msg[s] IN
  /\ handler[s] = "recv" /\ e # None
  /\ ~e.chunked
  /\ e.file \notin uploads[s]
  /\ staging' = [staging EXCEPT ![s][e.file] = e.content]
  /\ uploads' = [uploads EXCEPT ![s] = @ \cup {e.file}]
  /\ HandlerGoto(s, "commit")
  /\ UNCHANGED <<source, agent, msg, dataset, newest, stops, stopped, steady, overlapped>>

\* The end of the stream: a snapshot of the whole dataset, then the cleanup, which may fail.
TakeSnapshot(s) ==
  /\ handler[s] = "eof"
  /\ uploads[s] = {}
  /\ newest' = [files |-> dataset,
                partials |-> {p \in Streams \X Files : staging[p[1]][p[2]] # None}]
  /\ \E end \in {"ok", "failed"} : HandlerGoto(s, end)
  /\ UNCHANGED <<source, agent, msg, uploads, staging, dataset, stops, stopped, steady, overlapped>>

\* As if the handler did not defer the removal of the files it has staged.
AbortUploadsForgotten(s) ==
  /\ uploads' = [uploads EXCEPT ![s] = {}]
  /\ UNCHANGED staging

AbortUploads(s) ==
  /\ uploads' = [uploads EXCEPT ![s] = {}]
  /\ staging' = [staging EXCEPT ![s] =
       [f \in Files |-> IF f \in uploads[s] THEN None ELSE staging[s][f]]]

\* A write, the rename or the snapshot fails, or the handler's own deadline is over.
HandlerFails(s) ==
  /\ Serving(s)
  /\ AbortUploads(s)
  /\ HandlerGoto(s, "failed")
  /\ UNCHANGED <<source, agent, msg, dataset, newest, stops, stopped, steady, overlapped>>

\* As if an error of Recv were skipped like a bad batch.
ClientGoneIgnored(s) ==
  /\ handler[s] = "recv"
  /\ pusher[s] = "failed"
  /\ UNCHANGED vars

\* Recv fails when the pusher has left.
ClientGone(s) ==
  /\ handler[s] = "recv"
  /\ pusher[s] = "failed"
  /\ AbortUploads(s)
  /\ HandlerGoto(s, "failed")
  /\ UNCHANGED <<source, agent, msg, dataset, newest, stops, stopped, steady, overlapped>>

\* The Server process stops; no deferred call runs.
Stop ==
  /\ stops < MaxStops
  /\ stops' = stops + 1
  /\ stopped' = stopped \cup {s \in Streams : Serving(s)}
  /\ handler' = [s \in Streams |-> IF Serving(s) THEN "gone" ELSE handler[s]]
  /\ uploads' = [s \in Streams |-> {}]
  /\ UNCHANGED <<source, agent, msg, staging, dataset, newest, steady, overlapped>>

-----------------------------------------------------------------------------

PushStep(s) ==
  \/ Begin(s)
  \/ \E f \in Files : SendFile(s, f) \/ SendChunk(s, f)
  \/ Acknowledged(s) \/ CloseSend(s) \/ Confirm(s) \/ PushFails(s)

HandlerStep(s) ==
  \/ WriteChunk(s) \/ Commit(s) \/ WriteFile(s) \/ TakeSnapshot(s) \/ ClientGone(s)

Next ==
  \/ \E f \in Files : Edit(f)
  \/ \E s \in Streams : PushStep(s) \/ HandlerStep(s) \/ HandlerFails(s)
  \/ Stop

Spec == Init /\ [][Next]_vars

\* The goroutine of a handler runs, and so does the Agent's, whose context ends after ten
\* minutes whatever the Server does.
Fairness == \A s \in Streams : WF_vars(HandlerStep(s)) /\ WF_vars(PushFails(s))

FairSpec == Spec /\ Fairness

-----------------------------------------------------------------------------
(* Properties.                                                             *)

\* A target file is only ever replaced by what one stream has read of it from its first
\* block to the last it was scanned with: never by a prefix, never by a mixture of two
\* streams, whatever streams run side by side, fail or are left behind by a stop.
PublishedWhole ==
  [][\A f \in Files : dataset'[f] # dataset[f] =>
       \E s \in Streams :
         /\ dataset'[f] = read[s][f]
         /\ Large(s, f) => Len(dataset'[f]) = size[s][f]]_vars

\* A stream that ended well and had no other beside it has put every file that was not
\* edited since its scan into the newest snapshot, as it is on the disk.
FaithfulSnapshot ==
  ~overlapped => \A s \in Streams : pusher[s] = "done" =>
    \A f \in job[s] \cap steady[s] : newest.files[f] = content[f]

\* Staging and temporary files belong to a handler that is still working on them, or are
\* what a stop of the Server left.
AbortLeavesNothing ==
  \A s \in Streams, f \in Files :
    staging[s][f] # None => (Serving(s) /\ f \in uploads[s]) \/ s \in stopped

\* An interrupted upload does not keep its staging file, as long as the Server runs.
StagingIsRemoved ==
  \A s \in Streams, f \in Files : staging[s][f] # None ~> staging[s][f] = None \/ s \in stopped

\* ReadAllChunksFrom: a restore sends every regular file of the newest snapshot.
RestoreEntries == {f \in Files : newest.files[f] # None} \cup newest.partials

\* docs/server-test-preflight.md: "interrupt a chunked upload and verify no partial file
\* becomes visible in the target dataset": even when streams follow one another, no restore
\* sends a staging file.
NoPartialRestored == ~overlapped => RestoreEntries \subseteq Files

=============================================================================
