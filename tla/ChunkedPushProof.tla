-------------------------- MODULE ChunkedPushProof --------------------------
(***************************************************************************)
(* Proofs about ChunkedPush, for any files, number of streams, sizes,      *)
(* edits and stops: types, that only whole files are published, that an    *)
(* aborted upload leaves nothing, and that a stream which ends well, with  *)
(* no other beside it, has made a faithful snapshot.  The invariant ties   *)
(* what the pusher has read to the staging file and the chunk between      *)
(* them, and from there to the target and the snapshot.                    *)
(***************************************************************************)
EXTENDS ChunkedPush, SequenceTheorems, TLAPS

-----------------------------------------------------------------------------
(* The two sides of a stream.                                              *)

\* A batch is on its way only while its acknowledgement is waited for, or nobody waits;
\* the handler reads the end of the stream only after the pusher has closed it.
InStep(s) ==
  /\ msg[s] # None => pusher[s] \in {"await", "failed"}
  /\ handler[s] \in {"eof", "ok"} => pusher[s] \in {"close", "done", "failed"}

\* A stream that has not been opened has nothing.
Unopened(s) ==
  pusher[s] = "idle" =>
    /\ handler[s] = "free" /\ uploads[s] = {} /\ msg[s] = None
    /\ \A f \in Files : read[s][f] = None

Pending(s, f) == msg[s] # None /\ msg[s].file = f

\* The batch on its way, for a handler that still reads: a small file, whole, or the next
\* blocks of a large one, the final ones if they complete it.
BatchFits(s) ==
  LET e == msg[s]
      f == msg[s].file
  IN
  IF e.chunked
    THEN /\ Large(s, f)
         /\ e.final <=> Len(read[s][f]) = size[s][f]
         /\ handler[s] = "recv" =>
              IF f \in uploads[s] THEN read[s][f] = staging[s][f] \o e.content
                                  ELSE e.offset = 0 => read[s][f] = e.content
    ELSE ~Large(s, f) /\ e.content = read[s][f]

\* A staging file holds what has been read of its file, but for the chunk on its way; a
\* small file has one only between its writing and its rename.
UploadsFit(s) ==
  /\ \A f \in uploads[s] :
       /\ Large(s, f) \/ (handler[s] = "commit" /\ Pending(s, f))
       /\ (handler[s] = "recv" /\ Pending(s, f)) \/ staging[s][f] = read[s][f]
  /\ msg[s] # None => BatchFits(s)
  /\ handler[s] = "commit" =>
       msg[s] # None /\ (msg[s].chunked => msg[s].final) /\ msg[s].file \in uploads[s]

StreamInv(s) ==
  /\ InStep(s)
  /\ Unopened(s)
  /\ handler[s] \in {"recv", "commit"} => UploadsFit(s)

Streaming == \A s \in Streams : StreamInv(s)

-----------------------------------------------------------------------------
(* What a stream has read.                                                 *)

\* What it has read of a file that was not edited since its scan.
ReadTrue(s, f) ==
  /\ size[s][f] = Len(content[f])
  /\ IF Large(s, f) THEN /\ Len(read[s][f]) <= size[s][f]
                         /\ \A i \in 1..Len(read[s][f]) : read[s][f][i] = content[f][i]
                    ELSE read[s][f] = None \/ read[s][f] = content[f]

\* A path is off the list of what is to be sent exactly when it has been read whole.
ReadingInv(s) ==
  /\ pusher[s] # "idle" =>
       /\ \A f \in Files \cap steady[s] : ReadTrue(s, f)
       /\ \A f \in job[s] \ todo[s] : ReadWhole(s, f)
  /\ pusher[s] = "send" => \A f \in todo[s] : ~ReadWhole(s, f)
  /\ pusher[s] = "close" => todo[s] = {}

Reading == \A s \in Streams : ReadingInv(s)

-----------------------------------------------------------------------------
(* One stream at a time.                                                   *)

Live(s) == Pushing(s) \/ Serving(s)

\* What the handler has been sent whole is in the dataset, and then in the snapshot.
Published(s) ==
  /\ Serving(s) => \A f \in Files : ReadWhole(s, f) /\ ~Pending(s, f) => dataset[f] = read[s][f]
  /\ pusher[s] = "close" /\ handler[s] = "ok" =>
       \A f \in job[s] : newest.files[f] = read[s][f] /\ dataset[f] = read[s][f]

\* What a finished stream has backed up stays so, until it is edited.
Kept(s) ==
  pusher[s] = "done" =>
    /\ \A f \in job[s] \cap steady[s] : newest.files[f] = content[f] /\ dataset[f] = content[f]
    /\ \A t \in Streams : Live(t) => steady[s] \subseteq steady[t]

OrderlyInv ==
  /\ \A s, t \in Streams : Live(s) /\ Live(t) => s = t
  /\ \A s \in Streams : Published(s) /\ Kept(s)

IInv == TypeOK /\ Streaming /\ Reading /\ AbortLeavesNothing /\ (~overlapped => OrderlyInv)

-----------------------------------------------------------------------------
(* Contents and batches.                                                   *)

\* A content is a sequence of blocks that is not too long.
LEMMA ContentsIntro ==
  ASSUME NEW c \in Seq(Blocks), Len(c) <= MaxSize
  PROVE  c \in Contents
<1>1. Len(c) \in Nat /\ c \in [1..Len(c) -> Blocks]
  BY LenProperties
<1>2. Len(c) \in 0..MaxSize
  BY <1>1, SizesAssumption
<1> QED
  BY <1>1, <1>2 DEF Contents, BoundedSeq, SeqOf

LEMMA ContentsSeq ==
  ASSUME NEW c \in Contents
  PROVE  c \in Seq(Blocks) /\ Len(c) \in 0..MaxSize /\ DOMAIN c = 1..Len(c)
<1>1. PICK m \in 0..MaxSize : c \in [1..m -> Blocks]
  BY DEF Contents, BoundedSeq, SeqOf
<1>2. m \in Nat /\ c \in Seq(Blocks)
  BY <1>1, SeqDef, SizesAssumption
<1>3. DOMAIN c = 1..Len(c) /\ Len(c) = m
  BY <1>1, <1>2
<1> QED
  BY <1>2, <1>3

LEMMA ContentsFacts ==
  ASSUME NEW c \in Contents
  PROVE  /\ Len(c) \in 0..MaxSize /\ DOMAIN c = 1..Len(c)
         /\ \A i \in 1..Len(c) : c[i] \in Blocks
<1>1. c \in Seq(Blocks) /\ Len(c) \in 0..MaxSize /\ DOMAIN c = 1..Len(c)
  BY ContentsSeq
<1> QED
  BY <1>1

\* No file is a content, and every other has a block.
LEMMA NoneFacts == None \in Contents /\ Len(None) = 0
<1>1. None \in Seq(Blocks) /\ Len(None) = 0
  BY EmptySeq DEF None
<1>2. Len(None) <= MaxSize
  BY <1>1, SizesAssumption
<1> QED
  BY <1>1, <1>2, ContentsIntro, Zenon

LEMMA FileFacts ==
  ASSUME NEW c \in Contents \ {None}
  PROVE  Len(c) \in 1..MaxSize /\ DOMAIN c = 1..Len(c) /\ \A i \in 1..Len(c) : c[i] \in Blocks
<1>1. c \in Seq(Blocks) /\ Len(c) \in 0..MaxSize
  BY ContentsSeq
<1>2. Len(c) # 0
  BY <1>1, EmptySeq DEF None
<1> QED
  BY <1>1, <1>2, ContentsFacts, SizesAssumption

LEMMA FileIntro ==
  ASSUME NEW c \in Seq(Blocks), Len(c) \in 1..MaxSize
  PROVE  c \in Contents \ {None}
<1>1. Len(c) <= MaxSize /\ Len(c) # 0
  BY SizesAssumption
<1>2. c \in Contents
  BY <1>1, ContentsIntro, Zenon
<1>3. c # None
  BY <1>1, NoneFacts
<1> QED
  BY <1>2, <1>3

\* A block more, a block less, another block, one block.
LEMMA AppendFacts ==
  ASSUME NEW c \in Contents, NEW b \in Blocks, Len(c) < MaxSize
  PROVE  /\ Append(c, b) \in Contents \ {None} /\ Len(Append(c, b)) = Len(c) + 1
         /\ Append(c, b) = c \o <<b>>
         /\ \A i \in 1..Len(c) : Append(c, b)[i] = c[i]
         /\ Append(c, b)[Len(c) + 1] = b
<1>1. c \in Seq(Blocks) /\ Len(c) \in 0..MaxSize
  BY ContentsSeq
<1>2. /\ Append(c, b) \in Seq(Blocks) /\ Len(Append(c, b)) = Len(c) + 1
      /\ \A i \in 1..Len(c) : Append(c, b)[i] = c[i]
      /\ Append(c, b)[Len(c) + 1] = b
  BY <1>1, AppendProperties
<1>3. Append(c, b) = c \o <<b>>
  BY <1>1, AppendIsConcat
<1>4. Len(Append(c, b)) \in 1..MaxSize
  BY <1>1, <1>2, SizesAssumption
<1>5. Append(c, b) \in Contents \ {None}
  BY <1>2, <1>4, FileIntro, Zenon
<1> QED
  BY <1>2, <1>3, <1>5

LEMMA FrontFacts ==
  ASSUME NEW c \in Contents, Len(c) > 1
  PROVE  Front(c) \in Contents \ {None}
<1>1. c \in Seq(Blocks) /\ Len(c) \in 0..MaxSize
  BY ContentsSeq
<1>2. SubSeq(c, 1, Len(c) - 1) \in Seq(Blocks) /\ Len(SubSeq(c, 1, Len(c) - 1)) = Len(c) - 1
  BY <1>1, SizesAssumption
<1>3. Len(Front(c)) \in 1..MaxSize /\ Front(c) \in Seq(Blocks)
  BY <1>1, <1>2, SizesAssumption DEF Front
<1> QED
  BY <1>3, FileIntro, Zenon

LEMMA OverwriteFacts ==
  ASSUME NEW c \in Contents, NEW i \in DOMAIN c, NEW b \in Blocks
  PROVE  [c EXCEPT ![i] = b] \in Contents \ {None}
<1>1. c \in Seq(Blocks) /\ Len(c) \in 0..MaxSize /\ DOMAIN c = 1..Len(c) /\ i \in 1..Len(c)
  BY ContentsSeq
<1>2. [c EXCEPT ![i] = b] \in Seq(Blocks) /\ Len([c EXCEPT ![i] = b]) = Len(c)
  BY <1>1, ExceptSeq
<1>3. Len([c EXCEPT ![i] = b]) \in 1..MaxSize
  BY <1>1, <1>2, SizesAssumption
<1> QED
  BY <1>2, <1>3, FileIntro, Zenon

LEMMA SingleFacts ==
  ASSUME NEW b \in Blocks
  PROVE  <<b>> \in Contents \ {None} /\ None \o <<b>> = <<b>>
<1>1. <<b>> \in Seq(Blocks) /\ Len(<<b>>) = 1
  OBVIOUS
<1>2. Len(<<b>>) \in 1..MaxSize
  BY <1>1, SizesAssumption
<1>3. <<b>> \in Contents \ {None}
  BY <1>1, <1>2, FileIntro, Zenon
<1>4. None \o <<b>> = <<b>>
  BY <1>1, ConcatEmptySeq DEF None
<1> QED
  BY <1>3, <1>4

LEMMA EntryFacts ==
  ASSUME NEW f \in Files, NEW c \in Contents \ {None}, NEW chunked \in BOOLEAN,
         NEW offset \in 0..MaxSize, NEW final \in BOOLEAN
  PROVE  /\ Entry(f, c, chunked, offset, final) \in Batches
         /\ Entry(f, c, chunked, offset, final) # None
         /\ Entry(f, c, chunked, offset, final).file = f
         /\ Entry(f, c, chunked, offset, final).content = c
         /\ Entry(f, c, chunked, offset, final).chunked = chunked
         /\ Entry(f, c, chunked, offset, final).offset = offset
         /\ Entry(f, c, chunked, offset, final).final = final
BY DEF Entry, Batches, None

LEMMA BatchFacts ==
  ASSUME NEW e \in {None} \cup Batches, e # None
  PROVE  /\ e.file \in Files /\ e.content \in Contents \ {None} /\ e.chunked \in BOOLEAN
         /\ e.offset \in 0..MaxSize /\ e.final \in BOOLEAN
BY DEF Batches

-----------------------------------------------------------------------------
(* Types.                                                                  *)

LEMMA InitType == Init => TypeOK
<1> SUFFICES ASSUME Init PROVE TypeOK
  OBVIOUS
<1>1. \A f \in Files : content[f] \in Contents \ {None}
  <2> SUFFICES ASSUME NEW f \in Files PROVE content[f] \in Contents \ {None}
    OBVIOUS
  <2>1. FirstSize[f] \in 1..MaxSize /\ content[f] = [i \in 1..FirstSize[f] |-> 0] /\ 0 \in Blocks
    BY SizesAssumption DEF Init, Blocks
  <2>2. content[f] \in [1..FirstSize[f] -> Blocks]
    BY <2>1
  <2>3. content[f] \in Seq(Blocks) /\ Len(content[f]) = FirstSize[f]
    BY <2>1, <2>2, SizesAssumption
  <2> QED
    BY <2>1, <2>3, FileIntro
<1>2. content \in [Files -> Contents \ {None}] /\ edits \in 0..MaxEdits /\ stops \in 0..MaxStops
  BY <1>1, SizesAssumption DEF Init
<1>3. /\ pusher \in [Streams -> PushStages] /\ handler \in [Streams -> HandlerStages]
      /\ job \in [Streams -> SUBSET Files] /\ todo \in [Streams -> SUBSET Files]
      /\ uploads \in [Streams -> SUBSET Files] /\ steady \in [Streams -> SUBSET Files]
      /\ stopped \subseteq Streams /\ overlapped \in BOOLEAN
  BY DEF Init, PushStages, HandlerStages
<1>4. size \in [Streams -> [Files -> 0..MaxSize]]
  BY SizesAssumption DEF Init
<1>5. /\ read \in [Streams -> [Files -> Contents]] /\ staging \in [Streams -> [Files -> Contents]]
      /\ dataset \in [Files -> Contents] /\ newest.files \in [Files -> Contents]
      /\ newest.partials \subseteq Streams \X Files
      /\ msg \in [Streams -> {None} \cup Batches]
  BY NoneFacts DEF Init
<1> QED
  BY <1>2, <1>3, <1>4, <1>5 DEF TypeOK

LEMMA EditType ==
  ASSUME TypeOK, NEW f \in Files, Edit(f)
  PROVE  TypeOK'
<1>1. /\ edits' \in Blocks /\ edits' \in 0..MaxEdits /\ content[f] \in Contents
  BY SizesAssumption DEF TypeOK, Edit, Blocks
<1>2. \E c \in Contents \ {None} : content' = [content EXCEPT ![f] = c]
  <2>1. ASSUME NEW i \in DOMAIN content[f], content' = [content EXCEPT ![f][i] = edits']
        PROVE  \E c \in Contents \ {None} : content' = [content EXCEPT ![f] = c]
    <3>1. [content[f] EXCEPT ![i] = edits'] \in Contents \ {None}
      BY <1>1, <2>1, OverwriteFacts
    <3> QED
      BY <2>1, <3>1
  <2>2. CASE Len(content[f]) < MaxSize /\ content' = [content EXCEPT ![f] = Append(@, edits')]
    <3>1. Append(content[f], edits') \in Contents \ {None}
      BY <1>1, <2>2, AppendFacts
    <3> QED
      BY <2>2, <3>1
  <2>3. CASE Len(content[f]) > 1 /\ content' = [content EXCEPT ![f] = Front(@)]
    <3>1. Front(content[f]) \in Contents \ {None}
      BY <1>1, <2>3, FrontFacts
    <3> QED
      BY <2>3, <3>1
  <2> QED
    BY <2>1, <2>2, <2>3 DEF Edit
<1>3. content' \in [Files -> Contents \ {None}] /\ steady' \in [Streams -> SUBSET Files]
  BY <1>2 DEF TypeOK, Edit
<1> QED
  BY <1>1, <1>3 DEF TypeOK, Edit, agent, server

LEMMA BeginType ==
  ASSUME TypeOK, NEW s \in Streams, Begin(s)
  PROVE  TypeOK'
<1>1. \A f \in Files : Len(content[f]) \in 0..MaxSize
  BY FileFacts, SizesAssumption DEF TypeOK
<1>2. size' \in [Streams -> [Files -> 0..MaxSize]]
  BY <1>1 DEF TypeOK, Begin
<1>3. /\ job' \in [Streams -> SUBSET Files] /\ todo' \in [Streams -> SUBSET Files]
      /\ steady' \in [Streams -> SUBSET Files] /\ overlapped' \in BOOLEAN
  BY DEF TypeOK, Begin
<1>4. pusher' \in [Streams -> PushStages] /\ handler' \in [Streams -> HandlerStages]
  BY DEF TypeOK, Begin, PushGoto, HandlerGoto, PushStages, HandlerStages
<1> QED
  BY <1>2, <1>3, <1>4 DEF TypeOK, Begin, source

\* The next block of a file.
LEMMA ChunkFacts ==
  ASSUME TypeOK, NEW s \in Streams, NEW f \in Files, SendChunk(s, f)
  PROVE  LET n == Len(read[s][f])
             b == content[f][n + 1]
         IN
         /\ n \in 0..MaxSize /\ n + 1 \in 1..Len(content[f])
         /\ b \in Blocks /\ n < MaxSize
         /\ read[s][f] \in Contents
         /\ read' = [read EXCEPT ![s][f] = Append(read[s][f], b)]
         /\ msg' = [msg EXCEPT ![s] = Entry(f, <<b>>, TRUE, n, Len(read'[s][f]) = size[s][f])]
<1>1. read[s][f] \in Contents /\ content[f] \in Contents \ {None}
  BY DEF TypeOK
<1>2. Len(read[s][f]) \in 0..MaxSize /\ Len(content[f]) \in 1..MaxSize
  BY <1>1, ContentsFacts, FileFacts
<1>3. Len(read[s][f]) + 1 \in 1..Len(content[f])
  BY <1>2, SizesAssumption DEF SendChunk
<1>4. content[f][Len(read[s][f]) + 1] \in Blocks
  BY <1>1, <1>3, FileFacts
<1>5. Len(read[s][f]) < MaxSize /\ Len(read[s][f]) + 1 - 1 = Len(read[s][f])
  BY <1>2, <1>3, SizesAssumption
<1> QED
  BY <1>1, <1>2, <1>3, <1>4, <1>5 DEF SendChunk, IsFinal

\* The next batch: the file, or its next block.
LEMMA SendType ==
  ASSUME TypeOK, NEW s \in Streams, NEW f \in Files, SendFile(s, f) \/ SendChunk(s, f)
  PROVE  TypeOK'
<1>1. /\ \E c \in Contents : read' = [read EXCEPT ![s][f] = c]
      /\ \E e \in Batches : msg' = [msg EXCEPT ![s] = e]
  <2>1. CASE SendFile(s, f)
    <3>1. content[f] \in Contents \ {None} /\ 0 \in 0..MaxSize
      BY SizesAssumption DEF TypeOK
    <3>2. Entry(f, content[f], FALSE, 0, FALSE) \in Batches
      BY <3>1, EntryFacts
    <3> QED
      BY <2>1, <3>1, <3>2 DEF SendFile
  <2>2. CASE SendChunk(s, f)
    <3> DEFINE n == Len(read[s][f])
               b == content[f][n + 1]
               fin == Len(read'[s][f]) = size[s][f]
    <3>1. /\ n \in 0..MaxSize /\ b \in Blocks /\ n < MaxSize /\ read[s][f] \in Contents
          /\ read' = [read EXCEPT ![s][f] = Append(read[s][f], b)]
          /\ msg' = [msg EXCEPT ![s] = Entry(f, <<b>>, TRUE, n, fin)]
      BY <2>2, ChunkFacts
    <3>2. Append(read[s][f], b) \in Contents
      BY <3>1, AppendFacts
    <3>3. <<b>> \in Contents \ {None} /\ fin \in BOOLEAN
      BY <3>1, SingleFacts
    <3>4. Entry(f, <<b>>, TRUE, n, fin) \in Batches
      BY <3>1, <3>3, EntryFacts
    <3> QED
      BY <3>1, <3>2, <3>4
  <2> QED
    BY <2>1, <2>2
<1>2. read' \in [Streams -> [Files -> Contents]] /\ msg' \in [Streams -> {None} \cup Batches]
  BY <1>1 DEF TypeOK
<1>3. pusher' \in [Streams -> PushStages]
  BY DEF SendFile, SendChunk, PushGoto, TypeOK, PushStages
<1> QED
  BY <1>2, <1>3 DEF TypeOK, SendFile, SendChunk, source, server

LEMMA PushType ==
  ASSUME TypeOK, NEW s \in Streams, Acknowledged(s) \/ CloseSend(s) \/ Confirm(s) \/ PushFails(s)
  PROVE  TypeOK'
<1>1. todo' \in [Streams -> SUBSET Files]
  <2>1. todo' = todo \/ todo' = [todo EXCEPT ![s] = {f \in todo[s] : ~ReadWhole(s, f)}]
    BY DEF Acknowledged, CloseSend, Confirm, PushFails
  <2>2. todo \in [Streams -> SUBSET Files]
    BY DEF TypeOK
  <2> QED
    BY <2>1, <2>2
<1>3. pusher' \in [Streams -> PushStages]
  BY DEF TypeOK, Acknowledged, CloseSend, Confirm, PushFails, PushGoto, PushStages
<1>2. handler' \in [Streams -> HandlerStages]
  BY DEF TypeOK, Acknowledged, CloseSend, Confirm, PushFails, HandlerGoto, HandlerStages, server
<1> QED
  BY <1>1, <1>2, <1>3 DEF TypeOK, Acknowledged, CloseSend, Confirm, PushFails, source, server

\* A chunk that is written makes the staging file what has been read.
LEMMA ChunkWritten ==
  ASSUME TypeOK, NEW s \in Streams, StreamInv(s), WriteChunk(s)
  PROVE  /\ msg[s].file \in Files /\ msg[s].chunked
         /\ staging' = [staging EXCEPT ![s][msg[s].file] = read[s][msg[s].file]]
<1>1. /\ msg[s] # None /\ handler[s] = "recv" /\ msg[s].chunked /\ msg[s].file \in Files
      /\ msg[s].content \in Contents
  BY BatchFacts DEF WriteChunk, TypeOK
<1>2. None \o msg[s].content = msg[s].content
  BY <1>1, ContentsSeq, ConcatEmptySeq DEF None
<1>3. BatchFits(s)
  BY <1>1 DEF StreamInv, UploadsFit
<1>4. (IF msg[s].file \in uploads[s] THEN staging[s][msg[s].file] ELSE None) \o msg[s].content
        = read[s][msg[s].file]
  <2>1. CASE msg[s].file \in uploads[s]
    BY <1>1, <1>3, <2>1 DEF BatchFits
  <2>2. CASE msg[s].file \notin uploads[s]
    BY <1>1, <1>2, <1>3, <2>2 DEF BatchFits, WriteChunk
  <2> QED
    BY <2>1, <2>2
<1> QED
  BY <1>1, <1>4 DEF WriteChunk, NewStaging

LEMMA HandlerType ==
  ASSUME TypeOK, NEW s \in Streams, StreamInv(s), HandlerStep(s) \/ HandlerFails(s)
  PROVE  TypeOK'
<1> USE NoneFacts
<1>1. CASE WriteChunk(s)
  <2>1. /\ staging' \in [Streams -> [Files -> Contents]]
        /\ uploads' \in [Streams -> SUBSET Files]
    <3>1. /\ msg[s].file \in Files
          /\ staging' = [staging EXCEPT ![s][msg[s].file] = read[s][msg[s].file]]
          /\ uploads' = [uploads EXCEPT ![s] = uploads[s] \cup {msg[s].file}]
      BY <1>1, ChunkWritten DEF WriteChunk
    <3>2. /\ staging \in [Streams -> [Files -> Contents]] /\ read[s][msg[s].file] \in Contents
          /\ uploads \in [Streams -> SUBSET Files]
      BY <3>1 DEF TypeOK
    <3> QED
      BY <3>1, <3>2
  <2>2. handler' \in [Streams -> HandlerStages] /\ msg' \in [Streams -> {None} \cup Batches]
    BY <1>1 DEF TypeOK, WriteChunk, HandlerGoto, Ack, HandlerStages
  <2> QED
    BY <1>1, <2>1, <2>2 DEF TypeOK, WriteChunk, source, agent
<1>2. CASE Commit(s)
  <2>1. msg[s].file \in Files
    BY <1>2, BatchFacts DEF Commit, StreamInv, UploadsFit, TypeOK
  <2>2. /\ staging' \in [Streams -> [Files -> Contents]] /\ dataset' \in [Files -> Contents]
        /\ uploads' \in [Streams -> SUBSET Files]
    BY <1>2, <2>1 DEF TypeOK, Commit
  <2>3. handler' \in [Streams -> HandlerStages] /\ msg' \in [Streams -> {None} \cup Batches]
    BY <1>2 DEF TypeOK, Commit, HandlerGoto, Ack, HandlerStages
  <2> QED
    BY <1>2, <2>2, <2>3 DEF TypeOK, Commit, source, agent
<1>3. CASE WriteFile(s)
  <2>1. msg[s].file \in Files /\ msg[s].content \in Contents
    BY <1>3, BatchFacts DEF WriteFile, TypeOK
  <2>2. staging' \in [Streams -> [Files -> Contents]] /\ uploads' \in [Streams -> SUBSET Files]
    <3>1. /\ staging' = [staging EXCEPT ![s][msg[s].file] = msg[s].content]
          /\ uploads' = [uploads EXCEPT ![s] = uploads[s] \cup {msg[s].file}]
      BY <1>3 DEF WriteFile
    <3>2. staging \in [Streams -> [Files -> Contents]] /\ uploads \in [Streams -> SUBSET Files]
      BY DEF TypeOK
    <3> QED
      BY <2>1, <3>1, <3>2
  <2>3. handler' \in [Streams -> HandlerStages]
    BY <1>3 DEF TypeOK, WriteFile, HandlerGoto, HandlerStages
  <2> QED
    BY <1>3, <2>2, <2>3 DEF TypeOK, WriteFile, source, agent
<1>4. CASE TakeSnapshot(s)
  <2>1. newest'.files \in [Files -> Contents] /\ newest'.partials \subseteq Streams \X Files
    BY <1>4 DEF TypeOK, TakeSnapshot
  <2>2. handler' \in [Streams -> HandlerStages]
    BY <1>4 DEF TypeOK, TakeSnapshot, HandlerGoto, HandlerStages
  <2> QED
    BY <1>4, <2>1, <2>2 DEF TypeOK, TakeSnapshot, source, agent
<1>5. CASE ClientGone(s) \/ HandlerFails(s)
  <2>1. uploads' \in [Streams -> SUBSET Files] /\ staging' \in [Streams -> [Files -> Contents]]
    <3>1. /\ uploads' = [uploads EXCEPT ![s] = {}]
          /\ staging' = [staging EXCEPT ![s] =
               [f \in Files |-> IF f \in uploads[s] THEN None ELSE staging[s][f]]]
      BY <1>5 DEF ClientGone, HandlerFails, AbortUploads
    <3>2. staging \in [Streams -> [Files -> Contents]] /\ uploads \in [Streams -> SUBSET Files]
      BY DEF TypeOK
    <3> QED
      BY <3>1, <3>2
  <2>2. handler' \in [Streams -> HandlerStages]
    BY <1>5 DEF TypeOK, ClientGone, HandlerFails, HandlerGoto, HandlerStages
  <2> QED
    BY <1>5, <2>1, <2>2 DEF TypeOK, ClientGone, HandlerFails, source, agent
<1> QED
  BY <1>1, <1>2, <1>3, <1>4, <1>5 DEF HandlerStep

LEMMA StopType ==
  ASSUME TypeOK, Stop
  PROVE  TypeOK'
<1>1. /\ stops' \in 0..MaxStops /\ stopped' \subseteq Streams
      /\ handler' \in [Streams -> HandlerStages] /\ uploads' \in [Streams -> SUBSET Files]
  BY SizesAssumption DEF TypeOK, Stop, HandlerStages
<1> QED
  BY <1>1 DEF TypeOK, Stop, source, agent

LEMMA TypeStep ==
  ASSUME TypeOK, Streaming, [Next]_vars
  PROVE  TypeOK'
<1>1. ASSUME NEW s \in Streams, PushStep(s) \/ HandlerStep(s) \/ HandlerFails(s) PROVE TypeOK'
  BY <1>1, BeginType, SendType, PushType, HandlerType DEF PushStep, Streaming
<1>2. CASE UNCHANGED vars
  BY <1>2 DEF vars, source, agent, server, TypeOK
<1> QED
  BY <1>1, <1>2, EditType, StopType DEF Next

-----------------------------------------------------------------------------
(* The two sides of a stream.                                              *)

\* A step of somebody else, other than a stop, leaves a stream as it is.
LEMMA StreamStays ==
  ASSUME TypeOK, [Next]_vars, NEW s \in Streams,
         ~PushStep(s), ~HandlerStep(s), ~HandlerFails(s), ~Stop
  PROVE  /\ pusher'[s] = pusher[s] /\ job'[s] = job[s] /\ todo'[s] = todo[s]
         /\ size'[s] = size[s] /\ read'[s] = read[s] /\ msg'[s] = msg[s]
         /\ handler'[s] = handler[s] /\ uploads'[s] = uploads[s] /\ staging'[s] = staging[s]
         /\ steady'[s] \subseteq steady[s]
<1> DEFINE Same == /\ pusher'[s] = pusher[s] /\ job'[s] = job[s] /\ todo'[s] = todo[s]
                   /\ size'[s] = size[s] /\ read'[s] = read[s] /\ msg'[s] = msg[s]
                   /\ handler'[s] = handler[s] /\ uploads'[s] = uploads[s] /\ staging'[s] = staging[s]
                   /\ steady'[s] \subseteq steady[s]
<1>1. ASSUME NEW t \in Streams, PushStep(t), t # s PROVE Same
  <2>1. CASE Begin(t)
    BY <1>1, <2>1 DEF Begin, PushGoto, HandlerGoto, TypeOK
  <2>2. ASSUME NEW f \in Files, SendFile(t, f) \/ SendChunk(t, f) PROVE Same
    BY <1>1, <2>2 DEF SendFile, SendChunk, PushGoto, server, TypeOK
  <2>3. CASE Acknowledged(t) \/ CloseSend(t) \/ Confirm(t) \/ PushFails(t)
    BY <1>1, <2>3 DEF Acknowledged, CloseSend, Confirm, PushFails, PushGoto, HandlerGoto, server, TypeOK
  <2> QED
    BY <1>1, <2>1, <2>2, <2>3 DEF PushStep
<1>2. ASSUME NEW t \in Streams, HandlerStep(t) \/ HandlerFails(t), t # s PROVE Same
  <2>1. CASE WriteChunk(t)
    BY <1>2, <2>1 DEF WriteChunk, HandlerGoto, Ack, agent, TypeOK
  <2>2. CASE Commit(t) \/ WriteFile(t) \/ TakeSnapshot(t)
    BY <1>2, <2>2 DEF Commit, WriteFile, TakeSnapshot, HandlerGoto, Ack, agent, TypeOK
  <2>3. CASE ClientGone(t) \/ HandlerFails(t)
    BY <1>2, <2>3 DEF ClientGone, HandlerFails, AbortUploads, HandlerGoto, agent, TypeOK
  <2> QED
    BY <1>2, <2>1, <2>2, <2>3 DEF HandlerStep
<1>3. ASSUME NEW f \in Files, Edit(f) PROVE Same
  BY <1>3 DEF Edit, agent, server, TypeOK
<1>4. CASE UNCHANGED vars
  BY <1>4 DEF vars, agent, server
<1> QED
  BY <1>1, <1>2, <1>3, <1>4 DEF Next

\* The pusher's steps.
LEMMA SendStep ==
  ASSUME TypeOK, NEW s \in Streams, StreamInv(s), NEW f \in Files, SendFile(s, f) \/ SendChunk(s, f)
  PROVE  StreamInv(s)'
<1>1. /\ msg[s] = None /\ pusher[s] = "send" /\ pusher'[s] = "await"
      /\ UNCHANGED <<handler, uploads, staging, size>>
  BY DEF StreamInv, InStep, SendFile, SendChunk, PushGoto, server, TypeOK
<1>2. SUFFICES ASSUME handler[s] \in {"recv", "commit"} PROVE UploadsFit(s)'
  BY <1>1 DEF StreamInv, InStep, Unopened
<1>3. handler[s] = "recv" /\ \A g \in uploads[s] : Large(s, g) /\ staging[s][g] = read[s][g]
  BY <1>1, <1>2 DEF StreamInv, UploadsFit, Pending
<1>4. CASE SendFile(s, f)
  <2>1. /\ content[f] \in Contents \ {None} /\ ~Large(s, f) /\ 0 \in 0..MaxSize
        /\ read' = [read EXCEPT ![s][f] = content[f]]
        /\ msg' = [msg EXCEPT ![s] = Entry(f, content[f], FALSE, 0, FALSE)]
    BY <1>4, SizesAssumption DEF SendFile, TypeOK
  <2>2. msg'[s] # None /\ msg'[s].file = f /\ msg'[s].content = content[f] /\ msg'[s].chunked = FALSE
    <3>1. msg'[s] = Entry(f, content[f], FALSE, 0, FALSE)
      BY <2>1 DEF TypeOK
    <3> QED
      BY <3>1 DEF Entry, None
  <2>3. read'[s][f] = content[f] /\ \A g \in Files : g # f => read'[s][g] = read[s][g]
    BY <2>1 DEF TypeOK
  <2>4. uploads[s] \subseteq Files
    BY DEF TypeOK
  <2> QED
    BY <1>1, <1>3, <2>1, <2>2, <2>3, <2>4 DEF UploadsFit, BatchFits, Large, Pending
<1>5. CASE SendChunk(s, f)
  <2> DEFINE n == Len(read[s][f])
             b == content[f][n + 1]
             fin == Len(read'[s][f]) = size[s][f]
  <2>1. /\ n \in 0..MaxSize /\ b \in Blocks /\ n < MaxSize /\ read[s][f] \in Contents /\ Large(s, f)
        /\ read' = [read EXCEPT ![s][f] = Append(read[s][f], b)]
        /\ msg' = [msg EXCEPT ![s] = Entry(f, <<b>>, TRUE, n, fin)]
    BY <1>5, ChunkFacts DEF SendChunk
  <2>2. Append(read[s][f], b) = read[s][f] \o <<b>>
    BY <2>1, AppendFacts
  <2>3. <<b>> \in Contents \ {None} /\ None \o <<b>> = <<b>> /\ fin \in BOOLEAN
    BY <2>1, SingleFacts
  <2>4. n = 0 => read[s][f] = None
    BY <2>1, FileFacts
  <2>5. /\ msg'[s] # None /\ msg'[s].file = f /\ msg'[s].content = <<b>> /\ msg'[s].chunked
        /\ msg'[s].offset = n /\ msg'[s].final = fin
    <3>1. msg'[s] = Entry(f, <<b>>, TRUE, n, fin)
      BY <2>1 DEF TypeOK
    <3> HIDE DEF n, b, fin
    <3> QED
      BY <3>1 DEF Entry, None
  <2>6. read'[s][f] = read[s][f] \o <<b>> /\ \A g \in Files : g # f => read'[s][g] = read[s][g]
    BY <2>1, <2>2 DEF TypeOK
  <2>7. uploads[s] \subseteq Files
    BY DEF TypeOK
  <2>8. BatchFits(s)'
    <3>1. f \in uploads[s] => read'[s][f] = staging[s][f] \o <<b>>
      BY <1>3, <2>6
    <3>2. n = 0 => read'[s][f] = <<b>>
      BY <2>3, <2>4, <2>6
    <3> HIDE DEF n, b
    <3> QED
      BY <1>1, <2>1, <2>5, <3>1, <3>2 DEF BatchFits, Large
  <2>9. \A g \in uploads[s] : Large(s, g)' /\ ((handler[s] = "recv" /\ Pending(s, g)') \/ staging[s][g] = read'[s][g])
    BY <1>1, <1>3, <2>5, <2>6, <2>7 DEF Large, Pending
  <2> QED
    BY <1>1, <1>3, <2>8, <2>9 DEF UploadsFit
<1> QED
  BY <1>4, <1>5

LEMMA PushInv ==
  ASSUME TypeOK, NEW s \in Streams, StreamInv(s), PushStep(s)
  PROVE  StreamInv(s)'
<1>1. CASE Begin(s)
  <2>1. /\ uploads'[s] = {} /\ msg'[s] = None /\ pusher'[s] = "send" /\ handler'[s] = "recv"
    BY <1>1 DEF StreamInv, Unopened, Begin, PushGoto, HandlerGoto, TypeOK
  <2> QED
    BY <2>1 DEF StreamInv, InStep, Unopened, UploadsFit
<1>2. ASSUME NEW f \in Files, SendFile(s, f) \/ SendChunk(s, f) PROVE StreamInv(s)'
  BY <1>2, SendStep
<1>3. CASE Acknowledged(s) \/ Confirm(s) \/ PushFails(s)
  <2>1. /\ UNCHANGED <<size, read, msg, handler, uploads, staging>> /\ pusher'[s] # "idle"
        /\ msg[s] # None => pusher'[s] = "failed"
        /\ handler[s] \in {"eof", "ok"} => pusher'[s] \in {"done", "failed"}
    BY <1>3 DEF StreamInv, InStep, Acknowledged, Confirm, PushFails, PushGoto, server, TypeOK
  <2> QED
    BY <2>1 DEF StreamInv, InStep, Unopened, UploadsFit, BatchFits, Large, Pending
<1>4. CASE CloseSend(s)
  <2>1. /\ UNCHANGED <<size, read, msg, uploads, staging>> /\ pusher'[s] = "close" /\ msg[s] = None
        /\ handler'[s] \in {"recv", "commit"} => handler'[s] = "commit" /\ handler[s] = "commit"
    BY <1>4 DEF StreamInv, InStep, CloseSend, PushGoto, HandlerGoto, TypeOK
  <2> QED
    BY <2>1 DEF StreamInv, InStep, Unopened, UploadsFit
<1> QED
  BY <1>1, <1>2, <1>3, <1>4 DEF PushStep

LEMMA HandlerInv ==
  ASSUME TypeOK, NEW s \in Streams, StreamInv(s), HandlerStep(s) \/ HandlerFails(s)
  PROVE  StreamInv(s)'
<1>1. CASE WriteChunk(s)
  <2>1. /\ msg[s] # None /\ msg[s].file \in Files /\ msg[s].chunked /\ handler[s] = "recv"
        /\ staging' = [staging EXCEPT ![s][msg[s].file] = read[s][msg[s].file]]
        /\ uploads' = [uploads EXCEPT ![s] = uploads[s] \cup {msg[s].file}]
        /\ UNCHANGED <<pusher, size, read>>
    BY <1>1, ChunkWritten DEF WriteChunk, agent
  <2>2. /\ uploads'[s] = uploads[s] \cup {msg[s].file} /\ uploads[s] \subseteq Files
        /\ staging'[s][msg[s].file] = read[s][msg[s].file]
        /\ \A g \in Files : g # msg[s].file => staging'[s][g] = staging[s][g]
    BY <2>1 DEF TypeOK
  <2>3. /\ \A g \in uploads[s] : Large(s, g) /\ (g = msg[s].file \/ staging[s][g] = read[s][g])
        /\ Large(s, msg[s].file) /\ (msg[s].final <=> Len(read[s][msg[s].file]) = size[s][msg[s].file])
    BY <2>1 DEF StreamInv, UploadsFit, BatchFits, Pending
  <2>4. \A g \in uploads'[s] : Large(s, g)' /\ staging'[s][g] = read'[s][g]
    BY <2>1, <2>2, <2>3 DEF Large
  <2>5. CASE msg[s].final
    <3>1. msg' = msg /\ handler'[s] = "commit"
      BY <1>1, <2>5 DEF WriteChunk, HandlerGoto, TypeOK
    <3> QED
      BY <2>1, <2>2, <2>3, <2>4, <2>5, <3>1 DEF StreamInv, InStep, Unopened, UploadsFit, BatchFits, Large
  <2>6. CASE ~msg[s].final
    <3>1. msg'[s] = None /\ handler'[s] = "recv"
      BY <1>1, <2>1, <2>6 DEF WriteChunk, Ack, TypeOK
    <3> QED
      BY <2>1, <2>4, <3>1 DEF StreamInv, InStep, Unopened, UploadsFit
  <2> QED
    BY <2>5, <2>6
<1>2. CASE Commit(s)
  <2>1. /\ msg[s].file \in Files /\ handler[s] = "commit"
        /\ \A g \in uploads[s] : (g # msg[s].file => Large(s, g)) /\ staging[s][g] = read[s][g]
    BY <1>2, BatchFacts DEF Commit, StreamInv, UploadsFit, Pending, TypeOK
  <2>2. /\ staging' = [staging EXCEPT ![s][msg[s].file] = None]
        /\ uploads'[s] = uploads[s] \ {msg[s].file} /\ uploads[s] \subseteq Files
        /\ handler'[s] = "recv" /\ msg'[s] = None /\ UNCHANGED <<pusher, size, read>>
    BY <1>2 DEF Commit, HandlerGoto, Ack, agent, TypeOK
  <2>3. \A g \in Files : g # msg[s].file => staging'[s][g] = staging[s][g]
    BY <2>1, <2>2 DEF TypeOK
  <2>4. \A g \in uploads'[s] : Large(s, g)' /\ staging'[s][g] = read'[s][g]
    BY <2>1, <2>2, <2>3 DEF Large
  <2> QED
    BY <2>1, <2>2, <2>4 DEF StreamInv, InStep, Unopened, UploadsFit
<1>3. CASE WriteFile(s)
  <2> DEFINE f == msg[s].file
  <2>1. /\ handler[s] = "recv" /\ msg[s] # None /\ ~msg[s].chunked /\ f \notin uploads[s]
        /\ f \in Files /\ BatchFits(s)
    BY <1>3, BatchFacts DEF WriteFile, StreamInv, UploadsFit, TypeOK
  <2>2. /\ staging' = [staging EXCEPT ![s][f] = msg[s].content]
        /\ uploads'[s] = uploads[s] \cup {f} /\ uploads[s] \subseteq Files
        /\ handler'[s] = "commit" /\ UNCHANGED <<pusher, size, read, msg>>
    BY <1>3 DEF WriteFile, HandlerGoto, agent, TypeOK
  <2>3. /\ staging'[s][f] = msg[s].content
        /\ \A g \in Files : g # f => staging'[s][g] = staging[s][g]
    BY <2>1, <2>2 DEF TypeOK
  <2>4. msg[s].content = read[s][f] /\ ~Large(s, f)
    BY <2>1 DEF BatchFits
  <2>5. \A g \in uploads[s] : Large(s, g) /\ staging[s][g] = read[s][g]
    BY <2>1 DEF StreamInv, UploadsFit, Pending
  <2>6. \A g \in uploads'[s] : (Large(s, g)' \/ g = f) /\ staging'[s][g] = read'[s][g]
    BY <2>2, <2>3, <2>4, <2>5 DEF Large
  <2>7. BatchFits(s)'
    BY <2>1, <2>2, <2>4 DEF BatchFits, Large
  <2>8. UploadsFit(s)'
    BY <2>1, <2>2, <2>6, <2>7 DEF UploadsFit, Pending
  <2> QED
    BY <2>1, <2>2, <2>8 DEF StreamInv, InStep, Unopened
<1>4. CASE TakeSnapshot(s)
  <2>1. /\ handler'[s] \in {"ok", "failed"} /\ handler[s] = "eof" /\ UNCHANGED <<pusher, msg>>
    BY <1>4 DEF TakeSnapshot, HandlerGoto, agent, TypeOK
  <2> QED
    BY <2>1 DEF StreamInv, InStep, Unopened
<1>5. CASE ClientGone(s) \/ HandlerFails(s)
  <2>1. handler'[s] = "failed" /\ handler[s] # "free" /\ UNCHANGED <<pusher, msg>>
    BY <1>5 DEF ClientGone, HandlerFails, Serving, HandlerGoto, agent, TypeOK
  <2> QED
    BY <2>1 DEF StreamInv, InStep, Unopened
<1> QED
  BY <1>1, <1>2, <1>3, <1>4, <1>5 DEF HandlerStep

LEMMA StopInv ==
  ASSUME TypeOK, NEW s \in Streams, StreamInv(s), Stop
  PROVE  StreamInv(s)'
<1>1. /\ handler'[s] \notin {"recv", "commit"} /\ (handler[s] = "free" => handler'[s] = "free")
      /\ handler'[s] \in {"eof", "ok"} => handler'[s] = handler[s]
      /\ uploads'[s] = {} /\ UNCHANGED <<pusher, msg, read>>
  BY DEF Stop, Serving, agent, TypeOK
<1> QED
  BY <1>1 DEF StreamInv, InStep, Unopened

LEMMA StreamingStep ==
  ASSUME TypeOK, Streaming, [Next]_vars
  PROVE  Streaming'
<1> SUFFICES ASSUME NEW s \in Streams PROVE StreamInv(s)'
  BY DEF Streaming
<1>1. StreamInv(s)
  BY DEF Streaming
<1>2. CASE ~PushStep(s) /\ ~HandlerStep(s) /\ ~HandlerFails(s) /\ ~Stop
  <2>1. /\ pusher'[s] = pusher[s] /\ size'[s] = size[s] /\ read'[s] = read[s] /\ msg'[s] = msg[s]
        /\ handler'[s] = handler[s] /\ uploads'[s] = uploads[s] /\ staging'[s] = staging[s]
    BY <1>2, StreamStays
  <2> QED
    BY <1>1, <2>1 DEF StreamInv, InStep, Unopened, UploadsFit, BatchFits, Large, Pending
<1> QED
  BY <1>1, <1>2, PushInv, HandlerInv, StopInv

-----------------------------------------------------------------------------
(* Staging files.                                                          *)

LEMMA AbortStep ==
  ASSUME TypeOK, AbortLeavesNothing, [Next]_vars
  PROVE  AbortLeavesNothing'
<1> SUFFICES ASSUME NEW s \in Streams, NEW f \in Files, staging'[s][f] # None
             PROVE  (Serving(s)' /\ f \in uploads'[s]) \/ s \in stopped'
  BY DEF AbortLeavesNothing
<1>0. staging[s][f] # None => (Serving(s) /\ f \in uploads[s]) \/ s \in stopped
  BY DEF AbortLeavesNothing
<1>s. stopped \subseteq stopped'
  <2>1. ASSUME NEW t \in Streams, PushStep(t) PROVE stopped' = stopped
    BY <2>1 DEF PushStep, Begin, SendFile, SendChunk, Acknowledged, CloseSend, Confirm, PushFails, server
  <2>2. ASSUME NEW t \in Streams, HandlerStep(t) \/ HandlerFails(t) PROVE stopped' = stopped
    BY <2>2 DEF HandlerStep, WriteChunk, Commit, WriteFile, TakeSnapshot, ClientGone, HandlerFails
  <2> QED
    BY <2>1, <2>2 DEF Next, Edit, Stop, server, vars
<1>1. CASE ~PushStep(s) /\ ~HandlerStep(s) /\ ~HandlerFails(s) /\ ~Stop
  <2>1. handler'[s] = handler[s] /\ uploads'[s] = uploads[s] /\ staging'[s] = staging[s]
    BY <1>1, StreamStays
  <2> QED
    BY <1>0, <1>s, <2>1 DEF Serving
<1>2. CASE PushStep(s)
  <2>1. /\ UNCHANGED <<uploads, staging>>
        /\ handler'[s] = handler[s] \/ handler'[s] \in {"recv", "eof"}
    BY <1>2 DEF PushStep, Begin, SendFile, SendChunk, Acknowledged, CloseSend, Confirm, PushFails,
                HandlerGoto, server, TypeOK
  <2> QED
    BY <1>0, <1>s, <2>1 DEF Serving
<1>3. CASE WriteChunk(s)
  <2>1. /\ handler'[s] \in {"recv", "commit"} /\ handler[s] = "recv"
        /\ uploads'[s] = uploads[s] \cup {msg[s].file}
        /\ f # msg[s].file => staging'[s][f] = staging[s][f]
    BY <1>3 DEF WriteChunk, HandlerGoto, TypeOK
  <2> QED
    BY <1>0, <1>s, <2>1 DEF Serving
<1>4. CASE Commit(s)
  <2>1. /\ handler'[s] = "recv" /\ handler[s] = "commit" /\ uploads'[s] = uploads[s] \ {msg[s].file}
        /\ staging' = [staging EXCEPT ![s][msg[s].file] = None]
    BY <1>4 DEF Commit, HandlerGoto, TypeOK
  <2>2. f # msg[s].file /\ staging'[s][f] = staging[s][f]
    BY <2>1 DEF TypeOK
  <2> QED
    BY <1>0, <1>s, <2>1, <2>2 DEF Serving
<1>5. CASE WriteFile(s)
  <2>1. /\ handler'[s] = "commit" /\ handler[s] = "recv"
        /\ uploads'[s] = uploads[s] \cup {msg[s].file}
        /\ f # msg[s].file => staging'[s][f] = staging[s][f]
    BY <1>5 DEF WriteFile, HandlerGoto, TypeOK
  <2> QED
    BY <1>0, <1>s, <2>1 DEF Serving
<1>6. CASE TakeSnapshot(s)
  BY <1>0, <1>s, <1>6 DEF TakeSnapshot
<1>7. CASE ClientGone(s) \/ HandlerFails(s)
  <2>1. staging' = [staging EXCEPT ![s] = [g \in Files |-> IF g \in uploads[s] THEN None ELSE staging[s][g]]]
    BY <1>7 DEF ClientGone, HandlerFails, AbortUploads
  <2>2. f \notin uploads[s] /\ staging'[s][f] = staging[s][f]
    BY <2>1 DEF TypeOK
  <2> QED
    BY <1>0, <1>s, <2>2
<1>8. CASE Stop
  BY <1>0, <1>8 DEF Stop
<1> QED
  BY <1>1, <1>2, <1>3, <1>4, <1>5, <1>6, <1>7, <1>8 DEF HandlerStep

-----------------------------------------------------------------------------
(* What reaches the dataset.                                               *)

\* What is renamed over a target, a completed upload or a small file, is what the stream has
\* read of the path, whole.
LEMMA Delivered ==
  ASSUME TypeOK, NEW s \in Streams, StreamInv(s), Commit(s)
  PROVE  LET f == msg[s].file IN
         /\ f \in Files /\ msg[s] # None /\ msg'[s] = None
         /\ dataset' = [dataset EXCEPT ![f] = read[s][f]]
         /\ ReadWhole(s, f)
         /\ UNCHANGED agent /\ Serving(s) /\ Serving(s)' /\ handler'[s] = "recv"
<1> DEFINE e == msg[s]
           f == msg[s].file
<1>1. /\ e # None /\ UploadsFit(s) /\ BatchFits(s) /\ msg'[s] = None /\ UNCHANGED agent
      /\ (e.chunked => e.final) /\ f \in uploads[s] /\ handler[s] = "commit"
  BY DEF Commit, Ack, StreamInv, UploadsFit, TypeOK
<1>2. Serving(s) /\ Serving(s)' /\ handler'[s] = "recv"
  BY DEF Commit, HandlerGoto, Serving, TypeOK
<1>3. f \in Files /\ e.content \in Contents \ {None} /\ e.chunked \in BOOLEAN
  BY <1>1, BatchFacts DEF TypeOK
<1>4. staging[s][f] = read[s][f]
  BY <1>1 DEF UploadsFit
<1>5. dataset' = [dataset EXCEPT ![f] = read[s][f]]
  BY <1>4 DEF Commit
<1>6. ReadWhole(s, f)
  <2>1. CASE e.chunked
    <3>1. Large(s, f) /\ Len(read[s][f]) = size[s][f]
      BY <1>1, <2>1 DEF BatchFits
    <3>2. read[s][f] # None
      BY <1>3, <3>1, NoneFacts DEF Large, TypeOK
    <3> QED
      BY <3>1, <3>2 DEF ReadWhole
  <2>2. CASE ~e.chunked
    <3>1. e.content = read[s][f] /\ ~Large(s, f)
      BY <1>1, <2>2 DEF BatchFits
    <3> QED
      BY <1>3, <3>1 DEF ReadWhole
  <2> QED
    BY <2>1, <2>2
<1> QED
  BY <1>1, <1>2, <1>3, <1>5, <1>6

\* No other step touches a target file.
LEMMA DatasetStays ==
  ASSUME [Next]_vars, \A s \in Streams : ~Commit(s)
  PROVE  dataset' = dataset
<1>1. ASSUME NEW s \in Streams, PushStep(s) PROVE dataset' = dataset
  BY <1>1 DEF PushStep, Begin, SendFile, SendChunk, Acknowledged, CloseSend, Confirm, PushFails, server
<1>2. ASSUME NEW s \in Streams, HandlerStep(s) \/ HandlerFails(s) PROVE dataset' = dataset
  BY <1>2 DEF HandlerStep, WriteChunk, WriteFile, TakeSnapshot, ClientGone, HandlerFails
<1> QED
  BY <1>1, <1>2 DEF Next, Edit, Stop, server, vars

LEMMA PublishedStep ==
  ASSUME TypeOK, Streaming, [Next]_vars, NEW f \in Files, dataset'[f] # dataset[f]
  PROVE  \E s \in Streams :
           /\ dataset'[f] = read[s][f]
           /\ Large(s, f) => Len(dataset'[f]) = size[s][f]
<1>1. PICK s \in Streams : Commit(s)
  BY DatasetStays
<1>2. /\ msg[s].file \in Files /\ dataset' = [dataset EXCEPT ![msg[s].file] = read[s][msg[s].file]]
      /\ ReadWhole(s, msg[s].file)
  BY <1>1, Delivered DEF Streaming
<1>3. f = msg[s].file /\ dataset'[f] = read[s][f]
  BY <1>2 DEF TypeOK
<1> QED
  BY <1>2, <1>3 DEF ReadWhole

-----------------------------------------------------------------------------
(* What a stream has read.                                                 *)

\* Only the pusher's own steps move it.
LEMMA PusherStays ==
  ASSUME TypeOK, [Next]_vars, NEW s \in Streams, ~PushStep(s)
  PROVE  /\ pusher'[s] = pusher[s] /\ job'[s] = job[s] /\ todo'[s] = todo[s]
         /\ size'[s] = size[s] /\ read'[s] = read[s] /\ steady'[s] \subseteq steady[s]
<1>1. CASE HandlerStep(s) \/ HandlerFails(s) \/ Stop
  BY <1>1 DEF HandlerStep, WriteChunk, Commit, WriteFile, TakeSnapshot, ClientGone, HandlerFails, Stop, agent
<1> QED
  BY <1>1, StreamStays

\* A path that stays unedited keeps its content.
LEMMA SteadyStays ==
  ASSUME TypeOK, [Next]_vars, NEW s \in Streams, NEW f \in steady'[s]
  PROVE  content'[f] = content[f]
<1>1. ASSUME NEW g \in Files, Edit(g) PROVE content'[f] = content[f]
  BY <1>1 DEF Edit, TypeOK
<1>2. ASSUME NEW t \in Streams, PushStep(t) PROVE content' = content
  BY <1>2 DEF PushStep, Begin, SendFile, SendChunk, Acknowledged, CloseSend, Confirm, PushFails, source
<1>3. ASSUME NEW t \in Streams, HandlerStep(t) \/ HandlerFails(t) PROVE content' = content
  BY <1>3 DEF HandlerStep, WriteChunk, Commit, WriteFile, TakeSnapshot, ClientGone, HandlerFails, source
<1> QED
  BY <1>1, <1>2, <1>3 DEF Next, Stop, source, vars

LEMMA ReadBegin ==
  ASSUME TypeOK, NEW s \in Streams, StreamInv(s), Begin(s)
  PROVE  ReadingInv(s)'
<1>1. /\ pusher'[s] = "send" /\ job'[s] = todo'[s] /\ todo'[s] \subseteq Files
      /\ size'[s] = [f \in Files |-> Len(content[f])] /\ content' = content
      /\ \A f \in Files : read'[s][f] = None
  BY DEF StreamInv, Unopened, Begin, PushGoto, source, TypeOK
<1>2. \A f \in Files : Len(content[f]) \in Nat
  BY FileFacts, SizesAssumption DEF TypeOK
<1>3. \A f \in Files : ReadTrue(s, f)' /\ ~ReadWhole(s, f)'
  <2> SUFFICES ASSUME NEW f \in Files PROVE ReadTrue(s, f)' /\ ~ReadWhole(s, f)'
    OBVIOUS
  <2>1. /\ read'[s][f] = None /\ size'[s][f] = Len(content'[f]) /\ Len(content'[f]) \in Nat
        /\ Len(None) = 0 /\ 1..0 = {}
    BY <1>1, <1>2, NoneFacts
  <2> QED
    BY <2>1 DEF ReadTrue, ReadWhole, Large
<1> QED
  BY <1>1, <1>3 DEF ReadingInv

LEMMA ReadSend ==
  ASSUME TypeOK, NEW s \in Streams, ReadingInv(s), NEW f \in Files, SendFile(s, f) \/ SendChunk(s, f)
  PROVE  ReadingInv(s)'
<1>1. /\ pusher[s] = "send" /\ pusher'[s] = "await" /\ f \in todo[s]
      /\ UNCHANGED <<content, job, todo, size, steady>>
      /\ \A g \in Files : g # f => read'[s][g] = read[s][g]
  <2>1. /\ pusher[s] = "send" /\ pusher'[s] = "await" /\ f \in todo[s]
        /\ UNCHANGED <<content, job, todo, size, steady>>
    BY DEF SendFile, SendChunk, PushGoto, source, TypeOK
  <2>2. \E c : read' = [read EXCEPT ![s][f] = c]
    BY DEF SendFile, SendChunk
  <2> QED
    BY <2>1, <2>2 DEF TypeOK
<1>2. \A g \in Files : g # f => (ReadTrue(s, g)' <=> ReadTrue(s, g)) /\ (ReadWhole(s, g)' <=> ReadWhole(s, g))
  BY <1>1 DEF ReadTrue, ReadWhole, Large
<1>3. ~ReadWhole(s, f) /\ (f \in steady[s] => ReadTrue(s, f))
  BY <1>1 DEF ReadingInv
<1>4. ASSUME ReadTrue(s, f) PROVE ReadTrue(s, f)'
  <2>1. CASE SendFile(s, f)
    BY <1>1, <1>4, <2>1 DEF SendFile, ReadTrue, Large, TypeOK
  <2>2. CASE SendChunk(s, f)
    <3> DEFINE n == Len(read[s][f])
               b == content[f][n + 1]
    <3>1. /\ n \in 0..MaxSize /\ b \in Blocks /\ n < MaxSize /\ read[s][f] \in Contents
          /\ n + 1 \in 1..Len(content[f])
          /\ read' = [read EXCEPT ![s][f] = Append(read[s][f], b)]
      BY <2>2, ChunkFacts
    <3>2. /\ Len(Append(read[s][f], b)) = n + 1 /\ Append(read[s][f], b)[n + 1] = b
          /\ \A i \in 1..n : Append(read[s][f], b)[i] = read[s][f][i]
      BY <3>1, AppendFacts
    <3>3. read'[s][f] = Append(read[s][f], b)
      BY <3>1 DEF TypeOK
    <3>4. Large(s, f) /\ size[s][f] = Len(content[f]) /\ \A i \in 1..n : read[s][f][i] = content[f][i]
      BY <1>4, <2>2 DEF SendChunk, ReadTrue
    <3>5. Len(content[f]) \in Nat /\ n \in Nat
      BY <3>1, FileFacts, SizesAssumption DEF TypeOK
    <3>6. /\ Len(read'[s][f]) = n + 1 /\ n + 1 <= size[s][f]
          /\ \A i \in 1..n : read'[s][f][i] = content[f][i]
          /\ read'[s][f][n + 1] = content[f][n + 1]
      BY <3>1, <3>2, <3>3, <3>4, <3>5
    <3> HIDE DEF n, b
    <3>7. \A i \in 1..(n + 1) : read'[s][f][i] = content[f][i]
      BY <3>5, <3>6
    <3> QED
      BY <1>1, <3>4, <3>6, <3>7 DEF ReadTrue, Large
  <2> QED
    BY <2>1, <2>2
<1> QED
  BY <1>1, <1>2, <1>3, <1>4 DEF ReadingInv, TypeOK

LEMMA ReadingStep ==
  ASSUME TypeOK, Streaming, Reading, [Next]_vars
  PROVE  Reading'
<1> SUFFICES ASSUME NEW s \in Streams PROVE ReadingInv(s)'
  BY DEF Reading
<1>0. ReadingInv(s) /\ StreamInv(s)
  BY DEF Reading, Streaming
<1>1. CASE ~PushStep(s)
  <2>1. /\ pusher'[s] = pusher[s] /\ job'[s] = job[s] /\ todo'[s] = todo[s]
        /\ size'[s] = size[s] /\ read'[s] = read[s] /\ steady'[s] \subseteq steady[s]
    BY <1>1, PusherStays
  <2>2. \A f \in Files \cap steady'[s] : content'[f] = content[f]
    BY SteadyStays
  <2>3. \A f \in Files : ReadWhole(s, f)' <=> ReadWhole(s, f)
    BY <2>1 DEF ReadWhole, Large
  <2>4. \A f \in Files \cap steady'[s] : ReadTrue(s, f) => ReadTrue(s, f)'
    BY <2>1, <2>2 DEF ReadTrue, Large
  <2>5. job[s] \subseteq Files /\ todo[s] \subseteq Files
    BY DEF TypeOK
  <2> QED
    BY <1>0, <2>1, <2>3, <2>4, <2>5 DEF ReadingInv
<1>2. CASE Begin(s)
  BY <1>0, <1>2, ReadBegin
<1>3. ASSUME NEW f \in Files, SendFile(s, f) \/ SendChunk(s, f) PROVE ReadingInv(s)'
  BY <1>0, <1>3, ReadSend
<1>4. CASE Acknowledged(s) \/ CloseSend(s) \/ Confirm(s) \/ PushFails(s)
  <2>1. /\ UNCHANGED <<content, job, size, read, steady>> /\ pusher[s] # "idle"
        /\ todo'[s] = todo[s] \/ todo'[s] = {f \in todo[s] : ~ReadWhole(s, f)}
        /\ pusher'[s] = "send" => todo'[s] = {f \in todo[s] : ~ReadWhole(s, f)}
        /\ pusher'[s] = "close" => todo'[s] = {}
    BY <1>4 DEF Acknowledged, CloseSend, Confirm, PushFails, Pushing, PushGoto, source, TypeOK
  <2>2. \A f \in Files : (ReadTrue(s, f)' <=> ReadTrue(s, f)) /\ (ReadWhole(s, f)' <=> ReadWhole(s, f))
    BY <2>1 DEF ReadTrue, ReadWhole, Large
  <2>3. job[s] \subseteq Files /\ todo[s] \subseteq Files
    BY DEF TypeOK
  <2> QED
    BY <1>0, <2>1, <2>2, <2>3 DEF ReadingInv
<1> QED
  BY <1>1, <1>2, <1>3, <1>4 DEF PushStep

-----------------------------------------------------------------------------
(* One stream at a time.                                                   *)

\* Whoever acts is live.
LEMMA ActsLive ==
  ASSUME NEW s \in Streams, PushStep(s) \/ HandlerStep(s) \/ HandlerFails(s)
  PROVE  Begin(s) \/ Live(s)
<1>1. ASSUME NEW f \in Files, SendFile(s, f) \/ SendChunk(s, f) PROVE Pushing(s)
  BY <1>1 DEF SendFile, SendChunk, Pushing
<1>2. Acknowledged(s) \/ CloseSend(s) \/ Confirm(s) \/ PushFails(s) => Pushing(s)
  BY DEF Acknowledged, CloseSend, Confirm, PushFails, Pushing
<1>3. HandlerStep(s) \/ HandlerFails(s) => Serving(s)
  BY DEF HandlerStep, WriteChunk, Commit, WriteFile, TakeSnapshot, ClientGone, HandlerFails, Serving
<1> QED
  BY <1>1, <1>2, <1>3 DEF PushStep, Live

\* A stream becomes live only by being opened.
LEMMA LiveBefore ==
  ASSUME TypeOK, [Next]_vars, NEW s \in Streams, Live(s)', ~Begin(s)
  PROVE  Live(s)
<1>1. CASE ~PushStep(s) /\ ~HandlerStep(s) /\ ~HandlerFails(s) /\ ~Stop
  <2>1. pusher'[s] = pusher[s] /\ handler'[s] = handler[s]
    BY <1>1, StreamStays
  <2> QED
    BY <2>1 DEF Live, Pushing, Serving
<1>2. CASE PushStep(s) \/ HandlerStep(s) \/ HandlerFails(s)
  BY <1>2, ActsLive
<1>3. CASE Stop
  BY <1>3 DEF Stop, Live, Pushing, Serving, agent, TypeOK
<1> QED
  BY <1>1, <1>2, <1>3

\* A stream that begins without overlap is alone.
LEMMA BeginAlone ==
  ASSUME NEW s \in Streams, Begin(s), ~overlapped'
  PROVE  \A t \in Streams : ~Live(t)
BY DEF Begin, Live

\* Beside a live stream nobody else acts.
LEMMA LiveActsAlone ==
  ASSUME [Next]_vars, ~overlapped', OrderlyInv, NEW s \in Streams, Live(s),
         NEW t \in Streams, PushStep(t) \/ HandlerStep(t) \/ HandlerFails(t)
  PROVE  t = s
BY ActsLive, BeginAlone DEF OrderlyInv

LEMMA OverlapStays ==
  ASSUME [Next]_vars, ~overlapped'
  PROVE  ~overlapped
<1>1. ASSUME NEW s \in Streams, PushStep(s) PROVE ~overlapped
  BY <1>1 DEF PushStep, Begin, SendFile, SendChunk, Acknowledged, CloseSend, Confirm, PushFails
<1>2. ASSUME NEW s \in Streams, HandlerStep(s) \/ HandlerFails(s) PROVE ~overlapped
  BY <1>2 DEF HandlerStep, WriteChunk, Commit, WriteFile, TakeSnapshot, ClientGone, HandlerFails
<1> QED
  BY <1>1, <1>2 DEF Next, Edit, Stop, vars

LEMMA OneLive ==
  ASSUME TypeOK, [Next]_vars, ~overlapped', OrderlyInv, NEW s \in Streams, NEW t \in Streams,
         Live(s)', Live(t)'
  PROVE  s = t
<1> SUFFICES ASSUME s # t PROVE FALSE
  OBVIOUS
<1>1. Begin(s) \/ Begin(t)
  BY LiveBefore DEF OrderlyInv
<1>2. \A u \in Streams : ~Live(u)
  BY <1>1, BeginAlone
<1>3. Begin(s) /\ Begin(t)
  BY <1>2, LiveBefore
<1> QED
  BY <1>3 DEF Begin, PushGoto, TypeOK

\* What the only live stream has sent whole stays published.
LEMMA PublishedBegin ==
  ASSUME TypeOK, NEW s \in Streams, StreamInv(s), Begin(s)
  PROVE  Published(s)'
<1>1. pusher'[s] = "send" /\ \A f \in Files : read'[s][f] = None
  BY DEF StreamInv, Unopened, Begin, PushGoto, TypeOK
<1> QED
  BY <1>1 DEF Published, ReadWhole

LEMMA PublishedPush ==
  ASSUME TypeOK, NEW s \in Streams, StreamInv(s), Published(s), PushStep(s), ~Begin(s)
  PROVE  Published(s)'
<1>1. ASSUME NEW f \in Files, SendFile(s, f) \/ SendChunk(s, f) PROVE Published(s)'
  <2>1. pusher[s] = "send" /\ pusher'[s] = "await" /\ UNCHANGED <<size, handler, dataset>>
    BY <1>1 DEF SendFile, SendChunk, PushGoto, server, TypeOK
  <2>2. /\ \E c : read' = [read EXCEPT ![s][f] = c]
        /\ \E c, k, o, n : msg' = [msg EXCEPT ![s] = Entry(f, c, k, o, n)]
    <3>1. CASE SendFile(s, f)
      BY <3>1 DEF SendFile
    <3>2. CASE SendChunk(s, f)
      <4> DEFINE n == Len(read[s][f])
                 b == content[f][n + 1]
                 fin == Len(read'[s][f]) = size[s][f]
      <4>1. /\ read' = [read EXCEPT ![s][f] = Append(read[s][f], b)]
            /\ msg' = [msg EXCEPT ![s] = Entry(f, <<b>>, TRUE, n, fin)]
        BY <3>2, ChunkFacts
      <4> HIDE DEF n, b, fin
      <4> QED
        BY <4>1
    <3> QED
      BY <1>1, <3>1, <3>2
  <2>3. \A g \in Files : g # f => read'[s][g] = read[s][g]
    BY <2>2 DEF TypeOK
  <2>4. msg[s] = None /\ Pending(s, f)'
    <3>1. PICK c, k, o, n : msg'[s] = Entry(f, c, k, o, n)
      BY <2>2 DEF TypeOK
    <3>2. msg'[s] # None /\ msg'[s].file = f
      BY <3>1 DEF Entry, None
    <3> QED
      BY <2>1, <3>2 DEF Pending, StreamInv, InStep
  <2> QED
    BY <2>1, <2>3, <2>4 DEF Published, ReadWhole, Large, Pending, Serving
<1>2. CASE Acknowledged(s) \/ Confirm(s) \/ PushFails(s)
  <2>1. pusher'[s] # "close" /\ UNCHANGED <<size, read, msg, handler, dataset>>
    BY <1>2 DEF Acknowledged, Confirm, PushFails, PushGoto, server, TypeOK
  <2> QED
    BY <2>1 DEF Published, ReadWhole, Large, Pending, Serving
<1>3. CASE CloseSend(s)
  <2>1. /\ pusher[s] = "send" /\ UNCHANGED <<size, read, msg, dataset>>
        /\ handler'[s] = (IF handler[s] = "recv" THEN "eof" ELSE handler[s])
    BY <1>3 DEF CloseSend, HandlerGoto, TypeOK
  <2>2. handler'[s] # "ok" /\ (Serving(s)' => Serving(s))
    BY <2>1 DEF StreamInv, InStep, Serving
  <2> QED
    BY <2>1, <2>2 DEF Published, ReadWhole, Large, Pending
<1> QED
  BY <1>1, <1>2, <1>3 DEF PushStep

LEMMA PublishedHandler ==
  ASSUME TypeOK, NEW s \in Streams, StreamInv(s), ReadingInv(s), Published(s),
         HandlerStep(s) \/ HandlerFails(s)
  PROVE  Published(s)'
<1>1. CASE WriteChunk(s)
  <2>1. /\ handler'[s] \in {"recv", "commit"} /\ handler[s] = "recv"
        /\ UNCHANGED <<size, read, dataset>> /\ msg[s] # None /\ msg[s].chunked
        /\ msg'[s] = msg[s] \/ (~msg[s].final /\ msg'[s] = None)
    BY <1>1 DEF WriteChunk, HandlerGoto, Ack, agent, TypeOK
  <2>2. ~msg[s].final => ~ReadWhole(s, msg[s].file)
    BY <2>1 DEF StreamInv, UploadsFit, BatchFits, ReadWhole
  <2> QED
    BY <2>1, <2>2 DEF Published, Pending, ReadWhole, Large, Serving
<1>2. CASE Commit(s)
  <2>1. /\ msg[s].file \in Files
        /\ dataset' = [dataset EXCEPT ![msg[s].file] = read[s][msg[s].file]]
        /\ UNCHANGED <<size, read>> /\ Serving(s) /\ handler'[s] = "recv"
    BY <1>2, Delivered DEF agent
  <2>2. \A f \in Files : dataset'[f] = (IF f = msg[s].file THEN read[s][f] ELSE dataset[f])
    BY <2>1 DEF TypeOK
  <2> QED
    BY <2>1, <2>2 DEF Published, Pending, ReadWhole, Large
<1>3. CASE TakeSnapshot(s)
  <2>1. /\ handler[s] = "eof" /\ handler'[s] \in {"ok", "failed"} /\ newest'.files = dataset
        /\ UNCHANGED <<pusher, job, read, msg, dataset>>
    BY <1>3 DEF TakeSnapshot, HandlerGoto, agent, TypeOK
  <2>2. ASSUME pusher[s] = "close" PROVE \A f \in job[s] : dataset[f] = read[s][f]
    <3>1. todo[s] = {} /\ msg[s] = None
      BY <2>2 DEF ReadingInv, StreamInv, InStep
    <3>2. \A f \in job[s] : f \in Files /\ ReadWhole(s, f) /\ ~Pending(s, f)
      BY <2>2, <3>1 DEF ReadingInv, Pending, TypeOK
    <3> QED
      BY <2>1, <3>2 DEF Published, Serving
  <2> QED
    BY <2>1, <2>2 DEF Published, Serving
<1>4. CASE ClientGone(s) \/ HandlerFails(s)
  <2>1. handler'[s] = "failed"
    BY <1>4 DEF ClientGone, HandlerFails, HandlerGoto, TypeOK
  <2> QED
    BY <2>1 DEF Published, Serving
<1>5. CASE WriteFile(s)
  <2>1. handler'[s] = "commit" /\ handler[s] = "recv" /\ UNCHANGED <<size, read, msg, dataset>>
    BY <1>5 DEF WriteFile, HandlerGoto, agent, TypeOK
  <2> QED
    BY <2>1 DEF Published, Pending, ReadWhole, Large, Serving
<1> QED
  BY <1>1, <1>2, <1>3, <1>4, <1>5 DEF HandlerStep

LEMMA PublishedStays ==
  ASSUME IInv, [Next]_vars, ~overlapped', NEW s \in Streams
  PROVE  Published(s)'
<1>0. TypeOK /\ OrderlyInv /\ StreamInv(s) /\ ReadingInv(s) /\ Published(s)
  BY OverlapStays DEF IInv, Streaming, Reading, OrderlyInv
<1>1. CASE ~Live(s)'
  BY <1>1 DEF Live, Pushing, Published
<1>2. CASE Begin(s)
  BY <1>0, <1>2, PublishedBegin
<1>3. CASE PushStep(s) /\ ~Begin(s)
  BY <1>0, <1>3, PublishedPush
<1>4. CASE HandlerStep(s) \/ HandlerFails(s)
  BY <1>0, <1>4, PublishedHandler
<1>5. CASE Live(s)' /\ ~PushStep(s) /\ ~HandlerStep(s) /\ ~HandlerFails(s)
  <2>1. Live(s)
    BY <1>0, <1>5, LiveBefore DEF PushStep
  <2>2. \A t \in Streams : ~PushStep(t) /\ ~HandlerStep(t) /\ ~HandlerFails(t)
    BY <1>0, <1>5, <2>1, LiveActsAlone
  <2>3. /\ UNCHANGED <<pusher, job, size, read, msg, dataset, newest>>
        /\ handler'[s] = handler[s] \/ handler'[s] = "gone"
    BY <1>0, <2>2 DEF Next, Edit, Stop, agent, server, vars, TypeOK
  <2> QED
    BY <1>0, <2>3 DEF Published, ReadWhole, Large, Pending, Serving
<1> QED
  BY <1>1, <1>2, <1>3, <1>4, <1>5

-----------------------------------------------------------------------------
(* What a finished stream has backed up.                                   *)

\* A path read whole and never edited since the scan was read as it is.
LEMMA ReadIsContent ==
  ASSUME TypeOK, NEW s \in Streams, NEW f \in Files, ReadTrue(s, f), ReadWhole(s, f)
  PROVE  read[s][f] = content[f]
<1>1. CASE ~Large(s, f)
  BY <1>1 DEF ReadTrue, ReadWhole
<1>2. CASE Large(s, f)
  <2>1. read[s][f] \in Contents /\ content[f] \in Contents
    BY DEF TypeOK
  <2>2. read[s][f] \in Seq(Blocks) /\ content[f] \in Seq(Blocks)
    BY <2>1, ContentsSeq
  <2>3. /\ Len(read[s][f]) = Len(content[f])
        /\ \A i \in 1..Len(read[s][f]) : read[s][f][i] = content[f][i]
    BY <1>2 DEF ReadTrue, ReadWhole
  <2> QED
    BY <2>2, <2>3, SeqEqual
<1> QED
  BY <1>1, <1>2

\* The end of a stream that had no other beside it.
LEMMA KeptConfirm ==
  ASSUME IInv, [Next]_vars, ~overlapped', NEW s \in Streams, Confirm(s)
  PROVE  Kept(s)'
<1>0. TypeOK /\ OrderlyInv /\ StreamInv(s) /\ ReadingInv(s) /\ Published(s)
  BY OverlapStays DEF IInv, Streaming, Reading, OrderlyInv
<1>1. /\ pusher[s] = "close" /\ handler[s] = "ok" /\ pusher'[s] = "done" /\ handler'[s] = "ok"
      /\ UNCHANGED <<content, job, dataset, newest, steady>>
  BY <1>0 DEF Confirm, PushGoto, source, server, TypeOK
<1>2. ASSUME NEW f \in job[s] \cap steady[s] PROVE newest.files[f] = content[f] /\ dataset[f] = content[f]
  <2>1. f \in Files /\ ReadTrue(s, f) /\ ReadWhole(s, f)
    BY <1>0, <1>1 DEF ReadingInv, TypeOK
  <2> QED
    BY <1>0, <1>1, <2>1, ReadIsContent DEF Published
<1>3. ASSUME NEW t \in Streams PROVE ~Live(t)'
  <2>1. ~Live(s)'
    BY <1>1 DEF Live, Pushing, Serving
  <2>2. Live(t)' => Live(t)
    BY <1>0, <1>1, LiveBefore DEF Begin, PushGoto, Confirm, TypeOK
  <2>3. Live(s)
    BY <1>1 DEF Live, Pushing
  <2> QED
    BY <1>0, <2>1, <2>2, <2>3 DEF OrderlyInv
<1> QED
  BY <1>1, <1>2, <1>3 DEF Kept

\* What the other streams, edits and stops do to it afterwards.
LEMMA KeptStays ==
  ASSUME IInv, [Next]_vars, ~overlapped', NEW s \in Streams, pusher[s] = "done"
  PROVE  Kept(s)'
<1>0. TypeOK /\ OrderlyInv /\ Streaming /\ Reading /\ Kept(s) /\ job[s] \subseteq Files
  BY OverlapStays DEF IInv, OrderlyInv, TypeOK
<1>1. /\ \A f \in job[s] \cap steady[s] : newest.files[f] = content[f] /\ dataset[f] = content[f]
      /\ \A t \in Streams : Live(t) => steady[s] \subseteq steady[t]
  BY <1>0 DEF Kept
<1>2. ASSUME NEW t \in Streams, Begin(t) PROVE Kept(s)'
  <2>1. /\ t # s /\ UNCHANGED <<content, dataset, newest>> /\ job'[s] = job[s] /\ steady'[s] = steady[s]
        /\ steady'[t] = Files /\ steady[s] \subseteq Files
    BY <1>0, <1>2 DEF Begin, source, TypeOK
  <2>2. \A u \in Streams : Live(u)' => u = t
    BY <1>0, <1>2, BeginAlone, LiveBefore DEF Begin, PushGoto, TypeOK
  <2> QED
    BY <1>1, <2>1, <2>2 DEF Kept
<1>3. ASSUME \A t \in Streams : ~Begin(t), job'[s] = job[s], steady' = steady, content' = content,
             \A f \in job[s] \cap steady[s] : newest'.files[f] = content[f] /\ dataset'[f] = content[f]
      PROVE  Kept(s)'
  <2>1. \A t \in Streams : Live(t)' => Live(t)
    BY <1>0, <1>3, LiveBefore
  <2> QED
    BY <1>1, <1>3, <2>1 DEF Kept
<1>4. ASSUME NEW f \in Files, Edit(f) PROVE Kept(s)'
  <2>1. /\ UNCHANGED <<pusher, handler, job, dataset, newest>>
        /\ \A g \in Files : g # f => content'[g] = content[g]
        /\ \A t \in Streams : steady'[t] = steady[t] \ {f}
    BY <1>0, <1>4 DEF Edit, agent, server, TypeOK
  <2>2. \A t \in Streams : Live(t)' <=> Live(t)
    BY <2>1 DEF Live, Pushing, Serving
  <2> QED
    BY <1>0, <1>1, <2>1, <2>2 DEF Kept
<1>5. ASSUME NEW t \in Streams, Commit(t) PROVE Kept(s)'
  <2> DEFINE g == msg[t].file
  <2>1. /\ g \in Files /\ dataset' = [dataset EXCEPT ![g] = read[t][g]] /\ ReadWhole(t, g)
        /\ UNCHANGED job /\ Serving(t)
    BY <1>0, <1>5, Delivered DEF Streaming, agent
  <2>2. UNCHANGED <<content, newest, steady, pusher>>
    BY <1>5 DEF Commit, source, agent
  <2>3. ASSUME g \in steady[s] PROVE read[t][g] = content[g]
    <3>1. g \in steady[t] /\ pusher[t] # "idle"
      BY <1>0, <1>1, <2>1, <2>3 DEF Live, Serving, Streaming, StreamInv, Unopened
    <3>2. ReadTrue(t, g)
      BY <1>0, <2>1, <3>1 DEF Reading, ReadingInv
    <3> QED
      BY <1>0, <2>1, <3>2, ReadIsContent
  <2>4. \A f \in job[s] \cap steady[s] : newest'.files[f] = content[f] /\ dataset'[f] = content[f]
    BY <1>0, <1>1, <2>1, <2>2, <2>3 DEF TypeOK
  <2>5. \A u \in Streams : ~Begin(u)
    BY <1>0, <2>2 DEF Begin, PushGoto, TypeOK
  <2> QED
    BY <1>3, <2>1, <2>2, <2>4, <2>5
<1>6. ASSUME NEW t \in Streams, TakeSnapshot(t) PROVE Kept(s)'
  <2>1. UNCHANGED <<content, job, steady, pusher, dataset>> /\ newest'.files = dataset
    BY <1>6 DEF TakeSnapshot, source, agent
  <2>2. \A u \in Streams : ~Begin(u)
    BY <1>0, <2>1 DEF Begin, PushGoto, TypeOK
  <2> QED
    BY <1>1, <1>3, <2>1, <2>2
<1>7. CASE UNCHANGED <<content, job, steady, dataset, newest>> /\ \A t \in Streams : ~Begin(t)
  BY <1>1, <1>3, <1>7
<1>8. ASSUME NEW t \in Streams, PushStep(t) PROVE Begin(t) \/ UNCHANGED <<content, job, steady, dataset, newest>>
  BY <1>8 DEF PushStep, SendFile, SendChunk, Acknowledged, CloseSend, Confirm, PushFails, source, server
<1>9. ASSUME NEW t \in Streams, HandlerStep(t) \/ HandlerFails(t)
      PROVE  Commit(t) \/ TakeSnapshot(t) \/ UNCHANGED <<content, job, steady, dataset, newest>>
  BY <1>9 DEF HandlerStep, WriteChunk, WriteFile, ClientGone, HandlerFails, source, agent
<1>10. Stop \/ UNCHANGED vars => UNCHANGED <<content, job, steady, dataset, newest>>
  BY DEF Stop, vars, source, agent, server
<1> QED
  BY <1>2, <1>4, <1>5, <1>6, <1>7, <1>8, <1>9, <1>10 DEF Next

LEMMA OrderlyStep ==
  ASSUME IInv, [Next]_vars, ~overlapped'
  PROVE  OrderlyInv'
<1>0. TypeOK /\ OrderlyInv
  BY OverlapStays DEF IInv
<1>1. ASSUME NEW s \in Streams PROVE Kept(s)'
  <2>1. pusher'[s] = "done" => pusher[s] = "done" \/ Confirm(s)
    <3>1. ASSUME PushStep(s), ~Confirm(s) PROVE pusher'[s] # "done"
      BY <1>0, <3>1 DEF PushStep, Begin, SendFile, SendChunk, Acknowledged, CloseSend, PushFails, PushGoto, TypeOK
    <3> QED
      BY <1>0, <3>1, PusherStays
  <2> QED
    BY <2>1, KeptConfirm, KeptStays DEF Kept
<1>2. \A s, t \in Streams : Live(s)' /\ Live(t)' => s = t
  BY <1>0, OneLive
<1> QED
  BY <1>1, <1>2, PublishedStays DEF OrderlyInv

-----------------------------------------------------------------------------
(* The theorems.                                                           *)

LEMMA InitInv == Init => IInv
<1> SUFFICES ASSUME Init PROVE IInv
  OBVIOUS
<1>1. \A s \in Streams : /\ pusher[s] = "idle" /\ handler[s] = "free" /\ msg[s] = None /\ uploads[s] = {}
                         /\ \A f \in Files : read[s][f] = None /\ staging[s][f] = None
  BY DEF Init
<1>2. \A s \in Streams : StreamInv(s) /\ ReadingInv(s) /\ ~Live(s) /\ Published(s) /\ Kept(s)
  BY <1>1 DEF StreamInv, InStep, Unopened, ReadingInv, Live, Pushing, Serving, Published, Kept
<1>3. AbortLeavesNothing
  BY <1>1 DEF AbortLeavesNothing
<1> QED
  BY <1>2, <1>3, InitType DEF IInv, Streaming, Reading, OrderlyInv

LEMMA StepInv == IInv /\ [Next]_vars => IInv'
<1> SUFFICES ASSUME IInv, [Next]_vars PROVE IInv'
  OBVIOUS
<1>1. TypeOK /\ Streaming /\ Reading /\ AbortLeavesNothing
  BY DEF IInv
<1> QED
  BY <1>1, TypeStep, StreamingStep, ReadingStep, AbortStep, OrderlyStep DEF IInv

\* Every reachable state satisfies the invariant that the theorems below rest on.
THEOREM Inductive == Spec => []IInv
BY InitInv, StepInv, PTL DEF Spec

\* Contents, batches and staging files stay what they are: no interleaving of pushers,
\* handlers, edits and stops makes a file longer than the bound or a batch without blocks.
THEOREM TypeCorrect == Spec => []TypeOK
<1>1. IInv => TypeOK
  BY DEF IInv
<1> QED
  BY <1>1, Inductive, PTL

\* However a handler ends, but for a stop of the Server, the deferred abortUploads leaves no
\* staging file: one that exists is in partialUploads of a handler that still runs.
THEOREM AbortsAreClean == Spec => []AbortLeavesNothing
<1>1. IInv => AbortLeavesNothing
  BY DEF IInv
<1> QED
  BY <1>1, Inductive, PTL

\* WriteFile and ChunkWriter.Commit replace a target only by what one stream has read of
\* the file as a whole, whatever other streams, failures and stops there are.
THEOREM OnlyWholeFiles == Spec => PublishedWhole
<1> DEFINE Whole == \A f \in Files : dataset'[f] # dataset[f] =>
                      \E s \in Streams :
                        /\ dataset'[f] = read[s][f]
                        /\ Large(s, f) => Len(dataset'[f]) = size[s][f]
<1>1. ASSUME IInv, [Next]_vars PROVE [Whole]_vars
  BY <1>1, PublishedStep DEF IInv
<1> QED
  BY <1>1, Inductive, PTL DEF Spec, PublishedWhole

\* A stream whose terminal read succeeded, and that no other overlapped, has every file that
\* was not edited since the scan in the newest snapshot, as it is on the disk.
THEOREM SnapshotIsFaithful == Spec => []FaithfulSnapshot
<1>1. IInv => FaithfulSnapshot
  BY DEF IInv, OrderlyInv, Kept, FaithfulSnapshot
<1> QED
  BY <1>1, Inductive, PTL

=============================================================================
