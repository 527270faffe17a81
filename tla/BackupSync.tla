----------------------------- MODULE BackupSync -----------------------------
(***************************************************************************)
(* How the files of one user reach one Server: an Agent worker scans the   *)
(* source roots, compares each scan with the rows of file_snapshots, and   *)
(* pushes what differs, one stream per changed root, in batches that are   *)
(* acknowledged one by one.  The Server writes each batch into the live    *)
(* dataset file by file and takes a snapshot when the stream is closed;    *)
(* only then does the Agent write its rows.                                *)
(*                                                                         *)
(* Files change at any time, and so do the rules: every attempt merges the *)
(* Server's global rules, fetched anew, with those its task was given.     *)
(* Several tasks of one user may run at once.  A worker may end, or start  *)
(* again, while the handler of a stream it has left still works on the     *)
(* last batch it received.                                                 *)
(*                                                                         *)
(* What a file contains (with its mtime, size and mode) is a version       *)
(* number, 0 when there is no file.  Every write makes a new version: that *)
(* an old one with its mtime comes back (a rename, cp -p) is left out.     *)
(***************************************************************************)
EXTENDS Naturals, Sequences, FiniteSets, FiniteSetsExt

CONSTANTS
  Files,        \* archive paths
  RuleSets,     \* what the rules merged for an attempt may come to: a sequence of source
                \* roots, each with the paths below its prefix (under) and those of them
                \* that no exclude pattern of its rule matches (scanned)
  Runs,         \* syncToServerWithRetry calls, of any tasks
  Streams,      \* PushBackup streams, in whatever run
  NoStream,
  BatchSize,    \* files of one batch
  MayOverlap,   \* bound: whether a transfer may begin beside another of the user
  MaxWrites     \* bound: writes to source files

ASSUME RootsAssumption ==
  \A rs \in RuleSets :
    /\ rs \in Seq([under: SUBSET Files, scanned: SUBSET Files])
    /\ \A r \in DOMAIN rs : rs[r].scanned \subseteq rs[r].under
ASSUME StreamsAssumption == NoStream \notin Streams /\ IsFiniteSet(Files)
ASSUME SizesAssumption == BatchSize \in Nat \ {0} /\ MaxWrites \in Nat /\ MayOverlap \in BOOLEAN

VARIABLES
  disk,        \* the source files
  writes,      \* versions made so far
  rows,        \* file_snapshots: the version each path was last recorded with
  live,        \* the Server's dataset
  newest,      \* the content of its newest snapshot
  stage,       \* stage[k]: where run k is
  rules,       \* rules[k]: the source roots of its present attempt, in the order of the rules
  root,        \* root[k]: the root run k works on
  seen,        \* seen[k]: the scan of that root
  plan,        \* plan[k][r]: root r's diffs, changed path -> scanned version
  left,        \* left[k]: paths of the root still to be sent, then to be recorded
  stream,      \* stream[k]: the stream run k has open
  handler,     \* handler[h]: where stream h's handler is
  inbox,       \* inbox[h]: what it has still to apply, path -> content
  removed,     \* history: paths that were ever removed from the disk
  overlapped,  \* history: a run started, or a stream opened, beside a live one
  faulty,      \* history: some attempt did not succeed
  steady,      \* steady[k], history: paths unchanged since run k's attempt began
  dropped      \* history: paths with a row that an attempt began to delete because its rules
               \* leave them out, until a version of them is recorded again

source  == <<disk, writes, removed>>
server  == <<live, newest>>
serving == <<handler, inbox>>
run     == <<stage, rules, root, seen, plan, left, stream>>
ghosts  == <<overlapped, faulty, steady, dropped>>
vars    == <<source, rows, server, serving, run, ghosts>>

RootNumbers == UNION {DOMAIN rs : rs \in RuleSets}

Roots(k)  == DOMAIN rules[k]
NRoots(k) == Len(rules[k])

Versions == 0..MaxWrites
Absent   == 0

\* What a path maps to when some paths are mapped.
Diffs == UNION {[S -> Versions] : S \in SUBSET Files}
Empty == [f \in {} |-> Absent]
NoDiffs == [r \in RootNumbers |-> Empty]
Unseen  == [f \in Files |-> Absent]

RunStages     == {"idle", "scan", "diff", "push", "send", "await", "close", "record",
                  "done", "failed"}
HandlerStages == {"free", "recv", "apply", "eof", "taken", "ended"}

Active(k) == stage[k] \notin {"idle", "done", "failed"}
Serving(h) == handler[h] \in {"recv", "apply", "eof", "taken"}

TypeOK ==
  /\ disk \in [Files -> Versions]
  /\ writes \in Versions
  /\ rows \in [Files -> Versions]
  /\ live \in [Files -> Versions]
  /\ newest \in [Files -> Versions]
  /\ stage \in [Runs -> RunStages]
  /\ rules \in [Runs -> RuleSets \cup {<<>>}]
  /\ root \in [Runs -> Nat]
  /\ seen \in [Runs -> [Files -> Versions]]
  /\ plan \in [Runs -> [RootNumbers -> Diffs]]
  /\ left \in [Runs -> SUBSET Files]
  /\ stream \in [Runs -> Streams \cup {NoStream}]
  /\ handler \in [Streams -> HandlerStages]
  /\ inbox \in [Streams -> Diffs]
  /\ removed \subseteq Files
  /\ overlapped \in BOOLEAN
  /\ faulty \in BOOLEAN
  /\ steady \in [Runs -> SUBSET Files]
  /\ dropped \subseteq Files
  /\ \A k \in Runs : root[k] \in 1..NRoots(k) + 1
  /\ \A k \in Runs : stream[k] # NoStream <=> stage[k] \in {"send", "await", "close"}
  /\ \A h \in Streams : inbox[h] # Empty => handler[h] = "apply"

Init ==
  /\ disk = Unseen
  /\ writes = 0
  /\ rows = Unseen
  /\ live = Unseen
  /\ newest = Unseen
  /\ stage = [k \in Runs |-> "idle"]
  /\ rules = [k \in Runs |-> <<>>]
  /\ root = [k \in Runs |-> 1]
  /\ seen = [k \in Runs |-> Unseen]
  /\ plan = [k \in Runs |-> NoDiffs]
  /\ left = [k \in Runs |-> {}]
  /\ stream = [k \in Runs |-> NoStream]
  /\ handler = [h \in Streams |-> "free"]
  /\ inbox = [h \in Streams |-> Empty]
  /\ removed = {}
  /\ overlapped = FALSE
  /\ faulty = FALSE
  /\ steady = [k \in Runs |-> {}]
  /\ dropped = {}

At(k, s)   == stage[k] = s
Goto(k, s) == stage' = [stage EXCEPT ![k] = s]

HandlerAt(h, s)   == handler[h] = s
HandlerGoto(h, s) == handler' = [handler EXCEPT ![h] = s]

-----------------------------------------------------------------------------
(* The source files.                                                       *)

Change(f, v) ==
  /\ disk' = [disk EXCEPT ![f] = v]
  /\ steady' = [k \in Runs |-> steady[k] \ {f}]
  /\ UNCHANGED <<rows, server, serving, run, overlapped, faulty, dropped>>

Write(f) ==
  /\ writes < MaxWrites
  /\ writes' = writes + 1
  /\ Change(f, writes')
  /\ UNCHANGED removed

Remove(f) ==
  /\ disk[f] # Absent
  /\ removed' = removed \cup {f}
  /\ Change(f, Absent)
  /\ UNCHANGED writes

-----------------------------------------------------------------------------
(* The worker: scan and diff of every root, then a push of every changed one. *)

\* GetGlobalConfig, then MergeUserRules: the global rules of the moment and the enabled
\* rules the task was given, all of them or those of one name.
MergeUserRules(k) == \E rs \in RuleSets : rules' = [rules EXCEPT ![k] = rs]

\* As if a retry went on with the stream of the failed attempt.
BeginAttemptKeepsStream(k) ==
  /\ MergeUserRules(k)
  /\ Goto(k, IF rules'[k] = <<>> THEN "push" ELSE "scan")
  /\ root' = [root EXCEPT ![k] = 1]
  /\ plan' = [plan EXCEPT ![k] = NoDiffs]
  /\ left' = [left EXCEPT ![k] = {}]
  /\ steady' = [steady EXCEPT ![k] = {f \in Files : f \in dropped => rows[f] = Absent}]
  /\ UNCHANGED <<seen, stream, dropped>>

\* syncToServer starts from nothing: no scan, no diffs, no stream, and rules merged anew.
BeginAttempt(k) ==
  /\ MergeUserRules(k)
  /\ Goto(k, IF rules'[k] = <<>> THEN "push" ELSE "scan")
  /\ root' = [root EXCEPT ![k] = 1]
  /\ plan' = [plan EXCEPT ![k] = NoDiffs]
  /\ left' = [left EXCEPT ![k] = {}]
  /\ stream' = [stream EXCEPT ![k] = NoStream]
  /\ steady' = [steady EXCEPT ![k] = {f \in Files : f \in dropped => rows[f] = Absent}]
  /\ UNCHANGED <<seen, dropped>>

\* A transfer begins, beside others or not.
Alone(others) == overlapped' = (overlapped \/ others) /\ (others => MayOverlap)

Begin(k) ==
  /\ At(k, "idle")
  /\ Alone((\E j \in Runs : Active(j)) \/ (\E h \in Streams : Serving(h)))
  /\ BeginAttempt(k)
  /\ UNCHANGED <<source, rows, server, serving, faulty>>

\* The attempt was the last one; what it has not recorded is forgotten.
GiveUp(k) ==
  /\ Goto(k, "failed")
  /\ rules' = [rules EXCEPT ![k] = <<>>]
  /\ root' = [root EXCEPT ![k] = 1]
  /\ seen' = [seen EXCEPT ![k] = Unseen]
  /\ plan' = [plan EXCEPT ![k] = NoDiffs]
  /\ left' = [left EXCEPT ![k] = {}]
  /\ stream' = [stream EXCEPT ![k] = NoStream]
  /\ faulty' = TRUE
  /\ UNCHANGED <<source, rows, server, serving, overlapped, steady, dropped>>

\* What no exclude pattern of the root's rule matches.
Included(k, r) == rules[k][r].scanned

\* The walk of a root, without the entries that could not be read.
Scan(k, unread) ==
  /\ seen' = [seen EXCEPT ![k] =
       [f \in Files |-> IF f \in Included(k, root[k]) \ unread THEN disk[f] ELSE Absent]]
  /\ Goto(k, "diff")
  /\ UNCHANGED <<source, rows, server, serving, rules, root, plan, left, stream, ghosts>>

\* As if a partial scan were good enough.
ScanRootPartly(k) ==
  /\ At(k, "scan")
  /\ \E unread \in SUBSET Included(k, root[k]) : Scan(k, unread)

\* A walk that could not read some entry ends the task; nothing is concluded from it.
ScanRoot(k) ==
  /\ At(k, "scan")
  /\ \E unread \in SUBSET Included(k, root[k]) :
       \/ unread = {} /\ Scan(k, unread)
       \/ unread # {} /\ GiveUp(k)

\* computeDiff: rows below the root without a scanned file (delete), with another version
\* (modify), and scanned files without a row (add).
Changed(k) == {f \in rules[k][root[k]].under : rows[f] # seen[k][f]}

\* Deletions of files that the rules of the attempt leave out.
LeftOut(k) ==
  {f \in Changed(k) : rows[f] # Absent /\ \A r \in Roots(k) : f \notin Included(k, r)}

DiffRoot(k) ==
  /\ At(k, "diff")
  /\ plan' = [plan EXCEPT ![k][root[k]] = [f \in Changed(k) |-> seen[k][f]]]
  /\ seen' = [seen EXCEPT ![k] = Unseen]
  /\ dropped' = dropped \cup LeftOut(k)
  /\ steady' = [j \in Runs |-> steady[j] \ LeftOut(k)]
  /\ \/ root[k] < NRoots(k) /\ Goto(k, "scan") /\ root' = [root EXCEPT ![k] = @ + 1]
     \/ root[k] = NRoots(k) /\ Goto(k, "push") /\ root' = [root EXCEPT ![k] = 1]
  /\ UNCHANGED <<source, rows, server, serving, rules, left, stream, overlapped, faulty>>

\* A root without diffs has no batch.
SkipRoot(k) ==
  /\ At(k, "push")
  /\ root[k] <= NRoots(k)
  /\ plan[k][root[k]] = Empty
  /\ root' = [root EXCEPT ![k] = @ + 1]
  /\ UNCHANGED <<source, rows, server, serving, stage, rules, seen, plan, left, stream, ghosts>>

OpenStream(k, h) ==
  /\ At(k, "push")
  /\ root[k] <= NRoots(k)
  /\ plan[k][root[k]] # Empty
  /\ HandlerAt(h, "free")
  /\ HandlerGoto(h, "recv")
  /\ stream' = [stream EXCEPT ![k] = h]
  /\ left' = [left EXCEPT ![k] = DOMAIN plan[k][root[k]]]
  /\ Goto(k, "send")
  /\ Alone(\E g \in Streams : Serving(g))
  /\ UNCHANGED <<source, rows, server, inbox, rules, root, seen, plan, faulty, steady, dropped>>

\* The next batch of the packager, in no particular order; contents are read from the
\* disk now, and every file that is not a delete marker has to be there.
SendBatch(k) ==
  LET diff == plan[k][root[k]] IN
  /\ At(k, "send")
  /\ HandlerAt(stream[k], "recv")
  /\ left[k] # {}
  /\ \E batch \in kSubset(Min({BatchSize, Cardinality(left[k])}), left[k]) :
       /\ \A f \in batch : diff[f] # Absent => disk[f] # Absent
       /\ inbox' = [inbox EXCEPT ![stream[k]] =
            [f \in batch |-> IF diff[f] = Absent THEN Absent ELSE disk[f]]]
       /\ left' = [left EXCEPT ![k] = @ \ batch]
  /\ HandlerGoto(stream[k], "apply")
  /\ Goto(k, "await")
  /\ UNCHANGED <<source, rows, server, rules, root, seen, plan, stream, ghosts>>

\* The batch is written and its acknowledgement read.
Ack(k) ==
  /\ At(k, "await")
  /\ HandlerAt(stream[k], "apply")
  /\ inbox[stream[k]] = Empty
  /\ HandlerGoto(stream[k], "recv")
  /\ Goto(k, "send")
  /\ UNCHANGED <<source, rows, server, inbox, rules, root, seen, plan, left, stream, ghosts>>

CloseSend(k) ==
  /\ At(k, "send")
  /\ HandlerAt(stream[k], "recv")
  /\ left[k] = {}
  /\ HandlerGoto(stream[k], "eof")
  /\ Goto(k, "close")
  /\ UNCHANGED <<source, rows, server, inbox, rules, root, seen, plan, left, stream, ghosts>>

\* As if CloseSend were taken for the end of the stream.
ConfirmUnread(k) ==
  /\ At(k, "close")
  /\ left' = [left EXCEPT ![k] = DOMAIN plan[k][root[k]]]
  /\ stream' = [stream EXCEPT ![k] = NoStream]
  /\ Goto(k, "record")
  /\ UNCHANGED <<source, rows, server, serving, rules, root, seen, plan, ghosts>>

\* The terminal read of the stream returns io.EOF: the handler has returned nil.
Confirm(k) ==
  /\ At(k, "close")
  /\ HandlerAt(stream[k], "taken")
  /\ HandlerGoto(stream[k], "ended")
  /\ left' = [left EXCEPT ![k] = DOMAIN plan[k][root[k]]]
  /\ stream' = [stream EXCEPT ![k] = NoStream]
  /\ Goto(k, "record")
  /\ UNCHANGED <<source, rows, server, inbox, rules, root, seen, plan, ghosts>>

\* UpsertSnapshot, or DeleteSnapshot for a version that is no file.
WriteRow(f, v) ==
  /\ rows' = [rows EXCEPT ![f] = v]
  /\ dropped' = IF v = Absent THEN dropped ELSE dropped \ {f}

\* As if the row took the file's state at the time it is written.
RecordFresh(k) ==
  /\ At(k, "record")
  /\ \E f \in left[k] :
       /\ WriteRow(f, disk[f])
       /\ left' = [left EXCEPT ![k] = @ \ {f}]
  /\ UNCHANGED <<source, server, serving, stage, rules, root, seen, plan, stream, overlapped, faulty,
                 steady>>

\* updateSnapshots: the row of one path takes the scanned version, or is deleted.
Record(k) ==
  /\ At(k, "record")
  /\ \E f \in left[k] :
       /\ WriteRow(f, plan[k][root[k]][f])
       /\ left' = [left EXCEPT ![k] = @ \ {f}]
  /\ UNCHANGED <<source, server, serving, stage, rules, root, seen, plan, stream, overlapped, faulty,
                 steady>>

RootDone(k) ==
  /\ At(k, "record")
  /\ left[k] = {}
  /\ root' = [root EXCEPT ![k] = @ + 1]
  /\ Goto(k, "push")
  /\ UNCHANGED <<source, rows, server, serving, rules, seen, plan, left, stream, ghosts>>

Succeed(k) ==
  /\ At(k, "push")
  /\ root[k] > NRoots(k)
  /\ plan' = [plan EXCEPT ![k] = NoDiffs]
  /\ Goto(k, "done")
  /\ UNCHANGED <<source, rows, server, serving, rules, root, seen, left, stream, ghosts>>

-----------------------------------------------------------------------------
(* Failures.                                                               *)

\* As if a retry went on with the diffs of the failed attempt.
RetryResumes(k) ==
  /\ stage[k] \in {"send", "await", "close"}
  /\ stream' = [stream EXCEPT ![k] = NoStream]
  /\ left' = [left EXCEPT ![k] = {}]
  /\ root' = [root EXCEPT ![k] = @ + 1]
  /\ Goto(k, "push")
  /\ faulty' = TRUE
  /\ UNCHANGED <<source, rows, server, serving, rules, seen, plan, overlapped, steady, dropped>>

\* A retryable error of the RPCs before the scan, of opening a stream, of the stream or
\* of its handler, or its deadline: a new attempt begins.
Retry(k) ==
  /\ \/ At(k, "scan") /\ root[k] = 1
     \/ At(k, "push") /\ root[k] <= NRoots(k)
     \/ stage[k] \in {"send", "await", "close"}
  /\ BeginAttempt(k)
  /\ faulty' = TRUE
  /\ UNCHANGED <<source, rows, server, serving, overlapped>>

\* A permanent error (a file that has vanished, a row that cannot be written, a refusal),
\* the last retry, or the end of the Agent process.
Fail(k) == Active(k) /\ GiveUp(k)

-----------------------------------------------------------------------------
(* The handler of a stream.                                                *)

\* WriteFile (rename over the path) or DeleteFile for one entry of the batch; it goes on
\* with the batch it has, whether or not somebody still waits for the acknowledgement.
Apply(h) ==
  /\ HandlerAt(h, "apply")
  /\ \E f \in DOMAIN inbox[h] :
       /\ live' = [live EXCEPT ![f] = inbox[h][f]]
       /\ inbox' = [inbox EXCEPT ![h] = [g \in DOMAIN inbox[h] \ {f} |-> inbox[h][g]]]
  /\ UNCHANGED <<source, rows, newest, handler, run, ghosts>>

\* After the end of the stream.
TakeSnapshot(h) ==
  /\ HandlerAt(h, "eof")
  /\ newest' = live
  /\ HandlerGoto(h, "taken")
  /\ UNCHANGED <<source, rows, live, inbox, run, ghosts>>

\* A write, a snapshot or a cleanup fails, the cancelled context is noticed, or the
\* Server stops.
HandlerFails(h) ==
  /\ Serving(h)
  /\ HandlerGoto(h, "ended")
  /\ inbox' = [inbox EXCEPT ![h] = Empty]
  /\ UNCHANGED <<source, rows, server, run, ghosts>>

-----------------------------------------------------------------------------

RunStep(k) ==
  \/ Begin(k) \/ ScanRoot(k) \/ DiffRoot(k) \/ SkipRoot(k)
  \/ \E h \in Streams : OpenStream(k, h)
  \/ SendBatch(k) \/ Ack(k) \/ CloseSend(k) \/ Confirm(k)
  \/ Record(k) \/ RootDone(k) \/ Succeed(k) \/ Retry(k) \/ Fail(k)

Next ==
  \/ \E f \in Files : Write(f) \/ Remove(f)
  \/ \E k \in Runs : RunStep(k)
  \/ \E h \in Streams : Apply(h) \/ TakeSnapshot(h) \/ HandlerFails(h)

Spec == Init /\ [][Next]_vars

-----------------------------------------------------------------------------
(* Properties.                                                             *)

\* What the design takes for granted and the code does not enforce: one transfer at a time.
Orderly == ~overlapped

\* What the next scan will skip is safe: a file whose row equals its state on disk is in
\* the newest snapshot in that state, whatever attempts have failed in between.  Only a
\* file that changing rules left out for a while may be skipped and missing: from the diff
\* that was to delete it until a version of it is recorded again.
SkippedIsRestorable ==
  Orderly => \A f \in Files \ dropped :
    disk[f] # Absent /\ rows[f] = disk[f] => newest[f] = disk[f] /\ live[f] = disk[f]

\* A run that reports success has put every file that did not change meanwhile into a
\* snapshot, of those its rules include and none has left out since without recording it;
\* if no attempt ever failed, the snapshot mirrors those paths, deletions too.
SuccessBacksUp ==
  Orderly => \A k \in Runs : stage[k] = "done" =>
    \A f \in steady[k] \cap UNION {Included(k, r) : r \in Roots(k)} :
      /\ disk[f] # Absent => newest[f] = disk[f] /\ rows[f] = disk[f]
      /\ ~faulty => newest[f] = disk[f] /\ rows[f] = disk[f]

\* The local rows never run ahead of the Server: a row is written only when a snapshot
\* holds the recorded version of the file or a later one.
RowsFollowSnapshots ==
  [][\A f \in Files : rows'[f] # rows[f] /\ rows'[f] # Absent /\ Orderly
       => newest[f] >= rows'[f]]_vars

\* A file disappears from the dataset only if it was once removed from its root, or if the
\* rules of an attempt left it out: neither an unreadable entry nor another root's files
\* turn into a delete marker.
DeletesWereSeen ==
  [][\A f \in Files :
       live[f] # Absent /\ live'[f] = Absent /\ ~overlapped => f \in removed \cup dropped]_vars

\* docs/security-model.md: "A successful backup creates a recovery snapshot".  Without the
\* premise that transfers do not overlap, a successful run may leave behind a file it
\* counts as backed up and that no snapshot holds.
SuccessHasSnapshot ==
  (\A k \in Runs : ~Active(k)) /\ (\A h \in Streams : ~Serving(h)) =>
    \A k \in Runs, f \in Files :
      stage[k] = "done" /\ ~faulty /\ disk[f] # Absent /\ rows[f] = disk[f] => newest[f] = disk[f]

=============================================================================
