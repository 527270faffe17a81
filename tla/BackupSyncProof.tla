--------------------------- MODULE BackupSyncProof ---------------------------
(***************************************************************************)
(* Proofs about BackupSync, for any files, rules, batch size and any       *)
(* number of runs and streams: types, that a dataset loses only files that *)
(* were removed or left out by rules, that rows follow snapshots, and what *)
(* a skipped file and a successful run are worth.  All but the types speak *)
(* of transfers that do not overlap; all but the types and the rows need   *)
(* rules that leave no hole: what one root scans is not below another root *)
(* of the same attempt that excludes it.  From one attempt to the next the *)
(* rules may change at will.                                               *)
(* The invariant follows a version from the scan through the plan, the     *)
(* batch and the dataset to the snapshot and the row.                      *)
(***************************************************************************)
EXTENDS BackupSync, SequenceTheorems, TLAPS

\* Rules that leave no hole.  The code takes any; the run backup_sync_nested has rules with
\* a hole, and there a dataset loses a file nobody removed or left out.
Covered ==
  \A rs \in RuleSets : \A r, q \in DOMAIN rs :
    rs[r].under \cap rs[q].scanned \subseteq rs[r].scanned

\* The rules of run k's attempt include f.
Scanned(k, f) == \E r \in Roots(k) : f \in Included(k, r)

Transfers == {"send", "await", "close"}

-----------------------------------------------------------------------------
(* Where runs, streams and handlers are.                                   *)

\* A run that works on a root has one; what it sends or records is in the root's diffs;
\* there are none yet of the roots it has not scanned.
RunShape(k) ==
  /\ stage[k] \in {"scan", "diff", "record"} \cup Transfers => root[k] \in Roots(k)
  /\ stage[k] \in {"record"} \cup Transfers => left[k] \subseteq DOMAIN plan[k][root[k]]
  /\ stage[k] = "close" => left[k] = {}
  /\ \A r \in RootNumbers :
       /\ \A f \in DOMAIN plan[k][r] : r \in Roots(k) /\ f \in rules[k][r].under
       /\ ~Active(k) \/ (stage[k] \in {"scan", "diff"} /\ r >= root[k]) => plan[k][r] = Empty

\* Streams are not reused; a batch that is on its way is of the root, and not left.
StreamShape(k) ==
  LET h == stream[k] IN
  h # NoStream =>
    /\ handler[h] # "free"
    /\ \A j \in Runs : stream[j] = h => j = k
    /\ DOMAIN inbox[h] \subseteq DOMAIN plan[k][root[k]] \ left[k]

Shape == \A k \in Runs : RunShape(k) /\ StreamShape(k)

\* One transfer at a time: one run, one handler, which is that of the run's stream if the
\* run has one; none is at work while rows are written.
OneTransfer ==
  /\ \A j, k \in Runs : Active(j) /\ Active(k) => j = k
  /\ \A g, h \in Streams : Serving(g) /\ Serving(h) => g = h
  /\ \A k \in Runs, h \in Streams :
       Serving(h) => stage[k] # "record" /\ (stream[k] # NoStream => stream[k] = h)
  /\ \A h \in Streams : handler[h] = "taken" => newest = live

-----------------------------------------------------------------------------
(* Versions.                                                               *)

\* A version of f that was on the disk once: nothing, what is there, or an older one.
Past(v, f) ==
  v # Absent => /\ v <= writes
                /\ v <= disk[f] \/ (disk[f] = Absent /\ f \in removed)

FilePast(f) == disk[f] <= writes /\ Past(rows[f], f) /\ Past(live[f], f) /\ Past(newest[f], f)
RunPast(k) ==
  \A f \in Files : /\ Past(seen[k][f], f)
                   /\ \A r \in RootNumbers : f \in DOMAIN plan[k][r] => Past(plan[k][r][f], f)
BatchPast(h) == \A f \in DOMAIN inbox[h] : Past(inbox[h][f], f)

Pasts ==
  /\ \A f \in Files : FilePast(f)
  /\ \A k \in Runs : RunPast(k)
  /\ \A h \in Streams : BatchPast(h)

\* Only what a root scans is planned, other than for deletion.
RunScanned(k) ==
  \A f \in Files :
    /\ stage[k] = "diff" /\ seen[k][f] # Absent => f \in Included(k, root[k])
    /\ \A r \in RootNumbers :
         f \in DOMAIN plan[k][r] /\ plan[k][r][f] # Absent => f \in Included(k, r)

ScannedOnly == \A k \in Runs : RunScanned(k)

\* A file that was left out, and whose row is still there, is steady for nobody.
SteadyKept == \A k \in Runs : \A f \in steady[k] : f \in dropped => rows[f] = Absent

-----------------------------------------------------------------------------
(* Deletions.                                                              *)

\* A scan that did not see a file which has a row: it was removed.  A planned deletion is
\* of a removed file, or of one that the rules of the attempt leave out.
MissingWasRemoved ==
  /\ \A k \in Runs, f \in Files :
       /\ stage[k] = "diff" /\ f \in Included(k, root[k]) /\ seen[k][f] = Absent
          /\ rows[f] # Absent => f \in removed
       /\ \A r \in RootNumbers : f \in DOMAIN plan[k][r] /\ plan[k][r][f] = Absent =>
            f \in IF f \in Included(k, r) THEN removed ELSE dropped
  /\ \A h \in Streams : \A f \in DOMAIN inbox[h] :
       inbox[h][f] = Absent => f \in removed \cup dropped

\* What is on the disk, if anything, is not the version v.
Outdated(f, v) == disk[f] = Absent \/ disk[f] # v

\* Root r of run k is still to be pushed.
Pending(k, r) == stage[k] \in {"scan", "diff"} \/ r >= root[k]

\* A file that a scan did not see, and that is there now, is newer than its row and than
\* what an earlier root's scan saw.
DeletesOutdated ==
  \A k \in Runs, f \in Files :
    /\ stage[k] = "diff" /\ f \in Included(k, root[k]) /\ seen[k][f] = Absent =>
         /\ Outdated(f, rows[f])
         /\ \A q \in RootNumbers : f \in DOMAIN plan[k][q] => Outdated(f, plan[k][q][f])
    /\ \A r \in RootNumbers :
         f \in DOMAIN plan[k][r] /\ plan[k][r][f] = Absent /\ f \in Included(k, r) =>
           /\ Pending(k, r) => Outdated(f, rows[f])
           /\ \A q \in RootNumbers :
                q < r /\ f \in DOMAIN plan[k][q] => Outdated(f, plan[k][q][f])

-----------------------------------------------------------------------------
(* Transfers.                                                              *)

\* What is on its way does not undo what the next scan will skip, unless rules left it out.
BatchKeepsSkipped ==
  \A h \in Streams : \A f \in DOMAIN inbox[h] \ dropped :
    Outdated(f, rows[f]) \/ inbox[h][f] = disk[f]

\* Version x does for a diff to version v: the file is gone, or is as new as the scan.
Serves(x, v) == IF v = Absent THEN x = Absent ELSE x >= v

\* What the run has sent over a stream that lives is in the batch or in the dataset.
SentArrives ==
  \A k \in Runs : stage[k] \in Transfers /\ Serving(stream[k]) =>
    \A f \in DOMAIN plan[k][root[k]] \ left[k] :
      Serves(IF f \in DOMAIN inbox[stream[k]] THEN inbox[stream[k]][f] ELSE live[f],
             plan[k][root[k]][f])

\* What is being recorded is in the dataset and in its newest snapshot.
RecordedIsHeld ==
  \A k \in Runs : stage[k] = "record" =>
    \A f \in DOMAIN plan[k][root[k]] :
      Serves(live[f], plan[k][root[k]][f]) /\ Serves(newest[f], plan[k][root[k]][f])

Skippable ==
  \A f \in Files \ dropped :
    disk[f] # Absent /\ rows[f] = disk[f] => newest[f] = disk[f] /\ live[f] = disk[f]

-----------------------------------------------------------------------------
(* Files that do not change during an attempt.                             *)

RowIsDisk(f) == rows[f] = disk[f]

\* The diffs of root r say what is on the disk, or the row does.
PlannedIsDisk(k, r, f) ==
  IF f \in DOMAIN plan[k][r] THEN plan[k][r][f] = disk[f] ELSE RowIsDisk(f)

\* How far run k has brought a path of root r that did not change meanwhile.
SteadyAt(k, r, f) ==
  /\ stage[k] = "diff" /\ r = root[k] => seen[k][f] = disk[f]
  /\ stage[k] \in {"scan", "diff"} /\ r < root[k] => PlannedIsDisk(k, r, f)
  /\ stage[k] \in {"push", "record"} \cup Transfers =>
       /\ PlannedIsDisk(k, r, f)
       /\ r < root[k] => RowIsDisk(f)
       /\ stage[k] = "record" /\ r = root[k] /\ f \notin left[k] => RowIsDisk(f)
  /\ stage[k] = "done" => RowIsDisk(f)

SteadyFollowed ==
  \A k \in Runs : \A r \in Roots(k) : \A f \in steady[k] \cap Included(k, r) : SteadyAt(k, r, f)

\* What a finished run saw unchanged, a later one has no diff for.
NoLaterDiffs ==
  \A k, j \in Runs : stage[k] = "done" /\ Active(j) =>
    /\ steady[k] \subseteq steady[j]
    /\ \A f \in steady[k] : Scanned(k, f) => \A r \in RootNumbers : f \notin DOMAIN plan[j][r]

InFlight(f) ==
  \E k \in Runs : /\ stage[k] \in {"record"} \cup Transfers
                  /\ f \in DOMAIN plan[k][root[k]]
                  /\ stage[k] = "record" => f \in left[k]

\* As long as no attempt has failed, every handler at work is somebody's, and a file
\* without a row is neither in the dataset nor in the snapshot, unless it is on its way.
NoRemains ==
  ~faulty =>
    /\ \A h \in Streams : Serving(h) => \E k \in Runs : stream[k] = h
    /\ \A f \in Files :
         rows[f] = Absent /\ ~InFlight(f) => live[f] = Absent /\ newest[f] = Absent

-----------------------------------------------------------------------------

\* What needs one transfer at a time.
FollowsInv ==
  /\ OneTransfer
  /\ SentArrives
  /\ RecordedIsHeld

\* What also needs rules without a hole.
CoveredInv ==
  /\ MissingWasRemoved
  /\ DeletesOutdated
  /\ BatchKeepsSkipped
  /\ Skippable
  /\ SteadyFollowed
  /\ NoLaterDiffs
  /\ NoRemains

Base == TypeOK /\ Shape /\ Pasts /\ ScannedOnly /\ SteadyKept
IInv == Base /\ (Orderly => FollowsInv /\ (Covered => CoveredInv))

-----------------------------------------------------------------------------
(* Types.                                                                  *)

\* What the assumptions say of the rules of an attempt.
LEMMA RuleFacts ==
  ASSUME NEW rs \in RuleSets \cup {<<>>}
  PROVE  /\ Len(rs) \in Nat /\ DOMAIN rs = 1..Len(rs) /\ DOMAIN rs \subseteq RootNumbers
         /\ \A r \in DOMAIN rs : /\ rs[r].under \subseteq Files
                                 /\ rs[r].scanned \subseteq rs[r].under
         /\ rs = <<>> <=> Len(rs) = 0
<1>1. CASE rs \in RuleSets
  <2>1. /\ rs \in Seq([under: SUBSET Files, scanned: SUBSET Files])
        /\ \A r \in DOMAIN rs : rs[r].scanned \subseteq rs[r].under
    BY <1>1, RootsAssumption
  <2>2. Len(rs) \in Nat /\ DOMAIN rs = 1..Len(rs) /\ (rs = <<>> <=> Len(rs) = 0)
    BY <2>1, EmptySeq
  <2>3. \A r \in DOMAIN rs : rs[r] \in [under: SUBSET Files, scanned: SUBSET Files]
    BY <2>1, <2>2, ElementOfSeq
  <2>4. DOMAIN rs \subseteq RootNumbers
    BY <1>1 DEF RootNumbers
  <2> QED
    BY <2>1, <2>2, <2>3, <2>4
<1>2. CASE rs = <<>>
  BY <1>2
<1> QED
  BY <1>1, <1>2

LEMMA NumbersFacts == RootNumbers \subseteq Nat \ {0}
<1> SUFFICES ASSUME NEW rs \in RuleSets, NEW r \in DOMAIN rs PROVE r \in Nat \ {0}
  BY DEF RootNumbers
<1>1. DOMAIN rs = 1..Len(rs) /\ Len(rs) \in Nat
  BY RuleFacts
<1> QED
  BY <1>1

\* ... and of the rules in force.
LEMMA RootFacts ==
  ASSUME TypeOK, NEW k \in Runs
  PROVE  /\ NRoots(k) \in Nat /\ Roots(k) = 1..NRoots(k) /\ Roots(k) \subseteq RootNumbers
         /\ RootNumbers \subseteq Nat \ {0}
         /\ rules[k] = <<>> <=> NRoots(k) = 0
         /\ root[k] \in Nat /\ root[k] \in 1..NRoots(k) + 1
         /\ \A r \in Roots(k) : /\ rules[k][r].under \subseteq Files
                                /\ Included(k, r) \subseteq rules[k][r].under
<1>1. rules[k] \in RuleSets \cup {<<>>} /\ root[k] \in Nat /\ root[k] \in 1..NRoots(k) + 1
  BY DEF TypeOK
<1> QED
  BY <1>1, RuleFacts, NumbersFacts DEF Roots, NRoots, Included

-----------------------------------------------------------------------------
(* The steps: a scan is one without errors, or ends its run as Fail does.  *)

Scans(k) == At(k, "scan") /\ Scan(k, {})

Move(k) ==
  \/ Begin(k) \/ Scans(k) \/ DiffRoot(k) \/ SkipRoot(k)
  \/ \E h \in Streams : OpenStream(k, h)
  \/ SendBatch(k) \/ Ack(k) \/ CloseSend(k) \/ Confirm(k)
  \/ Record(k) \/ RootDone(k) \/ Succeed(k) \/ Retry(k) \/ Fail(k)

Steps ==
  \/ \E f \in Files : Write(f) \/ Remove(f)
  \/ \E k \in Runs : Move(k)
  \/ \E h \in Streams : Apply(h) \/ TakeSnapshot(h) \/ HandlerFails(h)

LEMMA NextIsStep == [Next]_vars => [Steps]_vars
<1>1. ASSUME NEW k \in Runs, ScanRoot(k) PROVE Scans(k) \/ Fail(k)
  BY <1>1 DEF ScanRoot, Scans, Fail, Active, At
<1> QED
  BY <1>1 DEF Next, RunStep, Steps, Move

-----------------------------------------------------------------------------
(* Types of diffs, runs and handlers.                                      *)

\* A mapping of some paths to versions is a set of diffs.
LEMMA DiffsIntro ==
  ASSUME NEW S \in SUBSET Files, NEW d \in [S -> Versions]
  PROVE  d \in Diffs /\ DOMAIN d = S
BY DEF Diffs

LEMMA DiffsElim ==
  ASSUME NEW d \in Diffs
  PROVE  /\ d \in [DOMAIN d -> Versions] /\ DOMAIN d \subseteq Files
         /\ \A f \in DOMAIN d : f \in Files /\ d[f] \in Versions
         /\ DOMAIN d = {} <=> d = Empty
<1>1. PICK S \in SUBSET Files : d \in [S -> Versions]
  BY DEF Diffs
<1>2. d = [f \in DOMAIN d |-> d[f]]
  BY <1>1
<1> QED
  BY <1>1, <1>2 DEF Empty

LEMMA EmptyDiffs == Empty \in Diffs /\ DOMAIN Empty = {}
BY DEF Empty, Diffs

LEMMA VersionFacts == Versions = 0..MaxWrites /\ MaxWrites \in Nat /\ Absent = 0 /\ Absent \in Versions
BY SizesAssumption DEF Versions, Absent

LEMMA InitType == Init => TypeOK
<1> SUFFICES ASSUME Init PROVE TypeOK
  OBVIOUS
<1> USE EmptyDiffs, VersionFacts, StreamsAssumption, NumbersFacts DEF Init
<1>1. /\ disk \in [Files -> Versions] /\ writes \in Versions /\ rows \in [Files -> Versions]
      /\ live \in [Files -> Versions] /\ newest \in [Files -> Versions]
  BY DEF Unseen
<1>2. /\ stage \in [Runs -> RunStages] /\ root \in [Runs -> Nat]
      /\ rules \in [Runs -> RuleSets \cup {<<>>}]
      /\ seen \in [Runs -> [Files -> Versions]] /\ plan \in [Runs -> [RootNumbers -> Diffs]]
      /\ left \in [Runs -> SUBSET Files] /\ stream \in [Runs -> Streams \cup {NoStream}]
  BY DEF RunStages, Unseen, NoDiffs
<1>3. /\ handler \in [Streams -> HandlerStages] /\ inbox \in [Streams -> Diffs]
      /\ steady \in [Runs -> SUBSET Files]
  BY DEF HandlerStages
<1>4. \A k \in Runs : root[k] \in 1..NRoots(k) + 1
  BY DEF NRoots
<1> QED
  BY <1>1, <1>2, <1>3, <1>4 DEF TypeOK

\* How the rules of a run change: an attempt takes new ones, a run that gives up has none.
LEMMA RulesTaken ==
  ASSUME TypeOK, NEW k \in Runs, BeginAttempt(k)
  PROVE  /\ rules' \in [Runs -> RuleSets \cup {<<>>}]
         /\ \A j \in Runs : j # k => rules'[j] = rules[j]
         /\ stage' = [stage EXCEPT ![k] = "push"] \/ stage' = [stage EXCEPT ![k] = "scan"]
         /\ rules'[k] = <<>> => stage'[k] = "push"
<1>1. PICK rs \in RuleSets : rules' = [rules EXCEPT ![k] = rs]
  BY DEF BeginAttempt, MergeUserRules
<1> QED
  BY <1>1 DEF BeginAttempt, Goto, TypeOK

\* The invariant of the roots, after a step that leaves the rules of other runs alone.
LEMMA NumbersOne ==
  ASSUME NEW k \in Runs, rules' \in [Runs -> RuleSets \cup {<<>>}], root'[k] = 1
  PROVE  root'[k] \in 1..NRoots(k)' + 1
<1>1. rules'[k] \in RuleSets \cup {<<>>}
  OBVIOUS
<1>2. Len(rules'[k]) \in Nat
  BY <1>1, RuleFacts
<1> QED
  BY <1>2 DEF NRoots

\* An attempt begins or ends: the run starts from nothing.
LEMMA BeginAttemptType ==
  ASSUME TypeOK, NEW k \in Runs, BeginAttempt(k),
         UNCHANGED <<source, rows, server, serving>>, overlapped' \in BOOLEAN, faulty' \in BOOLEAN
  PROVE  TypeOK'
<1> USE EmptyDiffs, StreamsAssumption
<1>1. /\ rules' \in [Runs -> RuleSets \cup {<<>>}] /\ \A j \in Runs : j # k => rules'[j] = rules[j]
      /\ stage' = [stage EXCEPT ![k] = "push"] \/ stage' = [stage EXCEPT ![k] = "scan"]
  BY RulesTaken
<1>2. /\ root' = [root EXCEPT ![k] = 1] /\ plan' = [plan EXCEPT ![k] = NoDiffs]
      /\ left' = [left EXCEPT ![k] = {}] /\ stream' = [stream EXCEPT ![k] = NoStream]
      /\ steady' = [steady EXCEPT ![k] = {f \in Files : f \in dropped => rows[f] = Absent}]
      /\ UNCHANGED <<seen, dropped, source, rows, server, serving>>
  BY DEF BeginAttempt
<1>3. \A j \in Runs : root'[j] \in 1..NRoots(j)' + 1
  <2> SUFFICES ASSUME NEW j \in Runs PROVE root'[j] \in 1..NRoots(j)' + 1
    OBVIOUS
  <2>1. CASE j = k
    BY <1>1, <1>2, <2>1, NumbersOne DEF TypeOK
  <2>2. CASE j # k
    BY <1>1, <1>2, <2>2 DEF TypeOK, NRoots
  <2> QED
    BY <2>1, <2>2
<1>4. /\ root' \in [Runs -> Nat] /\ plan' \in [Runs -> [RootNumbers -> Diffs]]
      /\ left' \in [Runs -> SUBSET Files] /\ stream' \in [Runs -> Streams \cup {NoStream}]
      /\ steady' \in [Runs -> SUBSET Files] /\ stage' \in [Runs -> RunStages]
  BY <1>1, <1>2 DEF TypeOK, NoDiffs, RunStages
<1>5. \A j \in Runs : (stream[j] # NoStream <=> stage[j] \in {"send", "await", "close"})'
  BY <1>1, <1>2 DEF TypeOK
<1> QED
  BY <1>1, <1>2, <1>3, <1>4, <1>5 DEF TypeOK, source, server, serving

LEMMA FailType ==
  ASSUME TypeOK, NEW k \in Runs, Fail(k)
  PROVE  TypeOK'
<1> USE EmptyDiffs, StreamsAssumption, VersionFacts
<1>1. /\ stage' = [stage EXCEPT ![k] = "failed"] /\ rules' = [rules EXCEPT ![k] = <<>>]
      /\ root' = [root EXCEPT ![k] = 1] /\ plan' = [plan EXCEPT ![k] = NoDiffs]
      /\ seen' = [seen EXCEPT ![k] = Unseen]
      /\ left' = [left EXCEPT ![k] = {}] /\ stream' = [stream EXCEPT ![k] = NoStream]
      /\ faulty' = TRUE
      /\ UNCHANGED <<source, rows, server, serving, overlapped, steady, dropped>>
  BY DEF Fail, GiveUp, Goto
<1>2. rules' \in [Runs -> RuleSets \cup {<<>>}] /\ \A j \in Runs : j # k => rules'[j] = rules[j]
  BY <1>1 DEF TypeOK
<1>3. \A j \in Runs : root'[j] \in 1..NRoots(j)' + 1
  <2> SUFFICES ASSUME NEW j \in Runs PROVE root'[j] \in 1..NRoots(j)' + 1
    OBVIOUS
  <2>1. CASE j = k
    BY <1>1, <1>2, <2>1, NumbersOne DEF TypeOK
  <2>2. CASE j # k
    BY <1>1, <1>2, <2>2 DEF TypeOK, NRoots
  <2> QED
    BY <2>1, <2>2
<1>4. /\ root' \in [Runs -> Nat] /\ plan' \in [Runs -> [RootNumbers -> Diffs]]
      /\ seen' \in [Runs -> [Files -> Versions]]
      /\ left' \in [Runs -> SUBSET Files] /\ stream' \in [Runs -> Streams \cup {NoStream}]
      /\ stage' \in [Runs -> RunStages]
  BY <1>1 DEF TypeOK, NoDiffs, Unseen, RunStages
<1>5. \A j \in Runs : (stream[j] # NoStream <=> stage[j] \in {"send", "await", "close"})'
  BY <1>1 DEF TypeOK
<1> QED
  BY <1>1, <1>2, <1>3, <1>4, <1>5 DEF TypeOK, source, server, serving

LEMMA DiskType ==
  ASSUME TypeOK, NEW f \in Files, Write(f) \/ Remove(f)
  PROVE  TypeOK'
<1> USE VersionFacts
<1>1. rules' = rules
  BY DEF Write, Remove, Change, run
<1>2. /\ disk' \in [Files -> Versions] /\ writes' \in Versions /\ removed' \subseteq Files
      /\ steady' \in [Runs -> SUBSET Files]
  <2>1. CASE Write(f)
    BY <2>1 DEF TypeOK, Write, Change
  <2>2. CASE Remove(f)
    BY <2>2 DEF TypeOK, Remove, Change
  <2> QED
    BY <2>1, <2>2
<1>3. UNCHANGED <<rows, server, serving, run, overlapped, faulty, dropped>>
  BY DEF Write, Remove, Change
<1> QED
  BY <1>1, <1>2, <1>3 DEF TypeOK, server, serving, run, NRoots

LEMMA ScanDiffType ==
  ASSUME TypeOK, NEW k \in Runs, Scans(k) \/ DiffRoot(k) \/ SkipRoot(k) \/ RootDone(k) \/ Succeed(k),
         root[k] \in Roots(k) \/ Succeed(k)
  PROVE  TypeOK'
<1> USE EmptyDiffs, VersionFacts, StreamsAssumption
<1>r. /\ NRoots(k) \in Nat /\ Roots(k) = 1..NRoots(k) /\ root[k] \in 1..NRoots(k) + 1
      /\ Roots(k) \subseteq RootNumbers /\ root[k] \in Nat
      /\ \A r \in Roots(k) : rules[k][r].under \subseteq Files
  BY RootFacts
<1>s. rules' = rules
  BY DEF Scans, Scan, DiffRoot, SkipRoot, RootDone, Succeed
<1>n. \A j \in Runs : NRoots(j)' = NRoots(j)
  BY <1>s DEF NRoots
<1>1. CASE Scans(k)
  <2>1. seen' \in [Runs -> [Files -> Versions]] /\ stage' \in [Runs -> RunStages]
    BY <1>1 DEF TypeOK, Scans, Scan, Goto, RunStages
  <2>2. \A j \in Runs : (stream[j] # NoStream <=> stage[j] \in {"send", "await", "close"})'
    BY <1>1 DEF Scans, Scan, At, Goto, TypeOK
  <2> QED
    BY <1>1, <1>n, <2>1, <2>2 DEF TypeOK, Scans, Scan, source, server, serving, ghosts
<1>2. CASE DiffRoot(k)
  <2>2. Changed(k) \in SUBSET Files /\ [f \in Changed(k) |-> seen[k][f]] \in [Changed(k) -> Versions]
    <3>2. rules[k][root[k]].under \subseteq Files
      BY <1>r, <1>2 DEF DiffRoot, Succeed, At
    <3>3. seen[k] \in [Files -> Versions]
      BY DEF TypeOK
    <3> QED
      BY <3>2, <3>3 DEF Changed
  <2>3. [f \in Changed(k) |-> seen[k][f]] \in Diffs
    BY <2>2, DiffsIntro
  <2>4. plan' \in [Runs -> [RootNumbers -> Diffs]] /\ seen' \in [Runs -> [Files -> Versions]]
    BY <1>2, <2>3 DEF DiffRoot, TypeOK, Unseen
  <2>5. /\ root' \in [Runs -> Nat] /\ stage' \in [Runs -> RunStages]
        /\ \A j \in Runs : root'[j] \in 1..NRoots(j) + 1
    <3>1. \/ root[k] + 1 \in 1..NRoots(k) + 1 /\ root' = [root EXCEPT ![k] = root[k] + 1]
          \/ root' = [root EXCEPT ![k] = 1]
      BY <1>2, <1>r DEF DiffRoot, TypeOK
    <3>2. root' \in [Runs -> Nat] /\ \A j \in Runs : root'[j] \in 1..NRoots(j) + 1
      <4>1. root \in [Runs -> Nat] /\ 1 \in 1..NRoots(k) + 1 /\ root[k] + 1 \in Nat
            /\ \A j \in Runs : root[j] \in 1..NRoots(j) + 1
        BY <1>r DEF TypeOK
      <4> HIDE EmptyDiffs, VersionFacts, StreamsAssumption
      <4> QED
        BY <3>1, <4>1
    <3> QED
      BY <3>2, <1>2 DEF DiffRoot, Goto, TypeOK, RunStages
  <2>6. \A j \in Runs : (stream[j] # NoStream <=> stage[j] \in {"send", "await", "close"})'
    BY <1>2 DEF DiffRoot, At, Goto, TypeOK
  <2>7. LeftOut(k) \subseteq Files /\ dropped' \subseteq Files /\ steady' \in [Runs -> SUBSET Files]
    <3>1. LeftOut(k) \subseteq Files
      BY <2>2 DEF LeftOut
    <3> QED
      BY <1>2, <3>1 DEF DiffRoot, TypeOK
  <2> QED
    BY <1>2, <1>n, <2>4, <2>5, <2>6, <2>7 DEF TypeOK, DiffRoot, source, server, serving
<1>3. CASE SkipRoot(k) \/ RootDone(k)
  <2>2. root' \in [Runs -> Nat] /\ \A j \in Runs : root'[j] \in 1..NRoots(j) + 1
    <3>1. root[k] \in Roots(k) /\ root[k] + 1 \in 1..NRoots(k) + 1 /\ root[k] + 1 \in Nat
      BY <1>3, <1>r DEF SkipRoot, RootDone, Succeed, At
    <3> QED
      BY <1>3, <3>1 DEF SkipRoot, RootDone, TypeOK
  <2>3. /\ stage' \in [Runs -> RunStages]
        /\ \A j \in Runs : (stream[j] # NoStream <=> stage[j] \in {"send", "await", "close"})'
    BY <1>3 DEF SkipRoot, RootDone, At, Goto, TypeOK, RunStages
  <2> QED
    BY <1>3, <1>n, <2>2, <2>3 DEF TypeOK, SkipRoot, RootDone, source, server, serving, ghosts
<1>4. CASE Succeed(k)
  <2>1. plan' \in [Runs -> [RootNumbers -> Diffs]] /\ stage' \in [Runs -> RunStages]
    BY <1>4 DEF TypeOK, Succeed, Goto, RunStages, NoDiffs
  <2>2. \A j \in Runs : (stream[j] # NoStream <=> stage[j] \in {"send", "await", "close"})'
    BY <1>4 DEF Succeed, At, Goto, TypeOK
  <2> QED
    BY <1>4, <1>n, <2>1, <2>2 DEF TypeOK, Succeed, source, server, serving, ghosts
<1> QED
  BY <1>1, <1>2, <1>3, <1>4

LEMMA TransferType ==
  ASSUME TypeOK, NEW k \in Runs, root[k] \in Roots(k),
         \/ \E h \in Streams : OpenStream(k, h)
         \/ SendBatch(k) \/ Ack(k) \/ CloseSend(k) \/ Confirm(k)
  PROVE  TypeOK'
<1> USE EmptyDiffs, VersionFacts, StreamsAssumption
<1>0. rules' = rules /\ \A j \in Runs : NRoots(j)' = NRoots(j)
  BY DEF OpenStream, SendBatch, Ack, CloseSend, Confirm, run, NRoots
<1>p. DOMAIN plan[k][root[k]] \subseteq Files
  BY RootFacts, DiffsElim DEF TypeOK
<1>1. ASSUME NEW h \in Streams, OpenStream(k, h) PROVE TypeOK'
  BY <1>1, <1>0, <1>p DEF TypeOK, OpenStream, Alone, At, Goto, HandlerAt, HandlerGoto, source, server, RunStages, HandlerStages
<1>2. CASE SendBatch(k)
  <2>1. stream[k] \in Streams /\ left[k] \subseteq Files
    BY <1>2 DEF SendBatch, At, TypeOK
  <2>2. PICK batch \in SUBSET left[k] :
          /\ inbox' = [inbox EXCEPT ![stream[k]] =
               [f \in batch |-> IF plan[k][root[k]][f] = Absent THEN Absent ELSE disk[f]]]
          /\ left' = [left EXCEPT ![k] = @ \ batch]
    BY <1>2 DEF SendBatch, kSubset
  <2>3. [f \in batch |-> IF plan[k][root[k]][f] = Absent THEN Absent ELSE disk[f]] \in Diffs
    <3>1. batch \in SUBSET Files
      BY <2>1
    <3>2. [f \in batch |-> IF plan[k][root[k]][f] = Absent THEN Absent ELSE disk[f]]
            \in [batch -> Versions]
      BY <3>1 DEF TypeOK
    <3> QED
      BY <3>1, <3>2, DiffsIntro
  <2> QED
    BY <1>2, <1>0, <2>1, <2>2, <2>3
    DEF TypeOK, SendBatch, At, Goto, HandlerAt, HandlerGoto, source, server, ghosts, RunStages, HandlerStages
<1>3. CASE Ack(k)
  BY <1>3, <1>0 DEF TypeOK, Ack, At, Goto, HandlerAt, HandlerGoto, source, server, ghosts, RunStages, HandlerStages
<1>4. CASE CloseSend(k)
  BY <1>4, <1>0 DEF TypeOK, CloseSend, At, Goto, HandlerAt, HandlerGoto, source, server, ghosts, RunStages, HandlerStages
<1>5. CASE Confirm(k)
  BY <1>5, <1>0, <1>p DEF TypeOK, Confirm, At, Goto, HandlerAt, HandlerGoto, source, server, ghosts, RunStages, HandlerStages
<1> QED
  BY <1>1, <1>2, <1>3, <1>4, <1>5

LEMMA RecordType ==
  ASSUME TypeOK, NEW k \in Runs, root[k] \in Roots(k), left[k] \subseteq DOMAIN plan[k][root[k]], Record(k)
  PROVE  TypeOK'
<1>0. rules' = rules /\ \A j \in Runs : NRoots(j)' = NRoots(j)
  BY DEF Record, run, NRoots
<1>1. \A f \in left[k] : f \in Files /\ plan[k][root[k]][f] \in Versions
  BY RootFacts, DiffsElim DEF TypeOK
<1> QED
  BY <1>0, <1>1 DEF TypeOK, Record, WriteRow, At, source, server, serving, ghosts

LEMMA HandlerType ==
  ASSUME TypeOK, NEW h \in Streams, Apply(h) \/ TakeSnapshot(h) \/ HandlerFails(h)
  PROVE  TypeOK'
<1> USE EmptyDiffs
<1>0. rules' = rules /\ \A j \in Runs : NRoots(j)' = NRoots(j)
  BY DEF Apply, TakeSnapshot, HandlerFails, run, NRoots
<1>1. CASE Apply(h)
  <2>1. PICK f \in DOMAIN inbox[h] :
          /\ live' = [live EXCEPT ![f] = inbox[h][f]]
          /\ inbox' = [inbox EXCEPT ![h] = [g \in DOMAIN inbox[h] \ {f} |-> inbox[h][g]]]
    BY <1>1 DEF Apply
  <2>2. \A g \in DOMAIN inbox[h] : g \in Files /\ inbox[h][g] \in Versions
    BY DiffsElim DEF TypeOK
  <2>3. [g \in DOMAIN inbox[h] \ {f} |-> inbox[h][g]] \in Diffs
    BY <2>2, DiffsIntro
  <2> QED
    BY <1>0, <1>1, <2>1, <2>2, <2>3 DEF TypeOK, Apply, HandlerAt, source, run, ghosts
<1>2. CASE TakeSnapshot(h)
  BY <1>0, <1>2 DEF TypeOK, TakeSnapshot, HandlerAt, HandlerGoto, source, run, ghosts, HandlerStages
<1>3. CASE HandlerFails(h)
  BY <1>0, <1>3 DEF TypeOK, HandlerFails, HandlerGoto, source, server, run, ghosts, HandlerStages
<1> QED
  BY <1>1, <1>2, <1>3

-----------------------------------------------------------------------------
(* The shape of runs and streams.                                          *)

Restarts(k) == Begin(k) \/ Retry(k) \/ Fail(k)

\* An attempt begins or ends: of the one before, the run has nothing left.
LEMMA RestartFacts ==
  ASSUME TypeOK, NEW k \in Runs, Restarts(k)
  PROVE  /\ stage'[k] \in {"scan", "push", "failed"} /\ root'[k] = 1 /\ left'[k] = {}
         /\ plan'[k] = NoDiffs /\ stream'[k] = NoStream
         /\ stage'[k] = "scan" => Roots(k)' \subseteq RootNumbers /\ 1 \in Roots(k)'
         /\ stage'[k] = "push" => Roots(k)' = {}
         /\ \A j \in Runs : j # k =>
              /\ stage'[j] = stage[j] /\ rules'[j] = rules[j] /\ root'[j] = root[j]
              /\ plan'[j] = plan[j] /\ left'[j] = left[j] /\ stream'[j] = stream[j]
         /\ UNCHANGED <<source, rows, server, serving, dropped>>
<1>1. CASE Fail(k)
  BY <1>1 DEF Fail, GiveUp, Goto, TypeOK
<1>2. CASE BeginAttempt(k) /\ UNCHANGED <<source, rows, server, serving>>
  <2>1. PICK rs \in RuleSets : rules' = [rules EXCEPT ![k] = rs]
    BY <1>2 DEF BeginAttempt, MergeUserRules
  <2>2. /\ rules'[k] = rs /\ \A j \in Runs : j # k => rules'[j] = rules[j]
        /\ stage' = [stage EXCEPT ![k] = IF rs = <<>> THEN "push" ELSE "scan"]
    BY <1>2, <2>1 DEF BeginAttempt, Goto, TypeOK
  <2>3. Len(rs) \in Nat /\ DOMAIN rs = 1..Len(rs) /\ DOMAIN rs \subseteq RootNumbers /\ (rs = <<>> <=> Len(rs) = 0)
    BY RuleFacts
  <2>4. Roots(k)' = 1..Len(rs)
    BY <2>2, <2>3 DEF Roots
  <2> QED
    BY <1>2, <2>2, <2>3, <2>4 DEF BeginAttempt, TypeOK
<1> QED
  BY <1>1, <1>2 DEF Restarts, Begin, Retry

\* Nothing else changes rules.
LEMMA RulesKept ==
  ASSUME TypeOK, [Steps]_vars, \A k \in Runs : ~Restarts(k)
  PROVE  rules' = rules
BY DEF Steps, vars, run, Write, Remove, Change, Move, Restarts, Scans, Scan, DiffRoot, SkipRoot,
       OpenStream, SendBatch, Ack, CloseSend, Confirm, Record, RootDone, Succeed,
       Apply, TakeSnapshot, HandlerFails

LEMMA RulesStay ==
  ASSUME TypeOK, [Steps]_vars, NEW k \in Runs, ~Restarts(k)
  PROVE  /\ rules'[k] = rules[k] /\ Roots(k)' = Roots(k) /\ NRoots(k)' = NRoots(k)
         /\ \A r \in RootNumbers : Included(k, r)' = Included(k, r)
<1>1. rules'[k] = rules[k]
  BY RulesKept, RestartFacts
<1> QED
  BY <1>1 DEF Roots, NRoots, Included

\* A run that is working on a root, or sending or recording its diffs.
LEMMA ShapeFacts ==
  ASSUME TypeOK, Shape, NEW k \in Runs
  PROVE  /\ stage[k] \in {"scan", "diff", "record"} \cup Transfers => root[k] \in Roots(k)
         /\ stage[k] = "push" /\ root[k] <= NRoots(k) => root[k] \in Roots(k)
         /\ stage[k] \in Transfers => stream[k] \in Streams
         /\ root[k] \in 1..NRoots(k) + 1 /\ root[k] \in Nat
         /\ NRoots(k) \in Nat /\ Roots(k) = 1..NRoots(k)
         /\ Roots(k) \subseteq RootNumbers /\ RootNumbers \subseteq Nat \ {0}
<1>1. /\ NRoots(k) \in Nat /\ Roots(k) = 1..NRoots(k) /\ root[k] \in 1..NRoots(k) + 1 /\ root[k] \in Nat
      /\ Roots(k) \subseteq RootNumbers /\ RootNumbers \subseteq Nat \ {0}
  BY RootFacts
<1>2. stream[k] \in Streams \cup {NoStream} /\ (stage[k] \in Transfers => stream[k] # NoStream)
  BY DEF TypeOK, Transfers
<1>3. /\ stage[k] \in {"scan", "diff", "record"} \cup Transfers => root[k] \in Roots(k)
      /\ stage[k] = "push" /\ root[k] <= NRoots(k) => root[k] \in Roots(k)
  BY <1>1 DEF Shape, RunShape
<1> QED
  BY <1>1, <1>2, <1>3

LEMMA TypeStep ==
  ASSUME TypeOK, Shape, [Steps]_vars
  PROVE  TypeOK'
<1>1. ASSUME NEW f \in Files, Write(f) \/ Remove(f) PROVE TypeOK'
  BY <1>1, DiskType
<1>2. ASSUME NEW k \in Runs, Move(k) PROVE TypeOK'
  <2>1. CASE Begin(k) \/ Retry(k)
    BY <2>1, BeginAttemptType DEF Begin, Retry, Alone, TypeOK
  <2>2. CASE Scans(k) \/ DiffRoot(k) \/ SkipRoot(k) \/ RootDone(k) \/ Succeed(k)
    BY <2>2, ShapeFacts, ScanDiffType DEF Scans, Scan, DiffRoot, SkipRoot, RootDone, At
  <2>3. CASE \/ \E h \in Streams : OpenStream(k, h)
             \/ SendBatch(k) \/ Ack(k) \/ CloseSend(k) \/ Confirm(k)
    BY <2>3, ShapeFacts, TransferType DEF OpenStream, SendBatch, Ack, CloseSend, Confirm, At, Transfers
  <2>4. CASE Record(k)
    BY <2>4, ShapeFacts, RecordType DEF Record, At, Shape, RunShape
  <2>5. CASE Fail(k)
    BY <2>5, FailType
  <2> QED
    BY <1>2, <2>1, <2>2, <2>3, <2>4, <2>5 DEF Move
<1>3. ASSUME NEW h \in Streams, Apply(h) \/ TakeSnapshot(h) \/ HandlerFails(h) PROVE TypeOK'
  BY <1>3, HandlerType
<1>4. CASE UNCHANGED vars
  BY <1>4 DEF vars, source, server, serving, run, ghosts, TypeOK, Roots, NRoots
<1> QED
  BY <1>1, <1>2, <1>3, <1>4 DEF Steps

\* Runs other than k keep theirs when only k moves.
LEMMA RunShapeStep ==
  ASSUME TypeOK, Shape, [Steps]_vars, NEW j \in Runs
  PROVE  RunShape(j)'
<1> USE ShapeFacts, EmptyDiffs
<1>0. RunShape(j)
  BY DEF Shape
<1>1. CASE UNCHANGED run
  BY <1>0, <1>1 DEF RunShape, Active, run, Roots
<1>2. ASSUME NEW k \in Runs, Move(k) PROVE RunShape(j)'
  <2>1. CASE Restarts(k)
    <3>1. CASE j = k
      <4>1. /\ stage'[j] \in {"scan", "push", "failed"} /\ root'[j] = 1
            /\ \A r \in RootNumbers : plan'[j][r] = Empty
            /\ stage'[j] = "scan" => root'[j] \in Roots(j)'
        BY <2>1, <3>1, RestartFacts DEF NoDiffs
      <4> QED
        BY <4>1 DEF Active, RunShape, Transfers
    <3>2. CASE j # k
      <4>1. /\ plan'[j] = plan[j] /\ root'[j] = root[j] /\ left'[j] = left[j] /\ stage'[j] = stage[j]
            /\ rules'[j] = rules[j]
        BY <2>1, <3>2, RestartFacts
      <4> QED
        BY <1>0, <4>1 DEF Active, RunShape, Roots
    <3> QED
      BY <3>1, <3>2
  <2>2. CASE Scans(k)
    BY <1>0, <2>2 DEF Active, RunShape, Roots, NRoots, NoDiffs, Scans, Scan, At, Goto, Transfers, TypeOK
  <2>8. CASE SkipRoot(k)
    BY <1>0, <2>8 DEF Active, RunShape, Roots, NRoots, NoDiffs, SkipRoot, At, Goto, Transfers, TypeOK
  <2>9. CASE RootDone(k)
    BY <1>0, <2>9 DEF Active, RunShape, Roots, NRoots, NoDiffs, RootDone, At, Goto, Transfers, TypeOK
  <2>10. CASE Succeed(k)
    BY <1>0, <2>10 DEF Active, RunShape, Roots, NRoots, NoDiffs, Succeed, At, Goto, Transfers, TypeOK
  <2>3. CASE DiffRoot(k)
    BY <1>0, <2>3 DEF Active, RunShape, Roots, NRoots, NoDiffs, DiffRoot, Changed, At, Goto, Transfers, TypeOK
  <2>4. CASE \E h \in Streams : OpenStream(k, h)
    BY <1>0, <2>4 DEF Active, RunShape, Roots, NRoots, NoDiffs, OpenStream, At, Goto, Transfers, TypeOK
  <2>5. CASE SendBatch(k)
    BY <1>0, <2>5 DEF Active, RunShape, Roots, NRoots, NoDiffs, SendBatch, kSubset, At, Goto, Transfers, TypeOK
  <2>6. CASE Ack(k) \/ CloseSend(k) \/ Confirm(k)
    BY <1>0, <2>6 DEF Active, RunShape, Roots, NRoots, NoDiffs, Ack, CloseSend, Confirm, At, Goto, Transfers, TypeOK
  <2>7. CASE Record(k)
    BY <1>0, <2>7 DEF Active, RunShape, Roots, NRoots, NoDiffs, Record, At, Transfers, TypeOK
  <2> QED
    BY <1>2, <2>1, <2>2, <2>3, <2>4, <2>5, <2>6, <2>7, <2>8, <2>9, <2>10 DEF Move, Restarts
<1> QED
  BY <1>1, <1>2 DEF Steps, vars, Write, Remove, Change, Apply, TakeSnapshot, HandlerFails, run

LEMMA StreamShapeStep ==
  ASSUME TypeOK, Shape, [Steps]_vars, NEW j \in Runs
  PROVE  StreamShape(j)'
<1> USE ShapeFacts, EmptyDiffs
<1>0. \A i \in Runs : RunShape(i) /\ StreamShape(i)
  BY DEF Shape
<1>1. CASE UNCHANGED <<stream, handler, inbox, root, plan, left>>
  BY <1>0, <1>1 DEF StreamShape
<1>2. ASSUME NEW k \in Runs, Move(k) PROVE StreamShape(j)'
  <2>1. CASE Begin(k) \/ Retry(k) \/ Fail(k)
    BY <1>0, <2>1 DEF StreamShape, Begin, Retry, Fail, GiveUp, BeginAttempt, Goto, serving, TypeOK
  <2>2. CASE Scans(k) \/ DiffRoot(k) \/ SkipRoot(k) \/ RootDone(k) \/ Succeed(k)
    BY <1>0, <2>2 DEF StreamShape, Scans, Scan, SkipRoot, RootDone, Succeed, DiffRoot, At, Goto, serving, TypeOK
  <2>4. ASSUME NEW h \in Streams, OpenStream(k, h) PROVE StreamShape(j)'
    <3>1. /\ handler[h] = "free" /\ inbox[h] = Empty
          /\ stream' = [stream EXCEPT ![k] = h] /\ handler' = [handler EXCEPT ![h] = "recv"]
          /\ left' = [left EXCEPT ![k] = DOMAIN plan[k][root[k]]]
          /\ UNCHANGED <<inbox, root, plan>>
      BY <2>4 DEF OpenStream, HandlerAt, HandlerGoto, TypeOK
    <3>2. \A i \in Runs : stream[i] # h
      BY <1>0, <3>1, StreamsAssumption DEF StreamShape
    <3>3. CASE j = k
      BY <3>1, <3>2, <3>3 DEF StreamShape, TypeOK
    <3>4. CASE j # k
      BY <1>0, <3>1, <3>2, <3>4 DEF StreamShape, TypeOK
    <3> QED
      BY <3>3, <3>4
  <2>5. CASE SendBatch(k)
    BY <1>0, <2>5 DEF StreamShape, RunShape, SendBatch, kSubset, HandlerAt, HandlerGoto, At, Goto, Transfers, TypeOK
  <2>6. CASE Ack(k) \/ CloseSend(k)
    BY <1>0, <2>6 DEF StreamShape, Ack, CloseSend, HandlerAt, HandlerGoto, At, Goto, Transfers, TypeOK
  <2>8. CASE Confirm(k)
    BY <1>0, <2>8 DEF StreamShape, Confirm, HandlerAt, HandlerGoto, At, Goto, Transfers, TypeOK
  <2>7. CASE Record(k)
    BY <1>0, <2>7 DEF StreamShape, Record, At, Transfers, serving, TypeOK
  <2> QED
    BY <1>2, <2>1, <2>2, <2>4, <2>5, <2>6, <2>7, <2>8 DEF Move
<1>3. ASSUME NEW h \in Streams, Apply(h) \/ TakeSnapshot(h) \/ HandlerFails(h) PROVE StreamShape(j)'
  <2>1. CASE Apply(h)
    BY <1>0, <2>1 DEF StreamShape, Apply, HandlerAt, run, TypeOK
  <2>2. CASE TakeSnapshot(h)
    BY <1>0, <2>2 DEF StreamShape, TakeSnapshot, HandlerAt, HandlerGoto, run, TypeOK
  <2>3. CASE HandlerFails(h)
    BY <1>0, <2>3 DEF StreamShape, HandlerFails, HandlerGoto, run, TypeOK
  <2> QED
    BY <1>3, <2>1, <2>2, <2>3
<1> QED
  BY <1>1, <1>2, <1>3 DEF Steps, vars, Write, Remove, Change, run, serving

-----------------------------------------------------------------------------
(* Versions.                                                               *)

\* A version stays a past one whatever happens to the files.
LEMMA PastStays ==
  ASSUME TypeOK, Pasts, [Steps]_vars, NEW f \in Files, NEW v \in Versions, Past(v, f)
  PROVE  Past(v, f)'
<1> USE VersionFacts
<1>0. disk[f] <= writes /\ disk[f] \in Nat /\ writes \in Nat /\ v \in Nat
  BY DEF Pasts, FilePast, TypeOK
<1>1. CASE UNCHANGED <<disk, writes, removed>>
  BY <1>1 DEF Past
<1>2. ASSUME NEW g \in Files, Write(g) PROVE Past(v, f)'
  BY <1>0, <1>2 DEF Past, Write, Change, TypeOK
<1>3. ASSUME NEW g \in Files, Remove(g) PROVE Past(v, f)'
  BY <1>0, <1>3 DEF Past, Remove, Change, TypeOK
<1> QED
  BY <1>1, <1>2, <1>3
  DEF Steps, vars, Move, Begin, Scans, Scan, DiffRoot, SkipRoot, OpenStream, SendBatch, Ack, CloseSend,
      Confirm, Record, RootDone, Succeed, Retry, Fail, GiveUp, Apply, TakeSnapshot, HandlerFails, source

LEMMA FilePastStep ==
  ASSUME TypeOK, Shape, Pasts, [Steps]_vars, NEW f \in Files
  PROVE  FilePast(f)'
<1> USE VersionFacts
<1>0. /\ disk[f] <= writes /\ disk[f] \in Versions /\ writes \in Versions
      /\ rows[f] \in Versions /\ Past(rows[f], f)
      /\ live[f] \in Versions /\ Past(live[f], f)
      /\ newest[f] \in Versions /\ Past(newest[f], f)
  BY DEF Pasts, FilePast, TypeOK
<1>1. \A v \in Versions : Past(v, f) => Past(v, f)'
  BY PastStays
<1>2. disk'[f] <= writes'
  <2>1. ASSUME NEW g \in Files, Write(g) \/ Remove(g) PROVE disk'[f] <= writes'
    <3>1. CASE Write(g)
      BY <1>0, <3>1 DEF Write, Change, TypeOK
    <3>2. CASE Remove(g)
      BY <1>0, <3>2 DEF Remove, Change, TypeOK
    <3> QED
      BY <2>1, <3>1, <3>2
  <2> QED
    BY <1>0, <2>1
    DEF Steps, vars, Move, Begin, Scans, Scan, DiffRoot, SkipRoot, OpenStream, SendBatch, Ack, CloseSend,
        Confirm, Record, RootDone, Succeed, Retry, Fail, GiveUp, Apply, TakeSnapshot, HandlerFails, source
<1>3. \E v \in Versions : Past(v, f) /\ rows'[f] = v
  <2>1. ASSUME NEW k \in Runs, Record(k) PROVE \E v \in Versions : Past(v, f) /\ rows'[f] = v
    <3>1. PICK g \in left[k] : rows' = [rows EXCEPT ![g] = plan[k][root[k]][g]]
      BY <2>1 DEF Record, WriteRow
    <3>2. root[k] \in RootNumbers /\ g \in DOMAIN plan[k][root[k]]
      BY <2>1, <3>1, ShapeFacts DEF Record, At, Shape, RunShape
    <3>3. g \in Files /\ plan[k][root[k]][g] \in Versions
      BY <3>2, DiffsElim DEF TypeOK
    <3>4. Past(plan[k][root[k]][g], g)
      BY <3>2, <3>3 DEF Pasts, RunPast
    <3> QED
      BY <1>0, <3>1, <3>3, <3>4 DEF TypeOK
  <2>2. CASE UNCHANGED rows
    BY <1>0, <2>2
  <2> QED
    BY <2>1, <2>2
    DEF Steps, vars, Move, Write, Remove, Change, Begin, Scans, Scan, DiffRoot, SkipRoot, OpenStream,
        SendBatch, Ack, CloseSend, Confirm, RootDone, Succeed, Retry, Fail, GiveUp, Apply, TakeSnapshot, HandlerFails
<1>4. \E v \in Versions : Past(v, f) /\ live'[f] = v
  <2>1. ASSUME NEW h \in Streams, Apply(h) PROVE \E v \in Versions : Past(v, f) /\ live'[f] = v
    <3>1. PICK g \in DOMAIN inbox[h] : live' = [live EXCEPT ![g] = inbox[h][g]]
      BY <2>1 DEF Apply
    <3>2. g \in Files /\ inbox[h][g] \in Versions /\ Past(inbox[h][g], g)
      BY <3>1, DiffsElim DEF TypeOK, Pasts, BatchPast
    <3> QED
      BY <1>0, <3>1, <3>2 DEF TypeOK
  <2>2. CASE UNCHANGED live
    BY <1>0, <2>2
  <2> QED
    BY <2>1, <2>2
    DEF Steps, vars, server, Move, Write, Remove, Change, Begin, Scans, Scan, DiffRoot, SkipRoot, OpenStream,
        SendBatch, Ack, CloseSend, Confirm, Record, RootDone, Succeed, Retry, Fail, GiveUp, TakeSnapshot, HandlerFails
<1>5. newest'[f] \in {newest[f], live[f]}
  BY DEF Steps, vars, server, Move, Write, Remove, Change, Begin, Scans, Scan, DiffRoot, SkipRoot, OpenStream,
         SendBatch, Ack, CloseSend, Confirm, Record, RootDone, Succeed, Retry, Fail, GiveUp, Apply, TakeSnapshot,
         HandlerFails
<1> QED
  BY <1>0, <1>1, <1>2, <1>3, <1>4, <1>5 DEF FilePast, Past

LEMMA RunPastStep ==
  ASSUME TypeOK, Shape, Pasts, [Steps]_vars, NEW k \in Runs
  PROVE  RunPast(k)'
<1> USE VersionFacts
<1> SUFFICES ASSUME NEW f \in Files
             PROVE  /\ Past(seen[k][f], f)'
                    /\ \A r \in RootNumbers : (f \in DOMAIN plan[k][r] => Past(plan[k][r][f], f))'
  BY DEF RunPast
<1>0. /\ seen[k][f] \in Versions /\ Past(seen[k][f], f)
      /\ disk[f] \in Versions /\ Past(disk[f], f)
      /\ \A r \in RootNumbers : f \in DOMAIN plan[k][r] =>
           plan[k][r][f] \in Versions /\ Past(plan[k][r][f], f)
  BY DiffsElim DEF Pasts, RunPast, FilePast, TypeOK, Past
<1>1. \A v \in Versions : Past(v, f) => Past(v, f)'
  BY PastStays
<1>2. seen'[k][f] \in {seen[k][f], disk[f], Absent}
  <2>1. ASSUME NEW j \in Runs, Scans(j) \/ DiffRoot(j) \/ Fail(j)
        PROVE  seen'[k][f] \in {seen[k][f], disk[f], Absent}
    <3>1. CASE Scans(j)
      BY <3>1 DEF Scans, Scan, TypeOK
    <3>2. CASE DiffRoot(j) \/ Fail(j)
      <4>1. seen' = [seen EXCEPT ![j] = Unseen] /\ Unseen[f] = Absent
        BY <3>2 DEF DiffRoot, Fail, GiveUp, Unseen
      <4> QED
        BY <4>1 DEF TypeOK
    <3> QED
      BY <2>1, <3>1, <3>2
  <2> QED
    BY <2>1
    DEF Steps, vars, run, Move, Write, Remove, Change, Begin, BeginAttempt, SkipRoot, OpenStream,
        SendBatch, Ack, CloseSend, Confirm, Record, RootDone, Succeed, Retry, Apply, TakeSnapshot,
        HandlerFails
<1>3. ASSUME NEW r \in RootNumbers, f \in DOMAIN plan'[k][r]
      PROVE  plan'[k][r][f] = seen[k][f] \/ (f \in DOMAIN plan[k][r] /\ plan'[k][r][f] = plan[k][r][f])
  <2>1. ASSUME NEW j \in Runs, Begin(j) \/ Retry(j) \/ Fail(j) \/ Succeed(j)
        PROVE  f \in DOMAIN plan[k][r] /\ plan'[k][r][f] = plan[k][r][f]
    <3>1. plan' = [plan EXCEPT ![j] = NoDiffs]
      BY <2>1 DEF Begin, Retry, Fail, GiveUp, Succeed, BeginAttempt
    <3> QED
      BY <1>3, <3>1, EmptyDiffs DEF TypeOK, NoDiffs
  <2>2. ASSUME NEW j \in Runs, DiffRoot(j)
        PROVE  plan'[k][r][f] = seen[k][f] \/ (f \in DOMAIN plan[k][r] /\ plan'[k][r][f] = plan[k][r][f])
    BY <1>3, <2>2 DEF DiffRoot, TypeOK
  <2> QED
    BY <1>3, <2>1, <2>2
    DEF Steps, vars, run, Move, Write, Remove, Change, Scans, Scan, SkipRoot, OpenStream,
        SendBatch, Ack, CloseSend, Confirm, Record, RootDone, Apply, TakeSnapshot, HandlerFails
<1>4. Past(seen[k][f], f)'
  BY <1>0, <1>1, <1>2 DEF Past
<1>5. ASSUME NEW r \in RootNumbers, f \in DOMAIN plan'[k][r] PROVE Past(plan[k][r][f], f)'
  BY <1>0, <1>1, <1>3, <1>5 DEF Past
<1> QED
  BY <1>4, <1>5

LEMMA BatchPastStep ==
  ASSUME TypeOK, Shape, Pasts, [Steps]_vars, NEW h \in Streams
  PROVE  BatchPast(h)'
<1> USE VersionFacts
<1> SUFFICES ASSUME NEW f \in DOMAIN inbox'[h] PROVE Past(inbox[h][f], f)'
  BY DEF BatchPast
<1>1. \/ f \in DOMAIN inbox[h] /\ inbox'[h][f] = inbox[h][f]
      \/ f \in Files /\ inbox'[h][f] \in {disk[f], Absent}
  <2>1. ASSUME NEW j \in Runs, SendBatch(j)
        PROVE  \/ f \in DOMAIN inbox[h] /\ inbox'[h][f] = inbox[h][f]
               \/ f \in Files /\ inbox'[h][f] \in {disk[f], Absent}
    BY <2>1, ShapeFacts DEF SendBatch, kSubset, TypeOK
  <2>2. ASSUME NEW g \in Streams, Apply(g) \/ HandlerFails(g)
        PROVE  f \in DOMAIN inbox[h] /\ inbox'[h][f] = inbox[h][f]
    <3>1. CASE Apply(g)
      BY <3>1 DEF Apply, TypeOK
    <3>2. CASE HandlerFails(g)
      BY <3>2, EmptyDiffs DEF HandlerFails, TypeOK
    <3> QED
      BY <2>2, <3>1, <3>2
  <2> QED
    BY <2>1, <2>2
    DEF Steps, vars, serving, Move, Write, Remove, Change, Begin, Scans, Scan, DiffRoot, SkipRoot, OpenStream,
        Ack, CloseSend, Confirm, Record, RootDone, Succeed, Retry, Fail, GiveUp, TakeSnapshot
<1>2. f \in DOMAIN inbox[h] => f \in Files /\ inbox[h][f] \in Versions /\ Past(inbox[h][f], f)
  BY DiffsElim DEF TypeOK, Pasts, BatchPast
<1>3. f \in Files => disk[f] \in Versions /\ Past(disk[f], f)
  BY DEF TypeOK, Pasts, FilePast, Past
<1>4. f \in Files
  BY <1>1, <1>2
<1>5. \A v \in Versions : Past(v, f) => Past(v, f)'
  BY <1>4, PastStays
<1> QED
  BY <1>1, <1>2, <1>3, <1>4, <1>5 DEF Past

LEMMA ScannedOnlyStep ==
  ASSUME TypeOK, Shape, ScannedOnly, [Steps]_vars
  PROVE  ScannedOnly'
<1> SUFFICES ASSUME NEW k \in Runs PROVE RunScanned(k)'
  BY DEF ScannedOnly
<1> USE ShapeFacts, EmptyDiffs
<1>0. RunScanned(k)
  BY DEF ScannedOnly
<1>1. CASE UNCHANGED <<stage, rules, root, seen, plan>>
  BY <1>0, <1>1 DEF RunScanned, Included
<1>2. ASSUME NEW j \in Runs, Restarts(j) PROVE RunScanned(k)'
  <2>1. CASE j = k
    BY <1>2, <2>1, RestartFacts DEF RunScanned, NoDiffs
  <2>2. CASE j # k
    <3>1. stage'[k] = stage[k] /\ rules'[k] = rules[k] /\ root'[k] = root[k] /\ plan'[k] = plan[k]
      BY <1>2, <2>2, RestartFacts
    <3>2. seen'[k] = seen[k]
      BY <1>2, <2>2 DEF Restarts, Begin, Retry, Fail, GiveUp, BeginAttempt, TypeOK
    <3> QED
      BY <1>0, <3>1, <3>2 DEF RunScanned, Included
  <2> QED
    BY <2>1, <2>2
<1>3. ASSUME NEW j \in Runs, Succeed(j) PROVE RunScanned(k)'
  BY <1>0, <1>3 DEF RunScanned, Included, Succeed, NoDiffs, Goto, TypeOK
<1>4. ASSUME NEW j \in Runs, Scans(j) PROVE RunScanned(k)'
  BY <1>0, <1>4 DEF RunScanned, Scans, Scan, Included, At, Goto, TypeOK
<1>5. ASSUME NEW j \in Runs, DiffRoot(j) PROVE RunScanned(k)'
  BY <1>0, <1>5 DEF RunScanned, Included, DiffRoot, Changed, At, Goto, TypeOK
<1>6. ASSUME NEW j \in Runs,
             \/ SkipRoot(j) \/ \E h \in Streams : OpenStream(j, h)
             \/ SendBatch(j) \/ Ack(j) \/ CloseSend(j) \/ Confirm(j) \/ RootDone(j)
      PROVE  RunScanned(k)'
  <2>1. \E st \in {"push", "send", "await", "close", "record"} : stage' = [stage EXCEPT ![j] = st] \/ stage' = stage
    BY <1>6 DEF SkipRoot, OpenStream, SendBatch, Ack, CloseSend, Confirm, RootDone, Goto
  <2>2. UNCHANGED <<rules, seen, plan>> /\ \A i \in Runs : i # j => root'[i] = root[i]
    BY <1>6 DEF SkipRoot, OpenStream, SendBatch, Ack, CloseSend, Confirm, RootDone, TypeOK
  <2>3. stage[j] # "diff" /\ stage'[k] = "diff" => k # j /\ stage[k] = "diff"
    BY <2>1, <1>6 DEF SkipRoot, At, TypeOK
  <2>4. stage[j] # "diff"
    BY <1>6 DEF SkipRoot, OpenStream, SendBatch, Ack, CloseSend, Confirm, RootDone, At
  <2> QED
    BY <1>0, <2>2, <2>3, <2>4 DEF RunScanned, Included
<1> QED
  BY <1>1, <1>2, <1>3, <1>4, <1>5, <1>6
  DEF Steps, vars, run, Move, Restarts, Write, Remove, Change, Record, Apply, TakeSnapshot, HandlerFails

-----------------------------------------------------------------------------
(* One transfer at a time.                                                 *)

\* The premise that transfers do not overlap, at both ends of a step.
LEMMA OverlapStays ==
  ASSUME [Steps]_vars, overlapped
  PROVE  overlapped'
<1>1. CASE UNCHANGED overlapped
  BY <1>1
<1>2. ASSUME NEW k \in Runs, Begin(k) \/ \E h \in Streams : OpenStream(k, h) PROVE overlapped'
  BY <1>2 DEF Begin, OpenStream, Alone
<1> QED
  BY <1>1, <1>2
  DEF Steps, vars, ghosts, Move, Write, Remove, Change, Scans, Scan, DiffRoot, SkipRoot,
      SendBatch, Ack, CloseSend, Confirm, Record, RootDone, Succeed, Retry, Fail, GiveUp, Apply, TakeSnapshot,
      HandlerFails

\* A run that begins, or opens a stream, without an overlap finds nobody else at work.
LEMMA BeginAlone ==
  ASSUME NEW k \in Runs, Begin(k), ~overlapped'
  PROVE  (\A j \in Runs : ~Active(j)) /\ (\A h \in Streams : ~Serving(h))
BY DEF Begin, Alone

LEMMA OpenAlone ==
  ASSUME NEW k \in Runs, NEW h \in Streams, OpenStream(k, h), ~overlapped'
  PROVE  \A g \in Streams : ~Serving(g)
BY DEF OpenStream, Alone

\* Only Begin makes a run active.
LEMMA ActiveStep ==
  ASSUME TypeOK, [Steps]_vars, NEW k \in Runs, Active(k)', ~Active(k)
  PROVE  Begin(k)
<1>1. ASSUME NEW j \in Runs, Move(j) PROVE Begin(k)
  <2>1. CASE Begin(j)
    BY <2>1 DEF Active, Begin, BeginAttempt, Goto, TypeOK
  <2>2. CASE ~Begin(j)
    <3>1. Active(j)
      BY <1>1, <2>2 DEF Active, Move, Scans, Scan, DiffRoot, SkipRoot, OpenStream, SendBatch, Ack, CloseSend,
                        Confirm, Record, RootDone, Succeed, Retry, Fail, GiveUp, At
    <3>2. \A i \in Runs : i # j => stage'[i] = stage[i]
      BY <1>1, <2>2 DEF Move, Scans, Scan, DiffRoot, SkipRoot, OpenStream, SendBatch, Ack, CloseSend,
                        Confirm, Record, RootDone, Succeed, Retry, Fail, GiveUp, BeginAttempt, Goto, TypeOK
    <3> QED
      BY <3>1, <3>2 DEF Active
  <2> QED
    BY <2>1, <2>2
<1>2. CASE UNCHANGED stage
  BY <1>2 DEF Active
<1> QED
  BY <1>1, <1>2 DEF Steps, vars, run, Write, Remove, Change, Apply, TakeSnapshot, HandlerFails

\* Only OpenStream makes a handler serve.
LEMMA ServingStep ==
  ASSUME TypeOK, Shape, [Steps]_vars, NEW h \in Streams, Serving(h)', ~Serving(h)
  PROVE  \E k \in Runs : OpenStream(k, h)
<1>1. ASSUME NEW k \in Runs, NEW g \in Streams, OpenStream(k, g) PROVE OpenStream(k, h)
  BY <1>1 DEF Serving, OpenStream, HandlerGoto, TypeOK
<1>2. ASSUME NEW k \in Runs, SendBatch(k) \/ Ack(k) \/ CloseSend(k) \/ Confirm(k) PROVE FALSE
  BY <1>2 DEF Serving, SendBatch, Ack, CloseSend, Confirm, HandlerAt, HandlerGoto, TypeOK
<1>3. ASSUME NEW g \in Streams, TakeSnapshot(g) \/ HandlerFails(g) PROVE FALSE
  BY <1>3 DEF Serving, TakeSnapshot, HandlerFails, HandlerAt, HandlerGoto, TypeOK
<1>4. CASE UNCHANGED handler
  BY <1>4 DEF Serving
<1> QED
  BY <1>1, <1>2, <1>3, <1>4
  DEF Steps, vars, serving, Move, Write, Remove, Change, Begin, Scans, Scan, DiffRoot, SkipRoot,
      Record, RootDone, Succeed, Retry, Fail, GiveUp, Apply

\* A run that records has had its stream confirmed.
LEMMA RecordStep ==
  ASSUME TypeOK, Shape, [Steps]_vars, NEW k \in Runs, stage'[k] = "record", stage[k] # "record"
  PROVE  Confirm(k)
<1>1. ASSUME NEW j \in Runs, Move(j) PROVE Confirm(k)
  BY <1>1 DEF Move, Begin, Scans, Scan, DiffRoot, SkipRoot, OpenStream, SendBatch, Ack, CloseSend,
              Confirm, Record, RootDone, Succeed, Retry, Fail, GiveUp, BeginAttempt, Goto, At, TypeOK
<1> QED
  BY <1>1 DEF Steps, vars, run, Write, Remove, Change, Apply, TakeSnapshot, HandlerFails

\* A run that has a stream it had not has opened it.
LEMMA StreamStep ==
  ASSUME TypeOK, [Steps]_vars, NEW k \in Runs, stream'[k] # NoStream
  PROVE  stream'[k] = stream[k] \/ \E h \in Streams : stream'[k] = h /\ OpenStream(k, h)
<1>1. ASSUME NEW j \in Runs, NEW h \in Streams, OpenStream(j, h)
      PROVE  stream'[k] = stream[k] \/ (OpenStream(k, h) /\ stream'[k] = h)
  <2>1. stream' = [stream EXCEPT ![j] = h]
    BY <1>1 DEF OpenStream
  <2>2. CASE j # k
    BY <2>1, <2>2 DEF TypeOK
  <2>3. CASE j = k
    <3>1. stream'[k] = h
      BY <2>1, <2>3 DEF TypeOK
    <3> QED
      BY <1>1, <2>3, <3>1
  <2> QED
    BY <2>2, <2>3
<1>2. ASSUME NEW j \in Runs, Begin(j) \/ Retry(j) \/ Fail(j) \/ Confirm(j) PROVE stream'[k] = stream[k]
  BY <1>2 DEF Begin, Retry, Fail, GiveUp, Confirm, BeginAttempt, TypeOK
<1> QED
  BY <1>1, <1>2
  DEF Steps, vars, run, Move, Write, Remove, Change, Scans, Scan, DiffRoot, SkipRoot, SendBatch, Ack, CloseSend,
      Record, RootDone, Succeed, Apply, TakeSnapshot, HandlerFails

LEMMA OneTransferStep ==
  ASSUME TypeOK, Shape, OneTransfer, [Steps]_vars, ~overlapped'
  PROVE  OneTransfer'
<1>1. ASSUME NEW j \in Runs, NEW k \in Runs, Active(j)', Active(k)' PROVE j = k
  <2>1. CASE Active(j) /\ Active(k)
    BY <2>1 DEF OneTransfer
  <2>2. ASSUME NEW i \in Runs, Begin(i), ~Active(i) PROVE \A l \in Runs : l # i => ~Active(l)'
    BY <2>2, BeginAlone DEF Active, Begin, BeginAttempt, Goto, TypeOK
  <2>3. CASE ~Active(j)
    BY <1>1, <2>2, <2>3, ActiveStep
  <2>4. CASE ~Active(k)
    BY <1>1, <2>2, <2>4, ActiveStep
  <2> QED
    BY <2>1, <2>3, <2>4
<1>2. ASSUME NEW g \in Streams, NEW h \in Streams, Serving(g)', Serving(h)' PROVE g = h
  <2>1. CASE Serving(g) /\ Serving(h)
    BY <2>1 DEF OneTransfer
  <2>2. ASSUME NEW k \in Runs, NEW l \in Streams, OpenStream(k, l) PROVE \A m \in Streams : m # l => ~Serving(m)'
    BY <2>2, OpenAlone DEF Serving, OpenStream, HandlerGoto, TypeOK
  <2>3. CASE ~Serving(g)
    BY <1>2, <2>2, <2>3, ServingStep
  <2>4. CASE ~Serving(h)
    BY <1>2, <2>2, <2>4, ServingStep
  <2> QED
    BY <2>1, <2>3, <2>4
<1>3. ASSUME NEW k \in Runs, NEW h \in Streams, Serving(h)' PROVE stage'[k] # "record"
  <2> SUFFICES ASSUME stage'[k] = "record" PROVE FALSE
    OBVIOUS
  <2>1. CASE Confirm(k)
    <3>1. handler[stream[k]] = "taken" /\ handler' = [handler EXCEPT ![stream[k]] = "ended"] /\ stream[k] \in Streams
      BY <2>1, ShapeFacts DEF Confirm, HandlerAt, HandlerGoto, At, Transfers
    <3>2. h # stream[k] /\ Serving(h) /\ Serving(stream[k])
      BY <1>3, <3>1 DEF Serving, TypeOK
    <3> QED
      BY <3>1, <3>2 DEF OneTransfer
  <2>2. CASE stage[k] = "record"
    <3>1. ~Serving(h)
      BY <2>2 DEF OneTransfer
    <3>2. PICK j \in Runs : OpenStream(j, h)
      BY <1>3, <3>1, ServingStep
    <3>3. stage[j] = "push" /\ stage'[j] = "send"
      BY <3>2 DEF OpenStream, At, Goto, TypeOK
    <3> QED
      BY <2>2, <3>3 DEF OneTransfer, Active
  <2> QED
    BY <2>1, <2>2, RecordStep
<1>4. ASSUME NEW k \in Runs, NEW h \in Streams, Serving(h)', stream'[k] # NoStream PROVE stream'[k] = h
  <2>1. ASSUME NEW g \in Streams, OpenStream(k, g), stream'[k] = g PROVE stream'[k] = h
    <3>1. Serving(g)'
      BY <2>1 DEF Serving, OpenStream, HandlerGoto, TypeOK
    <3> QED
      BY <1>2, <1>4, <2>1, <3>1
  <2>2. CASE stream'[k] = stream[k] /\ Serving(h)
    BY <1>4, <2>2 DEF OneTransfer
  <2>3. CASE stream'[k] = stream[k] /\ ~Serving(h)
    <3>1. PICK j \in Runs : OpenStream(j, h)
      BY <1>4, <2>3, ServingStep
    <3>2. stage[j] = "push" /\ stage[k] \in Transfers /\ stage'[j] = "send"
      BY <1>4, <2>3, <3>1 DEF OpenStream, At, Goto, TypeOK, Transfers
    <3> QED
      BY <3>2 DEF OneTransfer, Active, Transfers
  <2> QED
    BY <1>4, <2>1, <2>2, <2>3, StreamStep
<1>5. ASSUME NEW h \in Streams, handler'[h] = "taken" PROVE newest' = live'
  <2>1. CASE UNCHANGED <<handler, server>>
    BY <1>5, <2>1 DEF OneTransfer, server
  <2>2. ASSUME NEW g \in Streams, Apply(g) PROVE newest' = live'
    <3>1. handler[h] = "taken" /\ handler[g] = "apply"
      BY <1>5, <2>2 DEF Apply, HandlerAt
    <3> QED
      BY <3>1 DEF OneTransfer, Serving
  <2>3. ASSUME NEW g \in Streams, TakeSnapshot(g) PROVE newest' = live'
    BY <2>3 DEF TakeSnapshot
  <2>4. ASSUME NEW g \in Streams, HandlerFails(g) PROVE newest' = live'
    BY <1>5, <2>4 DEF OneTransfer, HandlerFails, HandlerGoto, server, TypeOK
  <2>5. ASSUME NEW k \in Runs, 
               \/ \E g \in Streams : OpenStream(k, g)
               \/ SendBatch(k) \/ Ack(k) \/ CloseSend(k) \/ Confirm(k)
        PROVE newest' = live'
    BY <1>5, <2>5 DEF OneTransfer, OpenStream, SendBatch, Ack, CloseSend, Confirm, HandlerGoto, server, TypeOK
  <2> QED
    BY <2>1, <2>2, <2>3, <2>4, <2>5
    DEF Steps, vars, serving, Move, Write, Remove, Change, Begin, Scans, Scan, DiffRoot, SkipRoot,
        Record, RootDone, Succeed, Retry, Fail, GiveUp
<1> QED
  BY <1>1, <1>2, <1>3, <1>4, <1>5 DEF OneTransfer

-----------------------------------------------------------------------------
(* What changes a file, a scan, a plan, a batch, the dataset, a row.       *)

LEMMA DiskStep ==
  ASSUME TypeOK, Pasts, [Steps]_vars, NEW f \in Files
  PROVE  /\ disk'[f] = disk[f] \/ disk'[f] = Absent \/ disk'[f] > writes
         /\ disk'[f] # disk[f] => \A k \in Runs : f \notin steady'[k]
         /\ removed \subseteq removed'
<1>1. CASE UNCHANGED source
  BY <1>1 DEF source
<1>2. ASSUME NEW g \in Files, Write(g)
      PROVE  /\ disk'[f] = disk[f] \/ disk'[f] = Absent \/ disk'[f] > writes
             /\ disk'[f] # disk[f] => \A k \in Runs : f \notin steady'[k]
             /\ removed \subseteq removed'
  BY <1>2, VersionFacts DEF Write, Change, TypeOK
<1>3. ASSUME NEW g \in Files, Remove(g)
      PROVE  /\ disk'[f] = disk[f] \/ disk'[f] = Absent \/ disk'[f] > writes
             /\ disk'[f] # disk[f] => \A k \in Runs : f \notin steady'[k]
             /\ removed \subseteq removed'
  BY <1>3 DEF Remove, Change, TypeOK
<1> QED
  BY <1>1, <1>2, <1>3
  DEF Steps, vars, Move, Begin, Scans, Scan, DiffRoot, SkipRoot, OpenStream, SendBatch, Ack, CloseSend,
      Confirm, Record, RootDone, Succeed, Retry, Fail, GiveUp, Apply, TakeSnapshot, HandlerFails

\* A run between its scan and its diff has just scanned, or has not moved.
LEMMA ScanStep ==
  ASSUME TypeOK, [Steps]_vars, NEW k \in Runs, stage'[k] = "diff"
  PROVE  \/ Scans(k)
         \/ stage[k] = "diff" /\ seen'[k] = seen[k] /\ root'[k] = root[k]
<1>1. CASE UNCHANGED run
  BY <1>1 DEF run
<1>2. ASSUME NEW j \in Runs, Move(j), j # k
      PROVE  stage[k] = "diff" /\ seen'[k] = seen[k] /\ root'[k] = root[k]
  BY <1>2 DEF Move, Begin, Scans, Scan, DiffRoot, SkipRoot, OpenStream, SendBatch, Ack, CloseSend,
              Confirm, Record, RootDone, Succeed, Retry, Fail, GiveUp, BeginAttempt, Goto, TypeOK
<1>3. CASE Move(k)
  <2>1. CASE Record(k)
    BY <2>1 DEF Record
  <2>2. CASE SkipRoot(k)
    BY <2>2 DEF SkipRoot, At
  <2> QED
    BY <1>3, <2>1, <2>2
    DEF Move, Begin, DiffRoot, OpenStream, SendBatch, Ack, CloseSend,
        Confirm, RootDone, Succeed, Retry, Fail, GiveUp, BeginAttempt, Goto, TypeOK
<1> QED
  BY <1>1, <1>2, <1>3 DEF Steps, vars, Write, Remove, Change, Apply, TakeSnapshot, HandlerFails

\* A planned path was planned before, or is what the diff of the root has found.
LEMMA PlanStep ==
  ASSUME TypeOK, [Steps]_vars, NEW k \in Runs, NEW r \in RootNumbers, NEW f \in DOMAIN plan'[k][r]
  PROVE  \/ f \in DOMAIN plan[k][r] /\ plan'[k][r][f] = plan[k][r][f]
         \/ DiffRoot(k) /\ r = root[k] /\ f \in Changed(k) /\ plan'[k][r][f] = seen[k][f]
<1>1. CASE UNCHANGED plan
  BY <1>1
<1>2. ASSUME NEW j \in Runs, Begin(j) \/ Retry(j) \/ Fail(j) \/ Succeed(j)
      PROVE  f \in DOMAIN plan[k][r] /\ plan'[k][r][f] = plan[k][r][f]
  <2>1. plan' = [plan EXCEPT ![j] = NoDiffs]
    BY <1>2 DEF Begin, Retry, Fail, GiveUp, Succeed, BeginAttempt
  <2> QED
    BY <2>1, EmptyDiffs DEF TypeOK, NoDiffs
<1>3. ASSUME NEW j \in Runs, DiffRoot(j), j # k
      PROVE  f \in DOMAIN plan[k][r] /\ plan'[k][r][f] = plan[k][r][f]
  BY <1>3 DEF DiffRoot, TypeOK
<1>4. CASE DiffRoot(k)
  <2>1. plan' = [plan EXCEPT ![k][root[k]] = [g \in Changed(k) |-> seen[k][g]]]
    BY <1>4 DEF DiffRoot
  <2> QED
    BY <1>4, <2>1 DEF TypeOK
<1> QED
  BY <1>1, <1>2, <1>3, <1>4
  DEF Steps, vars, run, Move, Write, Remove, Change, Scans, Scan, SkipRoot, OpenStream,
      SendBatch, Ack, CloseSend, Confirm, Record, RootDone, Apply, TakeSnapshot, HandlerFails

\* A row changes to what the run that records has planned for it; only with a row is a
\* path that was left out taken back.
LEMMA RowStep ==
  ASSUME TypeOK, Shape, [Steps]_vars, NEW f \in Files
  PROVE  \/ rows'[f] = rows[f] /\ (f \in dropped => f \in dropped')
         \/ \E k \in Runs : /\ Record(k) /\ stage[k] = "record" /\ root[k] \in Roots(k)
                            /\ f \in left[k] /\ f \in DOMAIN plan[k][root[k]]
                            /\ rows'[f] = plan[k][root[k]][f]
                            /\ dropped' = IF rows'[f] = Absent THEN dropped ELSE dropped \ {f}
<1>1. CASE UNCHANGED rows /\ dropped \subseteq dropped'
  BY <1>1
<1>2. ASSUME NEW k \in Runs, Record(k)
      PROVE  \/ rows'[f] = rows[f] /\ (f \in dropped => f \in dropped')
             \/ /\ Record(k) /\ stage[k] = "record" /\ root[k] \in Roots(k)
                /\ f \in left[k] /\ f \in DOMAIN plan[k][root[k]]
                /\ rows'[f] = plan[k][root[k]][f]
                /\ dropped' = IF rows'[f] = Absent THEN dropped ELSE dropped \ {f}
  <2>1. PICK g \in left[k] :
          /\ rows' = [rows EXCEPT ![g] = plan[k][root[k]][g]]
          /\ dropped' = IF plan[k][root[k]][g] = Absent THEN dropped ELSE dropped \ {g}
    BY <1>2 DEF Record, WriteRow
  <2>2. stage[k] = "record" /\ root[k] \in Roots(k) /\ left[k] \subseteq DOMAIN plan[k][root[k]]
    BY <1>2, ShapeFacts DEF Record, At, Shape, RunShape
  <2>3. CASE f = g
    BY <1>2, <2>1, <2>2, <2>3 DEF TypeOK
  <2>4. CASE f # g
    BY <2>1, <2>4 DEF TypeOK
  <2> QED
    BY <2>3, <2>4
<1> QED
  BY <1>1, <1>2
  DEF Steps, vars, ghosts, Move, Write, Remove, Change, Begin, BeginAttempt, Scans, Scan, DiffRoot, SkipRoot,
      OpenStream, SendBatch, Ack, CloseSend, Confirm, RootDone, Succeed, Retry, Fail, GiveUp, Apply,
      TakeSnapshot, HandlerFails

\* A path is left out by the diff of a run whose rules do so, and is steady for nobody then.
LEMMA DroppedStep ==
  ASSUME TypeOK, [Steps]_vars, NEW f \in Files, f \in dropped', f \notin dropped
  PROVE  /\ \E k \in Runs : DiffRoot(k) /\ f \in LeftOut(k)
         /\ \A k \in Runs : f \notin steady'[k]
<1>1. ASSUME NEW k \in Runs, DiffRoot(k)
      PROVE  f \in LeftOut(k) /\ \A j \in Runs : f \notin steady'[j]
  BY <1>1 DEF DiffRoot
<1>2. ASSUME NEW k \in Runs, Record(k) PROVE FALSE
  BY <1>2 DEF Record, WriteRow
<1> QED
  BY <1>1, <1>2
  DEF Steps, vars, ghosts, Move, Write, Remove, Change, Begin, BeginAttempt, Scans, Scan, SkipRoot,
      OpenStream, SendBatch, Ack, CloseSend, Confirm, RootDone, Succeed, Retry, Fail, GiveUp, Apply,
      TakeSnapshot, HandlerFails

\* What the next batch says of a path that is left.
Sent(k, f) == IF plan[k][root[k]][f] = Absent THEN Absent ELSE disk[f]

LEMMA BatchStep ==
  ASSUME TypeOK, Shape, [Steps]_vars, NEW h \in Streams, NEW f \in DOMAIN inbox'[h]
  PROVE  \/ f \in DOMAIN inbox[h] /\ inbox'[h][f] = inbox[h][f]
         \/ \E k \in Runs : /\ SendBatch(k) /\ stage[k] = "send" /\ stream[k] = h
                            /\ root[k] \in Roots(k)
                            /\ f \in left[k] /\ f \in DOMAIN plan[k][root[k]] /\ f \in Files
                            /\ plan[k][root[k]][f] # Absent => disk[f] # Absent
                            /\ inbox'[h][f] = Sent(k, f)
<1>1. ASSUME NEW k \in Runs, SendBatch(k)
      PROVE  \/ f \in DOMAIN inbox[h] /\ inbox'[h][f] = inbox[h][f]
             \/ /\ SendBatch(k) /\ stage[k] = "send" /\ stream[k] = h
                /\ root[k] \in Roots(k)
                /\ f \in left[k] /\ f \in DOMAIN plan[k][root[k]] /\ f \in Files
                /\ plan[k][root[k]][f] # Absent => disk[f] # Absent
                /\ inbox'[h][f] = Sent(k, f)
  <2>1. PICK batch \in SUBSET left[k] :
          /\ \A g \in batch : plan[k][root[k]][g] # Absent => disk[g] # Absent
          /\ inbox' = [inbox EXCEPT ![stream[k]] = [g \in batch |-> Sent(k, g)]]
    BY <1>1 DEF SendBatch, kSubset, Sent
  <2>2. stage[k] = "send" /\ root[k] \in Roots(k) /\ left[k] \subseteq DOMAIN plan[k][root[k]] /\ left[k] \subseteq Files
    BY <1>1, ShapeFacts DEF SendBatch, At, Shape, RunShape, Transfers, TypeOK
  <2> QED
    BY <1>1, <2>1, <2>2 DEF TypeOK
<1>2. ASSUME NEW g \in Streams, Apply(g)
      PROVE  f \in DOMAIN inbox[h] /\ inbox'[h][f] = inbox[h][f]
  BY <1>2 DEF Apply, TypeOK
<1>3. ASSUME NEW g \in Streams, HandlerFails(g)
      PROVE  f \in DOMAIN inbox[h] /\ inbox'[h][f] = inbox[h][f]
  BY <1>3, EmptyDiffs DEF HandlerFails, TypeOK
<1>4. CASE UNCHANGED inbox
  BY <1>4
<1> QED
  BY <1>1, <1>2, <1>3, <1>4
  DEF Steps, vars, serving, Move, Write, Remove, Change, Begin, Scans, Scan, DiffRoot, SkipRoot, OpenStream,
      Ack, CloseSend, Confirm, Record, RootDone, Succeed, Retry, Fail, GiveUp, TakeSnapshot

LEMMA LiveStep ==
  ASSUME TypeOK, [Steps]_vars, NEW f \in Files
  PROVE  \/ live'[f] = live[f]
         \/ \E h \in Streams : /\ Apply(h) /\ Serving(h) /\ f \in DOMAIN inbox[h]
                               /\ live'[f] = inbox[h][f] /\ f \notin DOMAIN inbox'[h]
<1>1. ASSUME NEW h \in Streams, Apply(h)
      PROVE  \/ live'[f] = live[f]
             \/ /\ Apply(h) /\ Serving(h) /\ f \in DOMAIN inbox[h]
                /\ live'[f] = inbox[h][f] /\ f \notin DOMAIN inbox'[h]
  <2>1. PICK g \in DOMAIN inbox[h] :
          /\ live' = [live EXCEPT ![g] = inbox[h][g]]
          /\ inbox' = [inbox EXCEPT ![h] = [e \in DOMAIN inbox[h] \ {g} |-> inbox[h][e]]]
    BY <1>1 DEF Apply
  <2>2. Serving(h)
    BY <1>1 DEF Apply, HandlerAt, Serving
  <2> QED
    BY <1>1, <2>1, <2>2 DEF TypeOK
<1>2. CASE UNCHANGED live
  BY <1>2
<1> QED
  BY <1>1, <1>2
  DEF Steps, vars, server, Move, Write, Remove, Change, Begin, Scans, Scan, DiffRoot, SkipRoot, OpenStream,
      SendBatch, Ack, CloseSend, Confirm, Record, RootDone, Succeed, Retry, Fail, GiveUp, TakeSnapshot, HandlerFails

LEMMA NewestStep ==
  ASSUME [Steps]_vars
  PROVE  newest' = newest \/ \E h \in Streams : TakeSnapshot(h) /\ newest' = live
<1>1. ASSUME NEW h \in Streams, TakeSnapshot(h) PROVE newest' = live
  BY <1>1 DEF TakeSnapshot
<1> QED
  BY <1>1
  DEF Steps, vars, server, Move, Write, Remove, Change, Begin, Scans, Scan, DiffRoot, SkipRoot, OpenStream,
      SendBatch, Ack, CloseSend, Confirm, Record, RootDone, Succeed, Retry, Fail, GiveUp, Apply, HandlerFails

\* A run that takes no step stays where it is.
LEMMA RunStays ==
  ASSUME TypeOK, [Steps]_vars, NEW k \in Runs, ~Move(k)
  PROVE  /\ stage'[k] = stage[k] /\ root'[k] = root[k] /\ seen'[k] = seen[k]
         /\ plan'[k] = plan[k] /\ left'[k] = left[k] /\ stream'[k] = stream[k]
         /\ rules'[k] = rules[k] /\ Roots(k)' = Roots(k)
<1>0. rules'[k] = rules[k] /\ Roots(k)' = Roots(k)
  BY RulesStay DEF Restarts, Move
<1>1. CASE UNCHANGED run
  BY <1>0, <1>1 DEF run
<1>2. ASSUME NEW j \in Runs, Move(j)
      PROVE  /\ stage'[k] = stage[k] /\ root'[k] = root[k] /\ seen'[k] = seen[k]
             /\ plan'[k] = plan[k] /\ left'[k] = left[k] /\ stream'[k] = stream[k]
  <2>1. j # k
    BY <1>2
  <2>2. CASE Begin(j) \/ Retry(j) \/ Fail(j) \/ Succeed(j)
    BY <2>1, <2>2 DEF Begin, Retry, Fail, GiveUp, Succeed, BeginAttempt, Goto, TypeOK
  <2>3. CASE Scans(j) \/ DiffRoot(j) \/ SkipRoot(j) \/ RootDone(j) \/ Record(j)
    BY <2>1, <2>3 DEF Scans, Scan, DiffRoot, SkipRoot, RootDone, Record, Goto, TypeOK
  <2>4. CASE \/ \E h \in Streams : OpenStream(j, h)
             \/ SendBatch(j) \/ Ack(j) \/ CloseSend(j) \/ Confirm(j)
    BY <2>1, <2>4 DEF OpenStream, SendBatch, Ack, CloseSend, Confirm, Goto, TypeOK
  <2> QED
    BY <1>2, <2>2, <2>3, <2>4 DEF Move
<1> QED
  BY <1>0, <1>1, <1>2 DEF Steps, vars, Write, Remove, Change, Apply, TakeSnapshot, HandlerFails

\* What an attempt counts as unchanged when it begins.
Untouched == {f \in Files : f \in dropped => rows[f] = Absent}

\* Which paths a run has seen unchanged.
LEMMA SteadyStep ==
  ASSUME TypeOK, [Steps]_vars
  PROVE  \/ \E S \in SUBSET Files : steady' = [k \in Runs |-> steady[k] \ S]
         \/ \E j \in Runs : /\ Begin(j) \/ Retry(j)
                            /\ steady' = [steady EXCEPT ![j] = Untouched]
                            /\ rows' = rows /\ dropped' = dropped
<1>1. ASSUME NEW f \in Files, Write(f) \/ Remove(f)
      PROVE  \E S \in SUBSET Files : steady' = [k \in Runs |-> steady[k] \ S]
  <2>1. {f} \in SUBSET Files
    OBVIOUS
  <2> QED
    BY <1>1, <2>1 DEF Write, Remove, Change
<1>2. ASSUME NEW j \in Runs, Begin(j) \/ Retry(j)
      PROVE  /\ steady' = [steady EXCEPT ![j] = Untouched]
             /\ rows' = rows /\ dropped' = dropped
  BY <1>2 DEF Begin, Retry, BeginAttempt, Untouched
<1>3. ASSUME NEW j \in Runs, DiffRoot(j)
      PROVE  \E S \in SUBSET Files : steady' = [k \in Runs |-> steady[k] \ S]
  <2>1. LeftOut(j) \cap Files \in SUBSET Files
    OBVIOUS
  <2>2. steady' = [k \in Runs |-> steady[k] \ (LeftOut(j) \cap Files)]
    BY <1>3 DEF DiffRoot, TypeOK
  <2> QED
    BY <2>1, <2>2
<1>4. CASE steady' = steady
  <2>1. {} \in SUBSET Files /\ steady' = [k \in Runs |-> steady[k] \ {}]
    BY <1>4 DEF TypeOK
  <2> QED
    BY <2>1
<1> QED
  BY <1>1, <1>2, <1>3, <1>4
  DEF Steps, vars, ghosts, Move, Scans, Scan, SkipRoot, OpenStream, SendBatch, Ack, CloseSend,
      Confirm, Record, RootDone, Succeed, Fail, GiveUp, Apply, TakeSnapshot, HandlerFails

LEMMA SteadyKeptStep ==
  ASSUME TypeOK, Shape, SteadyKept, [Steps]_vars
  PROVE  SteadyKept'
<1> SUFFICES ASSUME NEW k \in Runs, NEW f \in Files, f \in steady'[k], f \in dropped'
             PROVE  rows'[f] = Absent
  <2>1. TypeOK'
    BY TypeStep
  <2> QED
    BY <2>1 DEF SteadyKept, TypeOK
<1>1. f \in dropped
  BY DroppedStep
<1>2. CASE f \in steady[k]
  BY <1>1, <1>2, RowStep DEF SteadyKept
<1>3. CASE f \notin steady[k]
  <2>1. ASSUME NEW S \in SUBSET Files, steady' = [j \in Runs |-> steady[j] \ S] PROVE FALSE
    BY <1>3, <2>1
  <2>2. ASSUME NEW j \in Runs, steady' = [steady EXCEPT ![j] = Untouched], rows' = rows
        PROVE  rows'[f] = Absent
    <3>1. f \in Untouched
      BY <1>3, <2>2 DEF TypeOK
    <3> QED
      BY <1>1, <2>2, <3>1 DEF Untouched
  <2> QED
    BY <2>1, <2>2, SteadyStep
<1> QED
  BY <1>2, <1>3

-----------------------------------------------------------------------------
(* Deletions.                                                              *)

\* While a batch is on its way no row is written.
LEMMA BatchMeansTransfer ==
  ASSUME TypeOK, Shape, OneTransfer, [Steps]_vars, NEW h \in Streams, inbox[h] # Empty
  PROVE  /\ Serving(h) /\ \A k \in Runs : stage[k] # "record"
         /\ \A f \in Files : rows'[f] = rows[f] /\ (f \in dropped => f \in dropped')
<1>1. Serving(h)
  BY DEF TypeOK, Serving
<1>2. \A k \in Runs : stage[k] # "record"
  BY <1>1 DEF OneTransfer
<1> QED
  BY <1>1, <1>2, RowStep

\* A run with diffs is at work, and keeps its rules while it keeps them.
LEMMA PlannedFacts ==
  ASSUME TypeOK, Shape, [Steps]_vars, NEW k \in Runs, NEW r \in RootNumbers, NEW f \in DOMAIN plan[k][r]
  PROVE  /\ Active(k) /\ r \in Roots(k) /\ f \in rules[k][r].under
         /\ plan'[k][r] # Empty => rules'[k] = rules[k] /\ Included(k, r)' = Included(k, r)
<1>1. Active(k) /\ r \in Roots(k) /\ f \in rules[k][r].under
  BY EmptyDiffs DEF Shape, RunShape
<1>2. ASSUME plan'[k][r] # Empty PROVE ~Restarts(k)
  BY <1>2, RestartFacts DEF NoDiffs
<1> QED
  BY <1>1, <1>2, RulesStay

\* Without a hole, a file below a root that does not include it is included by none.
LEMMA NoHole ==
  ASSUME TypeOK, Covered, NEW k \in Runs, NEW r \in Roots(k), NEW f \in rules[k][r].under,
         f \notin Included(k, r)
  PROVE  ~Scanned(k, f)
<1>1. rules[k] \in RuleSets
  BY RootFacts DEF TypeOK
<1> QED
  BY <1>1 DEF Covered, Scanned, Roots, Included

LEMMA MissingStep ==
  ASSUME TypeOK, Shape, Pasts, ScannedOnly, OneTransfer, Covered, MissingWasRemoved, [Steps]_vars
  PROVE  MissingWasRemoved'
<1> USE VersionFacts
<1>1. ASSUME NEW k \in Runs, NEW f \in Files, stage'[k] = "diff", f \in Included(k, root[k])',
             seen'[k][f] = Absent, rows'[f] # Absent
      PROVE  f \in removed'
  <2>1. CASE Scans(k)
    <3>1. disk[f] = Absent /\ rows'[f] = rows[f] /\ removed' = removed
      BY <1>1, <2>1 DEF Scans, Scan, Included, source, TypeOK
    <3>2. Past(rows[f], f) /\ rows[f] \in Versions
      BY DEF Pasts, FilePast, TypeOK
    <3> QED
      BY <1>1, <3>1, <3>2 DEF Past
  <2>2. CASE stage[k] = "diff" /\ seen'[k] = seen[k] /\ root'[k] = root[k]
    <3>1. rows'[f] = rows[f]
      BY <2>2, RowStep DEF OneTransfer, Active
    <3>2. f \in Included(k, root[k])
      <4>1. ~Restarts(k)
        BY <1>1, RestartFacts
      <4> QED
        BY <1>1, <2>2, <4>1, RulesStay DEF Included
    <3>3. f \in removed
      BY <1>1, <2>2, <3>1, <3>2 DEF MissingWasRemoved
    <3> QED
      BY <3>3, DiskStep
  <2> QED
    BY <1>1, <2>1, <2>2, ScanStep
<1>2. ASSUME NEW k \in Runs, NEW f \in Files, NEW r \in RootNumbers,
             f \in DOMAIN plan'[k][r], plan'[k][r][f] = Absent
      PROVE  f \in IF f \in Included(k, r)' THEN removed' ELSE dropped'
  <2>1. CASE f \in DOMAIN plan[k][r] /\ plan'[k][r][f] = plan[k][r][f]
    <3>1. /\ Active(k) /\ r \in Roots(k) /\ f \in rules[k][r].under /\ Included(k, r)' = Included(k, r)
      BY <1>2, <2>1, PlannedFacts, EmptyDiffs
    <3>2. f \in IF f \in Included(k, r) THEN removed ELSE dropped
      BY <1>2, <2>1 DEF MissingWasRemoved
    <3>3. CASE f \in Included(k, r)
      BY <3>1, <3>2, <3>3, DiskStep
    <3>4. CASE f \notin Included(k, r)
      <4> SUFFICES ASSUME NEW j \in Runs, stage[j] = "record", root[j] \in Roots(j),
                          f \in DOMAIN plan[j][root[j]], plan[j][root[j]][f] # Absent
                   PROVE  FALSE
        BY <3>1, <3>2, <3>4, RowStep
      <4>1. j = k
        BY <3>1 DEF OneTransfer, Active
      <4>2. f \in Included(k, root[k])
        BY <4>1, ShapeFacts DEF ScannedOnly, RunScanned
      <4> QED
        BY <3>1, <3>4, <4>1, <4>2, NoHole DEF Scanned
    <3> QED
      BY <3>3, <3>4
  <2>2. CASE DiffRoot(k) /\ r = root[k] /\ f \in Changed(k) /\ plan'[k][r][f] = seen[k][f]
    <3>1. /\ stage[k] = "diff" /\ rows[f] # Absent /\ f \in rules[k][r].under /\ seen[k][f] = Absent
          /\ rules' = rules /\ removed' = removed /\ dropped' = dropped \cup LeftOut(k)
      BY <1>2, <2>2 DEF DiffRoot, At, Changed, source
    <3>2. r \in Roots(k) /\ Included(k, r)' = Included(k, r)
      BY <2>2, <3>1, ShapeFacts DEF Included
    <3>3. CASE f \in Included(k, r)
      BY <2>2, <3>1, <3>2, <3>3 DEF MissingWasRemoved
    <3>4. CASE f \notin Included(k, r)
      BY <2>2, <3>1, <3>2, <3>4, NoHole DEF LeftOut, Scanned
    <3> QED
      BY <3>3, <3>4
  <2> QED
    BY <1>2, <2>1, <2>2, PlanStep
<1>3. ASSUME NEW h \in Streams, NEW f \in DOMAIN inbox'[h], inbox'[h][f] = Absent
      PROVE  f \in removed' \cup dropped'
  <2>1. CASE f \in DOMAIN inbox[h] /\ inbox'[h][f] = inbox[h][f]
    <3>1. f \in removed \cup dropped /\ f \in Files
      BY <1>3, <2>1, DiffsElim DEF MissingWasRemoved, TypeOK
    <3>2. f \in dropped => f \in dropped'
      BY <2>1, <3>1, BatchMeansTransfer, EmptyDiffs
    <3> QED
      BY <3>1, <3>2, DiskStep
  <2>2. ASSUME NEW k \in Runs, SendBatch(k), root[k] \in Roots(k), f \in DOMAIN plan[k][root[k]], f \in Files,
               plan[k][root[k]][f] # Absent => disk[f] # Absent, inbox'[h][f] = Sent(k, f)
        PROVE  f \in removed' \cup dropped'
    <3>1. plan[k][root[k]][f] = Absent
      BY <1>3, <2>2 DEF Sent
    <3>2. root[k] \in RootNumbers /\ removed' = removed /\ dropped' = dropped
      BY <2>2, ShapeFacts DEF SendBatch, source, ghosts
    <3> QED
      BY <2>2, <3>1, <3>2 DEF MissingWasRemoved
  <2> QED
    BY <1>3, <2>1, <2>2, BatchStep
<1> QED
  BY <1>1, <1>2, <1>3 DEF MissingWasRemoved

\* What is outdated stays so, since only a new version comes to the disk.
LEMMA OutdatedStays ==
  ASSUME TypeOK, Pasts, [Steps]_vars, NEW f \in Files, NEW v \in Versions, Past(v, f), Outdated(f, v)
  PROVE  disk'[f] = Absent \/ disk'[f] # v
<1>1. disk'[f] = disk[f] \/ disk'[f] = Absent \/ disk'[f] > writes
  BY DiskStep
<1>2. v \in Nat /\ writes \in Nat /\ (v # 0 => v <= writes)
  BY VersionFacts DEF TypeOK, Past
<1> QED
  BY <1>1, <1>2 DEF Outdated, Absent

\* A root with diffs that is to be pushed after a step was so before it.
LEMMA PendingStep ==
  ASSUME TypeOK, Shape, [Steps]_vars, NEW k \in Runs, NEW r \in RootNumbers, plan'[k][r] # Empty,
         stage'[k] \in {"scan", "diff"} \/ r >= root'[k]
  PROVE  Pending(k, r)
<1> USE ShapeFacts, DiffsElim
<1>1. CASE ~Move(k)
  BY <1>1, RunStays DEF Pending
<1>2. CASE Begin(k) \/ Retry(k) \/ Fail(k) \/ Succeed(k)
  BY <1>2 DEF Begin, Retry, Fail, GiveUp, Succeed, BeginAttempt, NoDiffs, TypeOK
<1>3. CASE Scans(k) \/ DiffRoot(k)
  BY <1>3 DEF Scans, Scan, DiffRoot, At, Pending
<1>4. CASE SkipRoot(k) \/ RootDone(k)
  <2>1. root'[k] = root[k] + 1 /\ stage'[k] = "push" /\ root[k] \in Nat /\ r \in Nat
    BY <1>4 DEF SkipRoot, RootDone, At, Goto, TypeOK
  <2> QED
    BY <2>1 DEF Pending
<1>5. CASE \/ \E h \in Streams : OpenStream(k, h)
           \/ SendBatch(k) \/ Ack(k) \/ CloseSend(k) \/ Confirm(k) \/ Record(k)
  <2>1. root' = root
    BY <1>5 DEF OpenStream, SendBatch, Ack, CloseSend, Confirm, Record
  <2>2. stage'[k] \notin {"scan", "diff"}
    BY <1>5 DEF OpenStream, SendBatch, Ack, CloseSend, Confirm, Record, At, Goto, TypeOK
  <2> QED
    BY <2>1, <2>2 DEF Pending
<1> QED
  BY <1>1, <1>2, <1>3, <1>4, <1>5 DEF Move

\* A scan that did not see a file.
LEMMA UnseenStep ==
  ASSUME TypeOK, Shape, Pasts, OneTransfer, DeletesOutdated, [Steps]_vars,
         NEW k \in Runs, NEW f \in Files, stage'[k] = "diff", f \in Included(k, root[k])',
         seen'[k][f] = Absent
  PROVE  /\ Outdated(f, rows[f])'
         /\ \A q \in RootNumbers : f \in DOMAIN plan'[k][q] => Outdated(f, plan[k][q][f])'
<1>1. CASE Scans(k)
  <2>1. disk[f] = Absent /\ disk' = disk
    BY <1>1 DEF Scans, Scan, Included, source, TypeOK
  <2> QED
    BY <2>1 DEF Outdated
<1>2. CASE stage[k] = "diff" /\ seen'[k] = seen[k] /\ root'[k] = root[k]
  <2>1. rows'[f] = rows[f]
    BY <1>2, RowStep DEF OneTransfer, Active
  <2>i. f \in Included(k, root[k])
    <3>1. ~Restarts(k)
      BY RestartFacts
    <3> QED
      BY <1>2, <3>1, RulesStay DEF Included
  <2>2. /\ Outdated(f, rows[f]) /\ rows[f] \in Versions /\ Past(rows[f], f)
        /\ \A q \in RootNumbers : f \in DOMAIN plan[k][q] =>
             Outdated(f, plan[k][q][f]) /\ plan[k][q][f] \in Versions /\ Past(plan[k][q][f], f)
    BY <1>2, <2>i, DiffsElim DEF DeletesOutdated, Pasts, FilePast, RunPast, TypeOK
  <2>3. ~DiffRoot(k)
    BY <1>2 DEF DiffRoot, Goto, TypeOK
  <2>4. \A q \in RootNumbers : f \in DOMAIN plan'[k][q] =>
          f \in DOMAIN plan[k][q] /\ plan'[k][q][f] = plan[k][q][f]
    BY <2>3, PlanStep
  <2> QED
    BY <2>1, <2>2, <2>4, OutdatedStays DEF Outdated
<1> QED
  BY <1>1, <1>2, ScanStep

\* A planned deletion.
LEMMA DeletionStep ==
  ASSUME TypeOK, Shape, Pasts, ScannedOnly, OneTransfer, DeletesOutdated, [Steps]_vars,
         NEW k \in Runs, NEW f \in Files, NEW r \in RootNumbers,
         f \in DOMAIN plan'[k][r], plan'[k][r][f] = Absent, f \in Included(k, r)'
  PROVE  /\ Pending(k, r)' => Outdated(f, rows[f])'
         /\ \A q \in RootNumbers : q < r /\ f \in DOMAIN plan'[k][q] => Outdated(f, plan[k][q][f])'
<1>0. /\ rows[f] \in Versions /\ Past(rows[f], f)
      /\ \A q \in RootNumbers : f \in DOMAIN plan[k][q] => plan[k][q][f] \in Versions /\ Past(plan[k][q][f], f)
  BY DiffsElim DEF Pasts, FilePast, RunPast, TypeOK
<1>1. CASE DiffRoot(k) /\ r = root[k] /\ f \in Changed(k) /\ plan'[k][r][f] = seen[k][f]
  <2>1. stage[k] = "diff" /\ rows[f] # Absent /\ seen[k][f] = Absent
    BY <1>1 DEF DiffRoot, At, Changed
  <2>2. f \in Included(k, r)
    BY <1>1 DEF DiffRoot, Included
  <2>3. /\ Outdated(f, rows[f])
        /\ \A q \in RootNumbers : f \in DOMAIN plan[k][q] => Outdated(f, plan[k][q][f])
    BY <1>1, <2>1, <2>2 DEF DeletesOutdated
  <2>4. disk' = disk /\ rows' = rows
    BY <1>1 DEF DiffRoot, source
  <2>5. \A q \in RootNumbers : q < r /\ f \in DOMAIN plan'[k][q] =>
          f \in DOMAIN plan[k][q] /\ plan'[k][q][f] = plan[k][q][f]
    <3>1. \A q \in RootNumbers : q < r => q # r
      BY ShapeFacts
    <3> QED
      BY <1>1, <3>1, PlanStep
  <2> QED
    BY <2>3, <2>4, <2>5 DEF Outdated
<1>2. CASE f \in DOMAIN plan[k][r] /\ plan'[k][r][f] = plan[k][r][f]
  <2>1. /\ Pending(k, r) => Outdated(f, rows[f])
        /\ \A q \in RootNumbers : q < r /\ f \in DOMAIN plan[k][q] => Outdated(f, plan[k][q][f])
    BY <1>2, PlannedFacts, EmptyDiffs DEF DeletesOutdated
  <2>2. plan[k][r] # Empty /\ plan'[k][r] # Empty /\ Active(k)
    BY <1>2, EmptyDiffs DEF Shape, RunShape
  <2>3. Pending(k, r)' => Pending(k, r)
    BY <2>2, PendingStep DEF Pending
  <2>4. \A q \in RootNumbers : q < r /\ f \in DOMAIN plan'[k][q] =>
          f \in DOMAIN plan[k][q] /\ plan'[k][q][f] = plan[k][q][f]
    <3> SUFFICES ASSUME NEW q \in RootNumbers, q < r, DiffRoot(k), q = root[k] PROVE FALSE
      BY PlanStep
    <3>1. plan[k][r] = Empty
      BY ShapeFacts DEF DiffRoot, At, Shape, RunShape
    <3> QED
      BY <3>1, <2>2
  <2>5. Pending(k, r)' => Outdated(f, rows[f])'
    <3> SUFFICES ASSUME Pending(k, r)' PROVE Outdated(f, rows[f])'
      OBVIOUS
    <3>1. CASE rows'[f] = rows[f]
      BY <3>1, <1>0, <2>1, <2>3, OutdatedStays DEF Outdated
    <3>2. ASSUME NEW j \in Runs, Record(j), stage[j] = "record", root[j] \in Roots(j),
                 f \in DOMAIN plan[j][root[j]], rows'[f] = plan[j][root[j]][f]
          PROVE  Outdated(f, rows[f])'
      <4>1. j = k
        BY <2>2, <3>2 DEF OneTransfer, Active
      <4>2. root' = root /\ stage' = stage /\ disk' = disk
        BY <3>2 DEF Record, source
      <4>3. r >= root[k]
        BY <3>2, <4>1, <4>2 DEF Pending
      <4>4. r = root[k] \/ root[k] < r
        BY <4>3, ShapeFacts
      <4>5. Outdated(f, rows'[f])
        <5>1. root[k] \in RootNumbers
          BY <3>2, <4>1, ShapeFacts
        <5> QED
          BY <1>2, <2>1, <3>2, <4>1, <4>4, <5>1 DEF Outdated, Absent
      <4> QED
        BY <4>2, <4>5 DEF Outdated
    <3> QED
      BY <3>1, <3>2, RowStep
  <2> QED
    BY <1>0, <2>1, <2>4, <2>5, OutdatedStays DEF Outdated
<1> QED
  BY <1>1, <1>2, PlanStep

LEMMA DeletesStep ==
  ASSUME TypeOK, Shape, Pasts, ScannedOnly, OneTransfer, DeletesOutdated, [Steps]_vars
  PROVE  DeletesOutdated'
BY UnseenStep, DeletionStep DEF DeletesOutdated

-----------------------------------------------------------------------------
(* Transfers.                                                              *)

LEMMA BatchKeepsStep ==
  ASSUME TypeOK, Shape, Pasts, OneTransfer, MissingWasRemoved, DeletesOutdated, BatchKeepsSkipped, [Steps]_vars
  PROVE  BatchKeepsSkipped'
<1> SUFFICES ASSUME NEW h \in Streams, NEW f \in DOMAIN inbox'[h], f \notin dropped'
             PROVE  Outdated(f, rows[f])' \/ inbox'[h][f] = disk'[f]
  BY DEF BatchKeepsSkipped
<1>1. CASE f \in DOMAIN inbox[h] /\ inbox'[h][f] = inbox[h][f]
  <2>1. f \in Files /\ rows'[f] = rows[f] /\ f \notin dropped
    BY <1>1, BatchMeansTransfer, DiffsElim, EmptyDiffs DEF TypeOK
  <2>2. rows[f] \in Versions /\ Past(rows[f], f)
    BY <2>1 DEF TypeOK, Pasts, FilePast
  <2>3. CASE Outdated(f, rows[f])
    BY <2>1, <2>2, <2>3, OutdatedStays DEF Outdated
  <2>4. CASE inbox[h][f] = disk[f]
    <3>1. disk'[f] = disk[f] \/ disk'[f] = Absent \/ disk'[f] > writes
      BY <2>1, DiskStep
    <3>2. rows[f] \in Nat /\ writes \in Nat /\ (rows[f] # 0 => rows[f] <= writes)
      BY <2>2, VersionFacts DEF TypeOK, Past
    <3> QED
      BY <1>1, <2>1, <2>4, <3>1, <3>2 DEF Outdated, Absent
  <2> QED
    BY <1>1, <2>1, <2>3, <2>4 DEF BatchKeepsSkipped
<1>2. ASSUME NEW k \in Runs, SendBatch(k), root[k] \in Roots(k),
             f \in DOMAIN plan[k][root[k]], f \in Files, inbox'[h][f] = Sent(k, f)
      PROVE  Outdated(f, rows[f])' \/ inbox'[h][f] = disk'[f]
  <2>1. disk' = disk /\ rows' = rows /\ dropped' = dropped /\ root[k] \in RootNumbers
    BY <1>2, ShapeFacts DEF SendBatch, source, ghosts
  <2>2. CASE plan[k][root[k]][f] = Absent
    <3>1. Pending(k, root[k])
      BY <1>2, ShapeFacts DEF Pending
    <3>2. f \in Included(k, root[k])
      BY <1>2, <2>1, <2>2 DEF MissingWasRemoved
    <3>3. Outdated(f, rows[f])
      BY <1>2, <2>1, <2>2, <3>1, <3>2 DEF DeletesOutdated
    <3> QED
      BY <2>1, <3>3 DEF Outdated
  <2>3. CASE plan[k][root[k]][f] # Absent
    BY <1>2, <2>1, <2>3 DEF Sent
  <2> QED
    BY <2>2, <2>3
<1> QED
  BY <1>1, <1>2, BatchStep

\* The stream of a run that is sending stays with it, and no other handler works.
LEMMA SentStep ==
  ASSUME TypeOK, Shape, Pasts, OneTransfer, SentArrives, [Steps]_vars
  PROVE  SentArrives'
<1> USE VersionFacts
<1> DEFINE Arrives(k, f) ==
             Serves(IF f \in DOMAIN inbox[stream[k]] THEN inbox[stream[k]][f] ELSE live[f],
                    plan[k][root[k]][f])
<1> SUFFICES ASSUME NEW k \in Runs, stage'[k] \in Transfers, Serving(stream[k])',
                    NEW f \in DOMAIN plan'[k][root'[k]] \ left'[k]
             PROVE  Arrives(k, f)'
  BY DEF SentArrives
<1>1. CASE Move(k)
  <2>1. CASE \E h \in Streams : OpenStream(k, h)
    <3>1. root' = root /\ plan' = plan /\ left'[k] = DOMAIN plan[k][root[k]]
      BY <2>1 DEF OpenStream, TypeOK
    <3> QED
      BY <3>1
  <2>2. CASE SendBatch(k)
    <3>1. /\ root' = root /\ plan' = plan /\ stream' = stream /\ live' = live
          /\ stage[k] = "send" /\ handler[stream[k]] = "recv"
          /\ stream[k] \in Streams /\ root[k] \in RootNumbers
      BY <2>2, ShapeFacts DEF SendBatch, At, HandlerAt, server, Transfers
    <3>2. PICK batch \in SUBSET left[k] :
            /\ \A g \in batch : plan[k][root[k]][g] # Absent => disk[g] # Absent
            /\ inbox' = [inbox EXCEPT ![stream[k]] = [g \in batch |-> Sent(k, g)]]
            /\ left' = [left EXCEPT ![k] = left[k] \ batch]
      BY <2>2 DEF SendBatch, kSubset, Sent
    <3>3. inbox'[stream[k]] = [g \in batch |-> Sent(k, g)] /\ left'[k] = left[k] \ batch
      BY <3>1, <3>2 DEF TypeOK
    <3>4. /\ f \in DOMAIN plan[k][root[k]] /\ f \in Files
          /\ plan[k][root[k]][f] \in Versions /\ disk[f] \in Versions
          /\ Past(plan[k][root[k]][f], f)
      BY <3>1, DiffsElim DEF TypeOK, Pasts, RunPast
    <3>5. CASE f \in batch
      <4>1. Serves(Sent(k, f), plan[k][root[k]][f])
        BY <3>2, <3>4, <3>5 DEF Serves, Sent, Past
      <4> QED
        BY <3>1, <3>3, <3>5, <4>1
    <3>6. CASE f \notin batch
      <4>1. f \notin left[k]
        BY <3>1, <3>3, <3>6
      <4>2. inbox[stream[k]] = Empty
        BY <3>1 DEF TypeOK
      <4>3. Serves(live[f], plan[k][root[k]][f])
        BY <3>1, <3>4, <4>1, <4>2, EmptyDiffs DEF SentArrives, Serving, Transfers
      <4> QED
        BY <3>1, <3>3, <3>6, <4>3
    <3> QED
      BY <3>5, <3>6
  <2>3. CASE Ack(k) \/ CloseSend(k)
    <3>1. /\ root' = root /\ plan' = plan /\ stream' = stream /\ live' = live
          /\ left' = left /\ inbox' = inbox /\ stage[k] \in Transfers /\ Serving(stream[k])
      BY <2>3 DEF Ack, CloseSend, At, HandlerAt, server, Transfers, Serving
    <3>2. Arrives(k, f)
      BY <3>1 DEF SentArrives
    <3> QED
      BY <3>1, <3>2
  <2>4. CASE \/ Begin(k) \/ Retry(k) \/ Fail(k) \/ Confirm(k)
             \/ Scans(k) \/ DiffRoot(k) \/ SkipRoot(k) \/ RootDone(k) \/ Succeed(k) \/ Record(k)
    <3>1. stage'[k] \notin Transfers
      BY <2>4 DEF Begin, Retry, Fail, GiveUp, Confirm, Scans, Scan, DiffRoot, SkipRoot, RootDone, Succeed, Record,
                  BeginAttempt, At, Goto, TypeOK, Transfers
    <3> QED
      BY <3>1
  <2> QED
    BY <1>1, <2>1, <2>2, <2>3, <2>4 DEF Move
<1>2. CASE ~Move(k)
  <2>1. /\ stage[k] \in Transfers /\ stream[k] \in Streams
        /\ root'[k] = root[k] /\ plan'[k] = plan[k] /\ left'[k] = left[k] /\ stream'[k] = stream[k]
    BY <1>2, RunStays, ShapeFacts
  <2>2. Serving(stream[k])
    <3> SUFFICES ASSUME NEW j \in Runs, OpenStream(j, stream[k]) PROVE FALSE
      BY <2>1, ServingStep DEF Serving
    <3> QED
      BY <2>1, StreamsAssumption DEF OpenStream, HandlerAt, Shape, StreamShape
  <2>3. Arrives(k, f)
    BY <2>1, <2>2 DEF SentArrives
  <2>4. ASSUME NEW j \in Runs, SendBatch(j) PROVE FALSE
    <3>1. j = k
      BY <2>1, <2>4 DEF SendBatch, At, OneTransfer, Active, Transfers
    <3> QED
      BY <1>2, <2>4, <3>1 DEF Move
  <2>5. CASE inbox'[stream[k]] = inbox[stream[k]] /\ live' = live
    BY <2>1, <2>3, <2>5
  <2>6. ASSUME NEW h \in Streams, Apply(h) PROVE Arrives(k, f)'
    <3>1. h = stream[k]
      BY <2>1, <2>2, <2>6 DEF OneTransfer, Apply, HandlerAt, Serving
    <3>2. PICK g \in DOMAIN inbox[h] :
            /\ live' = [live EXCEPT ![g] = inbox[h][g]]
            /\ inbox' = [inbox EXCEPT ![h] = [e \in DOMAIN inbox[h] \ {g} |-> inbox[h][e]]]
      BY <2>6 DEF Apply
    <3>3. inbox'[h] = [e \in DOMAIN inbox[h] \ {g} |-> inbox[h][e]] /\ g \in Files
      BY <3>2, DiffsElim DEF TypeOK
    <3>4. live'[g] = inbox[h][g] /\ (f # g => live'[f] = live[f])
      BY <3>2, <3>3 DEF TypeOK
    <3> QED
      BY <2>1, <2>3, <3>1, <3>3, <3>4
  <2>7. ASSUME NEW h \in Streams, HandlerFails(h) PROVE inbox'[stream[k]] = inbox[stream[k]] /\ live' = live
    <3>1. h # stream[k]
      BY <2>1, <2>7 DEF HandlerFails, HandlerGoto, Serving, TypeOK
    <3> QED
      BY <2>1, <2>7, <3>1 DEF HandlerFails, server, TypeOK
  <2> QED
    BY <2>4, <2>5, <2>6, <2>7
    DEF Steps, vars, server, serving, Move, Write, Remove, Change, Begin, Scans, Scan, DiffRoot, SkipRoot, OpenStream,
        Ack, CloseSend, Confirm, Record, RootDone, Succeed, Retry, Fail, GiveUp, TakeSnapshot
<1> QED
  BY <1>1, <1>2

LEMMA RecordedStep ==
  ASSUME TypeOK, Shape, OneTransfer, SentArrives, RecordedIsHeld, [Steps]_vars
  PROVE  RecordedIsHeld'
<1> SUFFICES ASSUME NEW k \in Runs, stage'[k] = "record", NEW f \in DOMAIN plan'[k][root'[k]]
             PROVE  (Serves(live[f], plan[k][root[k]][f]) /\ Serves(newest[f], plan[k][root[k]][f]))'
  BY DEF RecordedIsHeld
<1>1. CASE Confirm(k)
  <2>1. /\ root' = root /\ plan' = plan /\ live' = live /\ newest' = newest
        /\ stage[k] = "close" /\ handler[stream[k]] = "taken"
    BY <1>1 DEF Confirm, At, HandlerAt, server
  <2>2. stream[k] \in Streams /\ left[k] = {}
    BY <2>1, ShapeFacts DEF Transfers, Shape, RunShape
  <2>3. inbox[stream[k]] = Empty /\ newest = live
    BY <2>1, <2>2 DEF TypeOK, OneTransfer
  <2>4. Serves(live[f], plan[k][root[k]][f])
    BY <2>1, <2>2, <2>3, EmptyDiffs DEF SentArrives, Serving, Transfers
  <2> QED
    BY <2>1, <2>3, <2>4
<1>2. CASE stage[k] = "record"
  <2>1. \A h \in Streams : ~Serving(h)
    BY <1>2 DEF OneTransfer
  <2>2. live' = live /\ newest' = newest
    <3>1. ASSUME NEW h \in Streams, Apply(h) \/ TakeSnapshot(h) PROVE FALSE
      BY <2>1, <3>1 DEF Apply, TakeSnapshot, HandlerAt, Serving
    <3> QED
      BY <3>1
      DEF Steps, vars, server, Move, Write, Remove, Change, Begin, Scans, Scan, DiffRoot, SkipRoot, OpenStream,
          SendBatch, Ack, CloseSend, Confirm, Record, RootDone, Succeed, Retry, Fail, GiveUp, HandlerFails
  <2>3. root'[k] = root[k] /\ plan'[k] = plan[k]
    <3>1. CASE ~Move(k)
      BY <3>1, RunStays
    <3>2. CASE Record(k)
      BY <3>2 DEF Record
    <3>3. CASE Move(k) /\ ~Record(k)
      BY <1>2, <3>3 DEF Move, Begin, Scans, Scan, DiffRoot, SkipRoot, OpenStream, SendBatch, Ack, CloseSend,
                        Confirm, RootDone, Succeed, Retry, Fail, GiveUp, BeginAttempt, At, Goto, TypeOK
    <3> QED
      BY <3>1, <3>2, <3>3
  <2> QED
    BY <1>2, <2>2, <2>3 DEF RecordedIsHeld
<1> QED
  BY <1>1, <1>2, RecordStep

LEMMA SkippableStep ==
  ASSUME TypeOK, Shape, Pasts, BatchKeepsSkipped, RecordedIsHeld, Skippable, [Steps]_vars
  PROVE  Skippable'
<1> USE VersionFacts
<1> SUFFICES ASSUME NEW f \in Files, f \notin dropped', disk'[f] # Absent, rows'[f] = disk'[f]
             PROVE  newest'[f] = disk'[f] /\ live'[f] = disk'[f]
  BY DEF Skippable
<1>0. /\ disk[f] \in Nat /\ rows[f] \in Nat /\ live[f] \in Nat /\ newest[f] \in Nat /\ writes \in Nat
      /\ Past(rows[f], f) /\ Past(live[f], f) /\ Past(newest[f], f)
  BY DEF TypeOK, Pasts, FilePast
<1>1. disk'[f] = disk[f] \/ disk'[f] > writes
  BY DiskStep
<1>2. CASE rows'[f] = rows[f] /\ f \notin dropped
  <2>1. disk'[f] = disk[f]
    BY <1>0, <1>1, <1>2 DEF Past
  <2>2. newest[f] = disk[f] /\ live[f] = disk[f]
    BY <1>2, <2>1 DEF Skippable
  <2>3. live'[f] = disk[f]
    BY <1>2, <2>1, <2>2, LiveStep DEF BatchKeepsSkipped, Outdated
  <2>4. newest'[f] = disk[f]
    BY <2>2, NewestStep
  <2> QED
    BY <2>1, <2>3, <2>4
<1>3. ASSUME NEW k \in Runs, Record(k), stage[k] = "record", root[k] \in Roots(k),
             f \in DOMAIN plan[k][root[k]], rows'[f] = plan[k][root[k]][f]
      PROVE  newest'[f] = disk'[f] /\ live'[f] = disk'[f]
  <2>1. disk' = disk /\ live' = live /\ newest' = newest
    BY <1>3 DEF Record, source, server
  <2>2. live[f] >= disk[f] /\ newest[f] >= disk[f]
    BY <1>3, <2>1 DEF RecordedIsHeld, Serves
  <2> QED
    BY <1>0, <2>1, <2>2 DEF Past
<1> QED
  BY <1>2, <1>3, RowStep

-----------------------------------------------------------------------------
(* Files that do not change during an attempt.                             *)

\* A path that a run has seen unchanged has not changed in this step.
LEMMA SteadyMeansStill ==
  ASSUME TypeOK, Pasts, [Steps]_vars, NEW k \in Runs, NEW f \in Files, f \in steady'[k]
  PROVE  /\ disk'[f] = disk[f]
         /\ f \in steady[k] \/ Begin(k) \/ Retry(k)
<1>1. disk'[f] = disk[f]
  BY DiskStep
<1>2. f \in steady[k] \/ Begin(k) \/ Retry(k)
  BY SteadyStep DEF TypeOK
<1> QED
  BY <1>1, <1>2

\* The row of a path that a run has seen unchanged is written by that run alone, and not
\* after it is done.
LEMMA SteadyRow ==
  ASSUME TypeOK, Shape, OneTransfer, NoLaterDiffs, [Steps]_vars,
         NEW k \in Runs, NEW r \in Roots(k), NEW f \in Files, f \in Included(k, r), f \in steady[k],
         Active(k) \/ stage[k] = "done", ~Move(k)
  PROVE  rows'[f] = rows[f]
<1> SUFFICES ASSUME NEW j \in Runs, Record(j), stage[j] = "record", root[j] \in Roots(j),
                    f \in DOMAIN plan[j][root[j]]
             PROVE  FALSE
  BY RowStep
<1>1. Active(j) /\ Move(j)
  BY DEF Active, Move
<1>2. CASE Active(k)
  BY <1>1, <1>2 DEF OneTransfer
<1>3. CASE stage[k] = "done"
  BY <1>1, <1>3, ShapeFacts DEF NoLaterDiffs, Scanned
<1> QED
  BY <1>2, <1>3

\* What the steps of the run do, the path and its row at rest.
LEMMA SteadyRunStep ==
  ASSUME TypeOK, Shape, [Steps]_vars, NEW k \in Runs, NEW r \in Roots(k), NEW f \in Files,
         f \in Included(k, r), SteadyAt(k, r, f), Move(k), ~Record(k), ~Restarts(k),
         disk'[f] = disk[f]
  PROVE  SteadyAt(k, r, f)'
<1> USE ShapeFacts DEF SteadyAt
<1>t. /\ k \in DOMAIN stage /\ k \in DOMAIN root /\ k \in DOMAIN plan /\ k \in DOMAIN left /\ k \in DOMAIN seen
      /\ r \in Nat /\ root[k] \in Nat /\ r \in RootNumbers /\ r <= NRoots(k) /\ NRoots(k) \in Nat
  BY DEF TypeOK
<1>2. rows' = rows
  BY DEF Move, Restarts, Scans, Scan, DiffRoot, SkipRoot, OpenStream, SendBatch, Ack, CloseSend, Confirm,
         RootDone, Succeed
<1>3. CASE Scans(k)
  <2>1. /\ stage[k] = "scan" /\ stage'[k] = "diff" /\ root' = root /\ plan' = plan
        /\ f \in Included(k, root[k]) => seen'[k][f] = disk[f]
    BY <1>3, <1>t DEF Scans, Scan, Included, At, Goto
  <2> QED
    BY <1>2, <2>1 DEF PlannedIsDisk, RowIsDisk, Transfers
<1>4. CASE DiffRoot(k)
  <2>1. /\ stage[k] = "diff" /\ root[k] \in Roots(k)
        /\ plan' = [plan EXCEPT ![k][root[k]] = [g \in Changed(k) |-> seen[k][g]]]
        /\ \/ stage'[k] = "scan" /\ root'[k] = root[k] + 1
           \/ root[k] = NRoots(k) /\ stage'[k] = "push" /\ root'[k] = 1
    BY <1>4, <1>t DEF DiffRoot, At, Goto
  <2>2. plan'[k][root[k]] = [g \in Changed(k) |-> seen[k][g]] /\ (r # root[k] => plan'[k][r] = plan[k][r])
    BY <2>1 DEF TypeOK
  <2>3. r <= root[k] => PlannedIsDisk(k, r, f)'
    <3>1. CASE r = root[k]
      <4>1. f \in rules[k][r].under /\ seen[k][f] = disk[f]
        BY <2>1, <3>1, RootFacts
      <4>2. f \notin Changed(k) => rows[f] = disk[f]
        BY <3>1, <4>1 DEF Changed
      <4> QED
        BY <1>2, <2>2, <3>1, <4>1, <4>2 DEF PlannedIsDisk, RowIsDisk
    <3>2. CASE r < root[k]
      BY <1>2, <1>t, <2>1, <2>2, <3>2 DEF PlannedIsDisk, RowIsDisk
    <3> QED
      BY <1>t, <3>1, <3>2
  <2> QED
    BY <1>t, <2>1, <2>3 DEF Transfers
<1>5. CASE SkipRoot(k) \/ RootDone(k)
  <2>1. /\ root'[k] = root[k] + 1 /\ stage'[k] = "push" /\ plan' = plan /\ root[k] \in Roots(k)
        /\ \/ stage[k] = "push" /\ plan[k][root[k]] = Empty
           \/ stage[k] = "record" /\ left[k] = {}
    BY <1>5, <1>t DEF SkipRoot, RootDone, At, Goto
  <2>2. r <= root[k] => RowIsDisk(f)
    BY <1>t, <2>1, EmptyDiffs DEF PlannedIsDisk
  <2> QED
    BY <1>2, <1>t, <2>1, <2>2 DEF PlannedIsDisk, RowIsDisk, Transfers
<1>6. CASE \/ \E h \in Streams : OpenStream(k, h)
           \/ SendBatch(k) \/ Ack(k) \/ CloseSend(k)
  <2>1. /\ root' = root /\ plan' = plan
        /\ stage[k] \in {"push"} \cup Transfers /\ stage'[k] \in Transfers
    BY <1>6, <1>t DEF OpenStream, SendBatch, Ack, CloseSend, At, Goto, Transfers
  <2> QED
    BY <1>2, <2>1 DEF PlannedIsDisk, RowIsDisk, Transfers
<1>7. CASE Confirm(k)
  <2>1. /\ root' = root /\ plan' = plan /\ stage[k] = "close" /\ stage'[k] = "record"
        /\ left'[k] = DOMAIN plan[k][root[k]]
    BY <1>7, <1>t DEF Confirm, At, Goto
  <2> QED
    BY <1>2, <2>1 DEF PlannedIsDisk, RowIsDisk, Transfers
<1>8. CASE Succeed(k)
  <2>1. stage[k] = "push" /\ stage'[k] = "done" /\ r < root[k]
    BY <1>8, <1>t DEF Succeed, At, Goto
  <2> QED
    BY <1>2, <2>1 DEF RowIsDisk, Transfers
<1> QED
  BY <1>3, <1>4, <1>5, <1>6, <1>7, <1>8 DEF Move, Restarts

\* The run writes a row.
LEMMA SteadyRecord ==
  ASSUME TypeOK, Shape, ScannedOnly, Covered, [Steps]_vars, NEW k \in Runs, NEW r \in Roots(k), NEW f \in Files,
         f \in Included(k, r), Record(k), \A q \in Roots(k) : f \in Included(k, q) => SteadyAt(k, q, f)
  PROVE  SteadyAt(k, r, f)'
<1>1. PICK g \in left[k] : /\ rows' = [rows EXCEPT ![g] = plan[k][root[k]][g]]
                           /\ left' = [left EXCEPT ![k] = left[k] \ {g}]
  BY DEF Record, WriteRow
<1>2. /\ stage' = stage /\ root' = root /\ plan' = plan /\ disk' = disk
      /\ stage[k] = "record" /\ root[k] \in Roots(k) /\ left[k] \subseteq DOMAIN plan[k][root[k]]
  BY ShapeFacts DEF Record, At, source, Shape, RunShape
<1>3. CASE f = g
  <2>1. f \in Included(k, root[k])
    <3>1. f \in rules[k][root[k]].under
      BY <1>1, <1>2, <1>3, ShapeFacts DEF Shape, RunShape
    <3> QED
      BY <1>2, <3>1, NoHole DEF Scanned
  <2>2. plan[k][root[k]][f] = disk[f]
    BY <1>1, <1>2, <1>3, <2>1 DEF SteadyAt, PlannedIsDisk
  <2>3. rows'[f] = disk'[f]
    BY <1>1, <1>2, <1>3, <2>2 DEF TypeOK
  <2> QED
    BY <1>2, <2>3 DEF SteadyAt, PlannedIsDisk, RowIsDisk
<1>4. CASE f # g
  <2>1. rows'[f] = rows[f] /\ left'[k] = left[k] \ {g}
    BY <1>1, <1>4 DEF TypeOK
  <2> QED
    BY <1>2, <1>4, <2>1 DEF SteadyAt, PlannedIsDisk, RowIsDisk
<1> QED
  BY <1>3, <1>4

LEMMA SteadyFollowedStep ==
  ASSUME TypeOK, Shape, Pasts, ScannedOnly, OneTransfer, Covered, SteadyFollowed, NoLaterDiffs, [Steps]_vars
  PROVE  SteadyFollowed'
<1> SUFFICES ASSUME NEW k \in Runs, NEW r \in Roots(k)', NEW f \in steady'[k] \cap Included(k, r)'
             PROVE  SteadyAt(k, r, f)'
  BY DEF SteadyFollowed
<1>1. f \in Files
  BY TypeStep DEF TypeOK
<1>2. disk'[f] = disk[f] /\ (f \in steady[k] \/ Begin(k) \/ Retry(k))
  BY <1>1, SteadyMeansStill
<1>3. CASE Restarts(k)
  <2>1. stage'[k] \in {"scan", "failed"} /\ root'[k] = 1
    BY <1>3, RestartFacts
  <2>2. stage'[k] = "scan" => r \in RootNumbers
    BY <1>3, RestartFacts
  <2>3. stage'[k] = "scan" => ~(r < 1)
    <3>1. r \in RootNumbers => r \in Nat \ {0}
      BY NumbersFacts
    <3> QED
      BY <2>2, <3>1
  <2> QED
    BY <2>1, <2>3 DEF SteadyAt, Transfers
<1>r. ~Restarts(k) => r \in Roots(k) /\ r \in RootNumbers /\ f \in Included(k, r)
  BY RulesStay, ShapeFacts
<1>4. CASE ~Restarts(k) /\ f \in steady[k] /\ ~Move(k)
  <2>1. SteadyAt(k, r, f)
    BY <1>4, <1>r DEF SteadyFollowed
  <2>2. Active(k) \/ stage[k] = "done" => rows'[f] = rows[f]
    BY <1>1, <1>4, <1>r, SteadyRow
  <2>3. stage'[k] = stage[k] /\ root'[k] = root[k] /\ seen'[k] = seen[k] /\ plan'[k] = plan[k] /\ left'[k] = left[k]
    BY <1>4, RunStays
  <2> QED
    BY <1>2, <2>1, <2>2, <2>3 DEF SteadyAt, PlannedIsDisk, RowIsDisk, Active, Transfers
<1>5. CASE ~Restarts(k) /\ f \in steady[k] /\ Move(k)
  <2>1. \A q \in Roots(k) : f \in Included(k, q) => SteadyAt(k, q, f)
    BY <1>5 DEF SteadyFollowed
  <2> QED
    BY <1>1, <1>2, <1>5, <1>r, <2>1, SteadyRunStep, SteadyRecord
<1> QED
  BY <1>2, <1>3, <1>4, <1>5 DEF Restarts

\* A finished run stays so, and a run that finishes was alone.
LEMMA DoneStep ==
  ASSUME TypeOK, [Steps]_vars, NEW k \in Runs, stage'[k] = "done"
  PROVE  (stage[k] = "done" /\ ~Move(k)) \/ Succeed(k)
<1>1. CASE ~Move(k)
  BY <1>1, RunStays
<1>2. CASE Move(k) /\ ~Succeed(k)
  <2>1. CASE SkipRoot(k) \/ Record(k)
    BY <2>1 DEF SkipRoot, Record, At
  <2> QED
    BY <1>2, <2>1 DEF Move, Begin, Scans, Scan, DiffRoot, OpenStream, SendBatch, Ack, CloseSend,
                      Confirm, RootDone, Retry, Fail, GiveUp, BeginAttempt, Goto, TypeOK
<1> QED
  BY <1>1, <1>2

LEMMA NoLaterDiffsStep ==
  ASSUME TypeOK, TypeOK', Shape, Pasts, ScannedOnly, SteadyKept, OneTransfer, Covered,
         SteadyFollowed, NoLaterDiffs, [Steps]_vars, ~overlapped'
  PROVE  NoLaterDiffs'
<1> SUFFICES ASSUME NEW k \in Runs, NEW j \in Runs, stage'[k] = "done", Active(j)'
             PROVE  /\ steady'[k] \subseteq steady'[j]
                    /\ \A f \in steady'[k] : Scanned(k, f)' => \A r \in RootNumbers : f \notin DOMAIN plan'[j][r]
  BY DEF NoLaterDiffs
<1>0. j # k
  BY DEF Active
<1>1. CASE Succeed(k)
  <2>1. Active(k) /\ stage[j] = stage'[j]
    BY <1>0, <1>1 DEF Succeed, Active, At, Goto, TypeOK
  <2> QED
    BY <1>0, <2>1 DEF OneTransfer, Active
<1>2. CASE stage[k] = "done" /\ (Begin(j) \/ Retry(j))
  <2>1. plan'[j] = NoDiffs
    BY <1>2, RestartFacts DEF Restarts
  <2>2. steady' = [steady EXCEPT ![j] = Untouched]
    BY <1>2 DEF Begin, Retry, BeginAttempt, Untouched
  <2>3. steady[k] \subseteq Untouched
    BY DEF SteadyKept, Untouched, TypeOK
  <2> QED
    BY <1>0, <2>1, <2>2, <2>3, EmptyDiffs DEF NoDiffs, TypeOK
<1>3. CASE stage[k] = "done" /\ ~Move(k) /\ ~Begin(j) /\ ~Retry(j)
  <2>1. Active(j)
    BY <1>3, ActiveStep
  <2>2. steady'[k] \subseteq steady[k]
    BY <1>3, SteadyStep DEF Move, TypeOK
  <2>3. steady'[k] \subseteq steady'[j]
    <3>1. steady[k] \subseteq steady[j]
      BY <1>3, <2>1 DEF NoLaterDiffs
    <3>2. ASSUME NEW S \in SUBSET Files, steady' = [i \in Runs |-> steady[i] \ S]
          PROVE  steady'[k] \subseteq steady'[j]
      BY <3>1, <3>2
    <3>3. ASSUME NEW i \in Runs, Begin(i) \/ Retry(i) PROVE i = j
      BY <2>1, <3>3, BeginAlone DEF Retry, At, Active, OneTransfer
    <3> QED
      BY <1>3, <3>2, <3>3, SteadyStep
  <2>4. ASSUME NEW f \in steady'[k], Scanned(k, f), NEW r \in RootNumbers, f \in DOMAIN plan'[j][r] PROVE FALSE
    <3>1. f \in steady[k] /\ f \in steady[j] /\ f \in Files /\ f \notin DOMAIN plan[j][r]
      BY <1>3, <2>1, <2>2, <2>4 DEF NoLaterDiffs, TypeOK
    <3>2. DiffRoot(j) /\ r = root[j] /\ f \in Changed(j)
      BY <2>4, <3>1, PlanStep
    <3>3. stage[j] = "diff" /\ r \in Roots(j) /\ f \in rules[j][r].under /\ rows[f] # seen[j][f]
      BY <3>2, ShapeFacts DEF DiffRoot, At, Changed
    <3>4. rows[f] = disk[f]
      BY <1>3, <2>4, <3>1 DEF SteadyFollowed, SteadyAt, RowIsDisk, Scanned
    <3>5. CASE f \in Included(j, r)
      BY <3>1, <3>2, <3>3, <3>4, <3>5 DEF SteadyFollowed, SteadyAt
    <3>6. CASE f \notin Included(j, r)
      <4>1. seen[j][f] = Absent
        BY <3>1, <3>2, <3>3, <3>6 DEF ScannedOnly, RunScanned
      <4>2. f \in LeftOut(j)
        BY <3>2, <3>3, <3>6, <4>1, NoHole DEF LeftOut, Scanned
      <4>3. f \notin steady'[k]
        BY <3>2, <4>2 DEF DiffRoot
      <4> QED
        BY <2>4, <4>3
    <3> QED
      BY <3>5, <3>6
  <2>5. \A f : Scanned(k, f)' => Scanned(k, f)
    BY <1>3, RunStays DEF Scanned, Included
  <2> QED
    BY <2>3, <2>4, <2>5
<1> QED
  BY <1>1, <1>2, <1>3, DoneStep

-----------------------------------------------------------------------------
(* As long as no attempt has failed.                                       *)

LEMMA FaultyStep ==
  ASSUME TypeOK, [Steps]_vars, ~faulty'
  PROVE  ~faulty /\ \A k \in Runs : ~Retry(k) /\ ~Fail(k)
<1>1. \A k \in Runs : ~Retry(k) /\ ~Fail(k)
  BY DEF Retry, Fail, GiveUp
<1>2. ASSUME NEW k \in Runs, Move(k) PROVE faulty' = faulty
  BY <1>1, <1>2
  DEF ghosts, Move, Begin, Scans, Scan, DiffRoot, SkipRoot, OpenStream, SendBatch, Ack, CloseSend, Confirm,
      Record, RootDone, Succeed
<1>3. CASE UNCHANGED faulty
  BY <1>1, <1>3
<1> QED
  BY <1>1, <1>2, <1>3
  DEF Steps, vars, ghosts, Write, Remove, Change, Apply, TakeSnapshot, HandlerFails

\* Nobody leaves a handler that works.
LEMMA OwnerStep ==
  ASSUME TypeOK, Shape, NoRemains, [Steps]_vars, ~faulty', NEW h \in Streams, Serving(h)'
  PROVE  \E k \in Runs : stream'[k] = h
<1>1. CASE Serving(h)
  <2>1. PICK k \in Runs : stream[k] = h
    BY <1>1, FaultyStep DEF NoRemains
  <2>2. CASE ~Move(k)
    BY <2>1, <2>2, RunStays
  <2>3. ~Begin(k) /\ ~Retry(k) /\ ~Fail(k)
    BY <2>1, FaultyStep, StreamsAssumption DEF Begin, At, TypeOK
  <2>4. ~Confirm(k)
    <3> SUFFICES ASSUME Confirm(k) PROVE FALSE
      OBVIOUS
    <3>1. handler'[h] = "ended"
      BY <2>1 DEF Confirm, HandlerGoto, TypeOK
    <3> QED
      BY <3>1 DEF Serving
  <2>5. ASSUME NEW g \in Streams, OpenStream(k, g) PROVE FALSE
    BY <2>1, <2>5, StreamsAssumption DEF OpenStream, At, TypeOK
  <2>6. CASE \/ Scans(k) \/ DiffRoot(k) \/ SkipRoot(k) \/ SendBatch(k) \/ Ack(k) \/ CloseSend(k)
             \/ Record(k) \/ RootDone(k) \/ Succeed(k)
    BY <2>1, <2>6 DEF Scans, Scan, DiffRoot, SkipRoot, SendBatch, Ack, CloseSend, Record, RootDone, Succeed
  <2> QED
    BY <2>2, <2>3, <2>4, <2>5, <2>6 DEF Move
<1>2. CASE ~Serving(h)
  <2>1. PICK k \in Runs : OpenStream(k, h)
    BY <1>2, ServingStep
  <2> QED
    BY <2>1 DEF OpenStream, TypeOK
<1> QED
  BY <1>1, <1>2

\* What was on its way still is, or its row is written.
LEMMA InFlightStep ==
  ASSUME TypeOK, Shape, [Steps]_vars, ~faulty', NEW f \in Files, InFlight(f), ~InFlight(f)'
  PROVE  \E k \in Runs : /\ Record(k) /\ stage[k] = "record" /\ f \in DOMAIN plan[k][root[k]]
                         /\ rows'[f] = plan[k][root[k]][f]
<1>1. PICK k \in Runs : /\ stage[k] \in {"record"} \cup Transfers
                        /\ f \in DOMAIN plan[k][root[k]]
                        /\ stage[k] = "record" => f \in left[k]
  BY DEF InFlight
<1>2. CASE ~Move(k)
  <2>1. stage'[k] = stage[k] /\ root'[k] = root[k] /\ plan'[k] = plan[k] /\ left'[k] = left[k]
    BY <1>2, RunStays
  <2> QED
    BY <1>1, <2>1 DEF InFlight
<1>3. CASE Record(k)
  <2>1. PICK g \in left[k] : /\ rows' = [rows EXCEPT ![g] = plan[k][root[k]][g]]
                             /\ left' = [left EXCEPT ![k] = left[k] \ {g}]
    BY <1>3 DEF Record, WriteRow
  <2>2. stage' = stage /\ root' = root /\ plan' = plan /\ stage[k] = "record" /\ left'[k] = left[k] \ {g}
    BY <1>3, <2>1 DEF Record, At, TypeOK
  <2>3. f = g
    BY <1>1, <2>2 DEF InFlight
  <2> QED
    BY <1>1, <1>3, <2>1, <2>2, <2>3 DEF TypeOK
<1>4. CASE SendBatch(k) \/ Ack(k) \/ CloseSend(k)
  <2>1. root' = root /\ plan' = plan /\ stage'[k] \in Transfers
    BY <1>4 DEF SendBatch, Ack, CloseSend, Goto, Transfers, TypeOK
  <2> QED
    BY <1>1, <2>1 DEF InFlight, Transfers
<1>5. CASE Confirm(k)
  <2>1. root' = root /\ plan' = plan /\ stage'[k] = "record" /\ left'[k] = DOMAIN plan[k][root[k]]
    BY <1>5 DEF Confirm, Goto, TypeOK
  <2> QED
    BY <1>1, <2>1 DEF InFlight
<1>6. CASE RootDone(k)
  BY <1>1, <1>6 DEF RootDone, At
<1> QED
  BY <1>1, <1>2, <1>3, <1>4, <1>5, <1>6, FaultyStep
  DEF Move, Begin, Scans, Scan, DiffRoot, SkipRoot, OpenStream, Succeed, At, Transfers

LEMMA NoRemainsStep ==
  ASSUME TypeOK, Shape, RecordedIsHeld, NoRemains, [Steps]_vars
  PROVE  NoRemains'
<1> SUFFICES ASSUME ~faulty', NEW f \in Files, rows'[f] = Absent, ~InFlight(f)'
             PROVE  live'[f] = Absent /\ newest'[f] = Absent
  BY OwnerStep DEF NoRemains
<1>1. ASSUME NEW k \in Runs, Record(k), stage[k] = "record", f \in DOMAIN plan[k][root[k]],
             rows'[f] = plan[k][root[k]][f]
      PROVE  live'[f] = Absent /\ newest'[f] = Absent
  <2>1. live[f] = Absent /\ newest[f] = Absent
    BY <1>1 DEF RecordedIsHeld, Serves
  <2> QED
    BY <1>1, <2>1 DEF Record, server
<1>2. CASE InFlight(f)
  BY <1>1, <1>2, InFlightStep
<1>3. CASE rows[f] = Absent /\ ~InFlight(f)
  <2>1. live[f] = Absent /\ newest[f] = Absent
    BY <1>3, FaultyStep DEF NoRemains
  <2>2. live'[f] = Absent
    <3> SUFFICES ASSUME NEW h \in Streams, Serving(h), f \in DOMAIN inbox[h] PROVE FALSE
      BY <2>1, LiveStep
    <3>1. PICK k \in Runs : stream[k] = h
      BY FaultyStep DEF NoRemains
    <3>2. stage[k] \in Transfers /\ f \in DOMAIN plan[k][root[k]]
      BY <3>1, StreamsAssumption DEF TypeOK, Transfers, Shape, StreamShape
    <3> QED
      BY <1>3, <3>2 DEF InFlight, Transfers
  <2>3. newest'[f] = Absent
    BY <2>1, NewestStep
  <2> QED
    BY <2>2, <2>3
<1>4. CASE rows[f] # Absent
  BY <1>1, <1>4, RowStep
<1> QED
  BY <1>2, <1>3, <1>4

-----------------------------------------------------------------------------
(* The invariant.                                                          *)

\* Nothing has happened yet.
LEMMA InitFacts ==
  ASSUME Init
  PROVE  /\ \A k \in Runs : /\ stage[k] = "idle" /\ root[k] = 1 /\ left[k] = {} /\ stream[k] = NoStream
                            /\ steady[k] = {}
                            /\ \A r \in RootNumbers : plan[k][r] = Empty
                            /\ \A f \in Files : seen[k][f] = Absent
         /\ \A h \in Streams : handler[h] = "free" /\ inbox[h] = Empty
         /\ \A f \in Files : disk[f] = Absent /\ rows[f] = Absent /\ live[f] = Absent /\ newest[f] = Absent
BY DEF Init, NoDiffs, Unseen

LEMMA InitBase ==
  ASSUME Init
  PROVE  Base
<1> USE RootFacts, EmptyDiffs, VersionFacts, StreamsAssumption
<1>1. TypeOK
  BY InitType
<1>2. Shape
  BY <1>1, InitFacts DEF Shape, RunShape, StreamShape, Active, Transfers, TypeOK
<1>3. Pasts /\ ScannedOnly /\ SteadyKept
  BY <1>1, InitFacts
  DEF Pasts, FilePast, RunPast, BatchPast, Past, ScannedOnly, RunScanned, SteadyKept, TypeOK
<1> QED
  BY <1>1, <1>2, <1>3 DEF Base

LEMMA InitInv == Init => IInv
<1> SUFFICES ASSUME Init PROVE IInv
  OBVIOUS
<1> USE EmptyDiffs, VersionFacts, StreamsAssumption
<1>1. OneTransfer /\ MissingWasRemoved /\ DeletesOutdated /\ BatchKeepsSkipped
  BY InitFacts DEF OneTransfer, Active, Serving, MissingWasRemoved, DeletesOutdated, BatchKeepsSkipped
<1>2. SentArrives /\ RecordedIsHeld /\ Skippable
  BY InitFacts DEF SentArrives, RecordedIsHeld, Skippable, Transfers
<1>3. SteadyFollowed /\ NoLaterDiffs /\ NoRemains
  BY InitFacts DEF SteadyFollowed, NoLaterDiffs, NoRemains, Serving
<1> QED
  BY <1>1, <1>2, <1>3, InitBase DEF IInv, FollowsInv, CoveredInv

LEMMA BaseStep ==
  ASSUME Base, [Steps]_vars
  PROVE  Base'
<1>1. TypeOK'
  BY TypeStep DEF Base
<1>2. Shape'
  BY RunShapeStep, StreamShapeStep DEF Base, Shape
<1>3. Pasts'
  BY FilePastStep, RunPastStep, BatchPastStep DEF Base, Pasts
<1>4. ScannedOnly' /\ SteadyKept'
  BY ScannedOnlyStep, SteadyKeptStep DEF Base
<1> QED
  BY <1>1, <1>2, <1>3, <1>4 DEF Base

LEMMA FollowsStep ==
  ASSUME Base, FollowsInv, [Steps]_vars, ~overlapped'
  PROVE  FollowsInv'
BY OneTransferStep, SentStep, RecordedStep DEF Base, FollowsInv

LEMMA CoveredStep ==
  ASSUME Base, Base', FollowsInv, Covered, CoveredInv, [Steps]_vars, ~overlapped'
  PROVE  CoveredInv'
<1> USE DEF Base, FollowsInv, CoveredInv
<1>1. MissingWasRemoved' /\ DeletesOutdated' /\ BatchKeepsSkipped'
  BY MissingStep, DeletesStep, BatchKeepsStep
<1>2. Skippable'
  BY SkippableStep
<1>3. SteadyFollowed' /\ NoLaterDiffs'
  BY SteadyFollowedStep, NoLaterDiffsStep
<1>4. NoRemains'
  BY NoRemainsStep
<1> QED
  BY <1>1, <1>2, <1>3, <1>4

LEMMA InvStep ==
  ASSUME IInv, [Next]_vars
  PROVE  IInv'
<1>1. [Steps]_vars
  BY NextIsStep
<1>2. Base'
  BY <1>1, BaseStep DEF IInv
<1>3. ~overlapped' => FollowsInv' /\ (Covered => CoveredInv')
  BY <1>1, <1>2, OverlapStays, FollowsStep, CoveredStep DEF IInv, Orderly
<1>4. Covered' <=> Covered
  BY DEF Covered
<1> QED
  BY <1>2, <1>3, <1>4 DEF IInv, Orderly

\* Runs, streams, handlers, diffs and batches have the values the code gives them, whatever
\* the rules are and however many transfers run at once: a run holds a stream from its
\* opening to the confirmation alone, and a handler has a batch only while it applies one.
THEOREM TypeCorrect == Spec => []TypeOK
<1>1. Init => Base
  BY InitBase
<1>2. Base /\ [Next]_vars => Base'
  BY BaseStep, NextIsStep
<1>3. Base => TypeOK
  BY DEF Base
<1> QED
  BY <1>1, <1>2, <1>3, PTL DEF Spec

\* The chain from the scan to the row: the invariant of all that syncToServer, PushBackup
\* and updateSnapshots do.
THEOREM Inductive == Spec => []IInv
BY InitInv, InvStep, PTL DEF Spec

\* The rules to choose from are the same for ever.
LEMMA CoveredStays == Spec /\ Covered => []Covered
<1>1. Covered /\ [Next]_vars => Covered'
  BY DEF Covered
<1> QED
  BY <1>1, PTL DEF Spec

\* What the next scan skips is in the newest snapshot and in the dataset, in histories
\* without overlapping transfers and for rules without a hole: computeDiff may leave out a
\* file whose row equals its state on disk, after whatever failures, unless changing rules
\* left it out before and it has not been recorded since.
THEOREM SkippedFilesAreSafe == Spec /\ Covered => []SkippedIsRestorable
<1>1. IInv /\ Covered => SkippedIsRestorable
  BY DEF IInv, CoveredInv, Skippable, SkippedIsRestorable
<1> QED
  BY <1>1, CoveredStays, Inductive, PTL

\* The success that syncToServerWithRetry reports means, in histories without overlapping
\* transfers and for rules without a hole, that the files it includes which did not change
\* during its last attempt, and which no later rules leave out, are in the newest snapshot.
THEOREM SuccessIsBackedUp == Spec /\ Covered => []SuccessBacksUp
<1>1. ASSUME IInv, Covered, Orderly, NEW k \in Runs, stage[k] = "done",
             NEW f \in steady[k] \cap UNION {Included(k, r) : r \in Roots(k)}
      PROVE  /\ disk[f] # Absent => newest[f] = disk[f] /\ rows[f] = disk[f]
             /\ ~faulty => newest[f] = disk[f] /\ rows[f] = disk[f]
  <2>1. f \in Files /\ Scanned(k, f)
    BY <1>1 DEF IInv, Base, TypeOK, Scanned
  <2>2. rows[f] = disk[f]
    BY <1>1, <2>1 DEF IInv, CoveredInv, SteadyFollowed, SteadyAt, RowIsDisk, Scanned
  <2>3. disk[f] # Absent => newest[f] = disk[f]
    <3>1. disk[f] # Absent => f \notin dropped
      BY <1>1, <2>2 DEF IInv, Base, SteadyKept
    <3> QED
      BY <1>1, <2>1, <2>2, <3>1 DEF IInv, CoveredInv, Skippable
  <2>4. ~InFlight(f)
    <3> SUFFICES ASSUME NEW j \in Runs, stage[j] \in {"record"} \cup Transfers,
                        f \in DOMAIN plan[j][root[j]]
                 PROVE  FALSE
      BY DEF InFlight
    <3>1. Active(j) /\ root[j] \in RootNumbers
      BY <1>1, ShapeFacts DEF IInv, Base, Active, Transfers
    <3> QED
      BY <1>1, <2>1, <3>1 DEF IInv, CoveredInv, NoLaterDiffs
  <2>5. ~faulty /\ disk[f] = Absent => newest[f] = Absent
    BY <1>1, <2>1, <2>2, <2>4 DEF IInv, CoveredInv, NoRemains
  <2> QED
    BY <2>2, <2>3, <2>5
<1>2. IInv /\ Covered => SuccessBacksUp
  BY <1>1 DEF SuccessBacksUp
<1> QED
  BY <1>2, CoveredStays, Inductive, PTL

\* updateSnapshots runs only after the Server has confirmed its snapshot: in histories
\* without overlapping transfers, a row never takes a version later than what the newest
\* snapshot holds, whatever the rules are.
THEOREM RowsNeverLead == Spec => RowsFollowSnapshots
<1> DEFINE Follows == \A f \in Files : rows'[f] # rows[f] /\ rows'[f] # Absent /\ Orderly => newest[f] >= rows'[f]
<1>1. ASSUME IInv, [Next]_vars PROVE [Follows]_vars
  <2> SUFFICES ASSUME NEW f \in Files, rows'[f] # rows[f], rows'[f] # Absent, Orderly
               PROVE  newest[f] >= rows'[f]
    OBVIOUS
  <2>1. PICK k \in Runs : /\ stage[k] = "record" /\ f \in DOMAIN plan[k][root[k]]
                          /\ rows'[f] = plan[k][root[k]][f]
    BY <1>1, NextIsStep, RowStep DEF IInv, Base
  <2> QED
    BY <1>1, <2>1 DEF IInv, FollowsInv, RecordedIsHeld, Serves
<1> QED
  BY <1>1, Inductive, PTL DEF Spec, RowsFollowSnapshots

\* A delete marker stands for a file that was removed, or that the rules leave out: in
\* histories without overlapping transfers and for rules without a hole, the Server's
\* DeleteFile never meets a file that was only out of one root's sight.
THEOREM DeletionsWereRemovals == Spec /\ Covered => DeletesWereSeen
<1> DEFINE Seen == \A f \in Files :
              live[f] # Absent /\ live'[f] = Absent /\ ~overlapped => f \in removed \cup dropped
<1>1. ASSUME IInv, Covered, [Next]_vars PROVE [Seen]_vars
  <2> SUFFICES ASSUME NEW f \in Files, live[f] # Absent, live'[f] = Absent, ~overlapped
               PROVE  f \in removed \cup dropped
    OBVIOUS
  <2>1. PICK h \in Streams : f \in DOMAIN inbox[h] /\ live'[f] = inbox[h][f]
    BY <1>1, NextIsStep, LiveStep DEF IInv, Base
  <2> QED
    BY <1>1, <2>1 DEF IInv, CoveredInv, MissingWasRemoved, Orderly
<1> QED
  BY <1>1, CoveredStays, Inductive, PTL DEF Spec, DeletesWereSeen

=============================================================================
