-------------------------- MODULE SnapshotRetention --------------------------
(***************************************************************************)
(* The recovery snapshots of one dataset on the Server.  Every PushBackup  *)
(* stream that ends well takes a snapshot and then cleans up, several at   *)
(* once if several streams end together; a PullRestore looks up the newest *)
(* snapshot, reads it through a temporary clone and destroys the clone.    *)
(* Each ZFS command is one step, and between two of them anything may      *)
(* happen: another stream's commands, a failing command, the Server's end. *)
(* ZFS itself is external: a snapshot is destroyed only if it exists and   *)
(* has no clone, and cloned only if it exists.                             *)
(***************************************************************************)
EXTENDS Integers, FiniteSets

CONSTANTS
  Pushes,      \* streams that reach the completion of PushBackup (a retry is a new one)
  Restores,    \* PullRestore calls that are authorised
  MinKeep,     \* SnapshotPolicy.MinSnapshots
  MaxKeep,     \* SnapshotPolicy.MaxSnapshots
  MaxFaults,   \* bound: ZFS commands that fail for reasons of their own
  MaxCrashes   \* bound: times the Server stops

\* LoadServerConfig raises MinSnapshots to 2 and refuses a smaller MaxSnapshots.
ASSUME PolicyAssumption == MinKeep \in Nat \ {0, 1} /\ MaxKeep \in Nat /\ MaxKeep >= MinKeep
ASSUME FaultsAssumption == MaxFaults \in Nat /\ MaxCrashes \in Nat
ASSUME StreamsAssumption == IsFiniteSet(Pushes) /\ IsFiniteSet(Restores)

VARIABLES
  up,          \* the Server process is running
  crashes,     \* times it has stopped
  faults,      \* ZFS commands that have failed for reasons of their own
  taken,       \* number of the newest snapshot; they are numbered in creation order
  snaps,       \* the snapshots that exist
  clone,       \* clone[r]: the snapshot r's restore clone hangs on, or 0
  push,        \* push[p]: where stream p is
  own,         \* own[p]: the snapshot p created, or 0
  remaining,   \* remaining[p]: CleanupSnapshots' list
  restore,     \* restore[r]: where call r is
  pick         \* pick[r]: the snapshot r looked up, or 0

server  == <<up, crashes>>
pushing == <<push, own, remaining>>
pulling == <<clone, restore, pick>>
vars    == <<server, faults, taken, snaps, pushing, pulling>>

PushStages    == {"idle", "list", "prune", "space", "reclaim", "ok", "failed", "gone"}
RestoreStages == {"idle", "clone", "mount", "read", "destroy", "abandon", "ok", "failed", "stuck",
                  "gone"}

TypeOK ==
  /\ up \in BOOLEAN
  /\ crashes \in 0..MaxCrashes
  /\ faults \in 0..MaxFaults
  /\ taken \in Nat
  /\ snaps \subseteq 1..taken
  /\ clone \in [Restores -> 0..taken]
  /\ push \in [Pushes -> PushStages]
  /\ own \in [Pushes -> 0..taken]
  /\ remaining \in [Pushes -> SUBSET (1..taken)]
  /\ restore \in [Restores -> RestoreStages]
  /\ pick \in [Restores -> 0..taken]

\* The dataset is as earlier streams left it, up to MaxKeep snapshots.
Init ==
  /\ up = TRUE
  /\ crashes = 0
  /\ faults = 0
  /\ taken \in 0..MaxKeep
  /\ snaps = 1..taken
  /\ clone = [r \in Restores |-> 0]
  /\ push = [p \in Pushes |-> "idle"]
  /\ own = [p \in Pushes |-> 0]
  /\ remaining = [p \in Pushes |-> {}]
  /\ restore = [r \in Restores |-> "idle"]
  /\ pick = [r \in Restores |-> 0]

-----------------------------------------------------------------------------
(* ZFS.                                                                    *)

\* `zfs list -s creation` is ordered by age.
Newest(S) == CHOOSE n \in S : \A m \in S : m <= n

Oldest(S) == CHOOSE n \in S : \A m \in S : n <= m

Destroyable(n) == n \in snaps /\ \A r \in Restores : clone[r] # n

Fault == faults < MaxFaults /\ faults' = faults + 1

-----------------------------------------------------------------------------
(* PushBackup's completion: CreateSnapshot, then CleanupSnapshots.          *)

PushAt(p, s)   == up /\ push[p] = s
PushGoto(p, s) == push' = [push EXCEPT ![p] = s]

\* The command failed for reasons of its own and so does the stream.
PushFault(p) ==
  /\ Fault
  /\ PushGoto(p, "failed")
  /\ UNCHANGED <<server, taken, snaps, own, remaining, pulling>>

\* CreateSnapshot returns the name it chose also when the command fails: as if the error
\* were ignored.
TakeSnapshotIgnoresError(p) ==
  /\ PushAt(p, "idle")
  /\ \/ /\ taken' = taken + 1
        /\ snaps' = snaps \cup {taken + 1}
        /\ UNCHANGED faults
     \/ Fault /\ UNCHANGED <<taken, snaps>>
  /\ own' = [own EXCEPT ![p] = taken + 1]
  /\ PushGoto(p, "list")
  /\ UNCHANGED <<server, remaining, pulling>>

TakeSnapshot(p) ==
  /\ PushAt(p, "idle")
  /\ \/ /\ taken' = taken + 1
        /\ snaps' = snaps \cup {taken + 1}
        /\ own' = [own EXCEPT ![p] = taken + 1]
        /\ PushGoto(p, "list")
        /\ UNCHANGED <<server, faults, remaining, pulling>>
     \/ PushFault(p)

ListSnapshots(p) ==
  /\ PushAt(p, "list")
  /\ \/ /\ remaining' = [remaining EXCEPT ![p] = snaps]
        /\ PushGoto(p, IF Cardinality(snaps) <= MinKeep THEN "ok" ELSE "prune")
        /\ UNCHANGED <<server, faults, taken, snaps, own, pulling>>
     \/ PushFault(p)

\* As if the last snapshot of the list were destroyed.
DestroyNewest(p, next) ==
  LET n == Newest(remaining[p]) IN
  \/ /\ Destroyable(n)
     /\ snaps' = snaps \ {n}
     /\ remaining' = [remaining EXCEPT ![p] = @ \ {n}]
     /\ PushGoto(p, next)
     /\ UNCHANGED <<server, faults, taken, own, pulling>>
  \/ /\ ~Destroyable(n)
     /\ PushGoto(p, "failed")
     /\ UNCHANGED <<server, faults, taken, snaps, own, remaining, pulling>>

\* As if a snapshot that cannot be destroyed were tried again.
DestroyOldestTriesAgain(p, next) ==
  LET n == Oldest(remaining[p]) IN
  \/ /\ Destroyable(n)
     /\ snaps' = snaps \ {n}
     /\ remaining' = [remaining EXCEPT ![p] = @ \ {n}]
     /\ PushGoto(p, next)
     /\ UNCHANGED <<server, faults, taken, own, pulling>>
  \/ /\ ~Destroyable(n)
     /\ PushGoto(p, next)
     /\ UNCHANGED <<server, faults, taken, snaps, own, remaining, pulling>>

\* Destroy the first snapshot of the list and drop it from the list, or give up: it is
\* gone already, a clone hangs on it, or the command failed.
DestroyOldest(p, next) ==
  LET n == Oldest(remaining[p]) IN
  \/ /\ Destroyable(n)
     /\ snaps' = snaps \ {n}
     /\ remaining' = [remaining EXCEPT ![p] = @ \ {n}]
     /\ PushGoto(p, next)
     /\ UNCHANGED <<server, faults, taken, own, pulling>>
  \/ /\ ~Destroyable(n)
     /\ PushGoto(p, "failed")
     /\ UNCHANGED <<server, faults, taken, snaps, own, remaining, pulling>>
  \/ PushFault(p)

\* As if the first loop stopped one snapshot late.
ExcessLate(S) == Cardinality(S) > MinKeep /\ Cardinality(S) > MaxKeep + 1

\* The condition of the first loop.
Excess(S) == Cardinality(S) > MinKeep /\ Cardinality(S) > MaxKeep

PruneExcess(p) ==
  /\ PushAt(p, "prune")
  /\ Excess(remaining[p])
  /\ DestroyOldest(p, "prune")

PruneDone(p) ==
  /\ PushAt(p, "prune")
  /\ ~Excess(remaining[p])
  /\ PushGoto(p, "space")
  /\ UNCHANGED <<server, faults, taken, snaps, own, remaining, pulling>>

\* As if the floor were not compared.
ShortOfSpaceBelowFloor(p) ==
  /\ PushGoto(p, IF remaining[p] = {} THEN "failed" ELSE "reclaim")
  /\ UNCHANGED <<server, faults, taken, snaps, own, remaining, pulling>>

\* Too little space: reclaim some, unless only MinKeep snapshots are left.
ShortOfSpace(p) ==
  /\ PushGoto(p, IF Cardinality(remaining[p]) <= MinKeep THEN "failed" ELSE "reclaim")
  /\ UNCHANGED <<server, faults, taken, snaps, own, remaining, pulling>>

\* The pool is shared: how much space is available is anything, each time it is read.
CheckSpace(p) ==
  /\ PushAt(p, "space")
  /\ \/ /\ PushGoto(p, "ok")
        /\ UNCHANGED <<server, faults, taken, snaps, own, remaining, pulling>>
     \/ ShortOfSpace(p)
     \/ PushFault(p)

Reclaim(p) ==
  /\ PushAt(p, "reclaim")
  /\ DestroyOldest(p, "space")

PushStep(p) ==
  \/ ListSnapshots(p) \/ PruneExcess(p) \/ PruneDone(p) \/ CheckSpace(p) \/ Reclaim(p)

-----------------------------------------------------------------------------
(* PullRestore: LatestSnapshot, CreateRestoreClone, read, DestroyRestoreClone. *)

RestoreAt(r, s)   == up /\ restore[r] = s
RestoreGoto(r, s) == restore' = [restore EXCEPT ![r] = s]

LatestSnapshot(r) ==
  /\ RestoreAt(r, "idle")
  /\ \/ /\ snaps # {}
        /\ pick' = [pick EXCEPT ![r] = Newest(snaps)]
        /\ RestoreGoto(r, "clone")
        /\ UNCHANGED faults
     \/ snaps = {} /\ RestoreGoto(r, "failed") /\ UNCHANGED <<faults, pick>>
     \/ Fault /\ RestoreGoto(r, "failed") /\ UNCHANGED pick
  /\ UNCHANGED <<server, taken, snaps, pushing, clone>>

\* As if a missing snapshot made the restore wait for one.
CreateCloneWaits(r) ==
  /\ RestoreAt(r, "clone")
  /\ \/ /\ pick[r] \in snaps
        /\ clone' = [clone EXCEPT ![r] = pick[r]]
        /\ RestoreGoto(r, "mount")
     \/ pick[r] \notin snaps /\ UNCHANGED <<restore, clone>>
  /\ UNCHANGED <<server, faults, taken, snaps, pushing, pick>>

\* The clone hangs on the snapshot, if that is still there.
CreateClone(r) ==
  /\ RestoreAt(r, "clone")
  /\ \/ /\ pick[r] \in snaps
        /\ clone' = [clone EXCEPT ![r] = pick[r]]
        /\ RestoreGoto(r, "mount")
        /\ UNCHANGED faults
     \/ pick[r] \notin snaps /\ RestoreGoto(r, "failed") /\ UNCHANGED <<faults, clone>>
     \/ Fault /\ RestoreGoto(r, "failed") /\ UNCHANGED clone
  /\ UNCHANGED <<server, taken, snaps, pushing, pick>>

\* As if the clone were left where its mount point cannot be used.
FindMountpointLeaks(r) ==
  /\ RestoreAt(r, "mount")
  /\ \E next \in {"read", "failed"} : RestoreGoto(r, next)
  /\ UNCHANGED <<server, faults, taken, snaps, pushing, clone, pick>>

\* Without a usable mount point (none, legacy, or the command fails) the clone is given up.
FindMountpoint(r) ==
  /\ RestoreAt(r, "mount")
  /\ \E next \in {"read", "abandon"} : RestoreGoto(r, next)
  /\ UNCHANGED <<server, faults, taken, snaps, pushing, clone, pick>>

\* Every file is sent, or the read, the stream or its deadline fails.
StreamFiles(r) ==
  /\ RestoreAt(r, "read")
  /\ \E next \in {"destroy", "abandon"} : RestoreGoto(r, next)
  /\ UNCHANGED <<server, faults, taken, snaps, pushing, clone, pick>>

\* DestroyRestoreClone tries twice; if both fail the clone is stuck.  Only after it succeeded
\* may the last batch be sent, and the stream may be gone by then.
DestroyClone(r) ==
  /\ up
  /\ restore[r] \in {"destroy", "abandon"}
  /\ \/ /\ clone' = [clone EXCEPT ![r] = 0]
        /\ \E end \in {"ok", "failed"} :
             /\ restore[r] = "abandon" => end = "failed"
             /\ RestoreGoto(r, end)
        /\ UNCHANGED faults
     \/ Fault /\ RestoreGoto(r, "stuck") /\ UNCHANGED clone
  /\ UNCHANGED <<server, taken, snaps, pushing, pick>>

RestoreStep(r) ==
  \/ CreateClone(r) \/ FindMountpoint(r) \/ StreamFiles(r) \/ DestroyClone(r)

-----------------------------------------------------------------------------
(* The Server process.  Snapshots and clones survive it; nothing at startup  *)
(* looks for clones.                                                         *)

Crash ==
  /\ up
  /\ crashes < MaxCrashes
  /\ up' = FALSE
  /\ crashes' = crashes + 1
  /\ push' = [p \in Pushes |-> IF push[p] \in {"idle", "ok", "failed"} THEN push[p] ELSE "gone"]
  /\ restore' = [r \in Restores |->
                   IF restore[r] \in {"idle", "ok", "failed", "stuck"} THEN restore[r] ELSE "gone"]
  /\ UNCHANGED <<faults, taken, snaps, own, remaining, clone, pick>>

Restart ==
  /\ ~up
  /\ up' = TRUE
  /\ UNCHANGED <<crashes, faults, taken, snaps, pushing, pulling>>

Next ==
  \/ \E p \in Pushes : TakeSnapshot(p) \/ PushStep(p)
  \/ \E r \in Restores : LatestSnapshot(r) \/ RestoreStep(r)
  \/ Crash
  \/ Restart

Spec == Init /\ [][Next]_vars

\* A handler that runs keeps running: every ZFS command returns, maxStreamDuration ends a
\* stream.  Nothing obliges a client to push or to restore.
Fairness ==
  /\ \A p \in Pushes : WF_vars(PushStep(p))
  /\ \A r \in Restores : WF_vars(RestoreStep(r))
  /\ WF_vars(Restart)

FairSpec == Spec /\ Fairness

-----------------------------------------------------------------------------
(* Properties.                                                             *)

\* The newest MinKeep snapshots ever taken always exist, however many cleanups work on
\* lists that have become stale: the newest is there for LatestSnapshot, and a snapshot
\* is lost between LatestSnapshot and CreateRestoreClone only after MinKeep newer ones.
RecentKept == {n \in 1..taken : n > taken - MinKeep} \subseteq snaps

\* Retention keeps up: besides MaxKeep snapshots there are at most those of streams that
\* took one and are not acknowledged, so that only failing cleanups make them pile up.
GrowthBound ==
  Cardinality(snaps) <= MaxKeep + Cardinality({p \in Pushes : own[p] # 0 /\ push[p] # "ok"})

\* A clone outlives its restore only if the Server stopped during that very restore, or
\* ZFS twice refused to destroy that very clone: every other way out of PullRestore (no
\* usable mount point, a read, a send or a deadline that fails, faults elsewhere) gives it
\* back.
NoLeakedClone ==
  \A r \in Restores : clone[r] # 0 =>
    restore[r] \in {"mount", "read", "destroy", "abandon"} \cup {"stuck", "gone"}

\* Together the streams treat the snapshots as the window RecoveryPoints describes: what
\* is destroyed is the oldest, so that there are no gaps, and never when MinKeep or fewer
\* are left.
Points == INSTANCE RecoveryPoints WITH
            first <- IF snaps = {} THEN taken + 1 ELSE Oldest(snaps),
            last  <- taken
PointsSpec == Points!Spec /\ [](snaps = Points!Kept)

\* A completion that took its snapshot answers the client, or the Server stops: neither
\* loop of CleanupSnapshots goes on for ever, though the space it waits for may never come.
PushEnds == \A p \in Pushes : push[p] = "list" ~> push[p] \in {"ok", "failed", "gone"}

\* A restore that found a snapshot ends.
RestoreEnds == \A r \in Restores : restore[r] = "clone" ~> restore[r] \in {"ok", "failed", "stuck", "gone"}

\* docs/security-model.md promises a "temporary ZFS clone, which the Server removes after
\* the restore stream completes".  A clone whose restore ended with the Server stays.
CloneIsTemporary ==
  faults = 0 => \A r \in Restores : restore[r] = "gone" /\ up => clone[r] = 0

=============================================================================
