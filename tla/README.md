# DataVault: a TLA+ development

DataVault backs up Linux hosts to ZFS servers. A root *Agent* on each host
(`cmd/datavault-agent`, `internal/agent`) scans source roots, compares what it
finds with its own SQLite database and pushes the differences over mTLS gRPC to
every configured *Server* (`cmd/datavault-server`, `internal/server`). A Server
writes them into one ZFS dataset per host and user, takes a snapshot at the end
of every stream and prunes old snapshots. A restore streams the newest snapshot
back through a temporary clone. Users talk to the Agent over a Unix socket
(`cmd/dvault`), or over HTTPS through a web gateway that holds a delegated key.

This directory holds TLA+ modules translated from the Go sources, the
configurations with which TLC checks them on small instances, and proofs that
TLAPS checks for every value of the constants. Paths below are relative to
`src/`. `PROJECT.json` names, for every definition, the lines it stands for.

Contents: 1 the system · 2 the modules and the code · 3 the runs · 4 fairness ·
5 the proofs · 6 where code and documents disagree · 7 not modelled · 8 plan

## 1. The parts of the system

| Part | State it keeps | Operations | What makes it correct | Module |
|---|---|---|---|---|
| Task lifecycle, retry (`internal/agent/orchestrator`, `pkg/progress`, `pkg/retry`, `pkg/store/tasks.go`, `svc/status.go`, `httpsapi/sse.go`) | live trackers, `task_history` rows, `failureNotified` | RunSync, RunRestore, one worker per Server, waiter, markFailed, status streams, restart | what tracker, row, hook and clients say of a task fits what its goroutines did; retries end, every task resolves | SyncTask |
| Scan, diff, push (`pkg/scanner`, `pkg/packager`, `internal/agent/transport`, `pkg/store/snapshots.go`, `pkg/rules/merge.go`, `pkg/glob`) | `file_snapshots` rows | Scan, ComputeDiffUnderRoot, PushBackup, updateSnapshots | a file the next scan skips is in the Server's newest snapshot; only files removed, or left out by the rules, are deleted | BackupSync |
| Stream handler, receiver (`internal/server/svc/backup.go`, `internal/server/receiver`) | dataset, staging files, partial uploads | batch, chunk, commit, delete, snapshot | a target file is replaced only by a whole upload; an aborted stream leaves nothing | ChunkedPush |
| Snapshots and clones (`pkg/zfs/snapshot.go`, `internal/server/svc/restore.go`) | snapshots, clones | CreateSnapshot, CleanupSnapshots, restore clone | the newest recovery points survive any interleaving of cleanups; no clone stays | SnapshotRetention |
| Delegations of web keys (`svc/webdelegation.go`, `svc/delegation.go`, `middleware/delegations.go`, `store/delegations.go`) | a row at the Agent, key and meta files at the Servers | enroll, rotate, revoke, DELETE | a Server holds only what the user signed; the row and the Servers agree | DelegatedKeys |
| Signed requests, challenges, task grants (`httpsapi/*`, `svc/challenge.go`, `svc/quota.go`, `store/nonces.go`, `store/taskgrants.go`, `svc/backup.go`) | nonces, pending challenges, grants | GetChallenge, quota, restore, sync trigger, grant, signed batches | a challenge serves once, on the Server that issued it | SignedRequests |
| Trust policy (`pkg/config/server.go`, `middleware/userauthz.go`, `middleware/auth.go`) | `user_auth` in force | load, reload, DecideAuth | only a user an accepted policy trusts passes unsigned | TrustPolicy |
| Restore into the target (`orchestrator.go` 459-852) | temporary tree, target | validate, receive, swap, chown, undo | what is visible at the target is whole; a directory goes only for a whole new one | RestoreTarget |
| Rules (`pkg/rules/userstore.go`, `svc/userrules.go`, `svc/machinerules.go`, SIGHUP) | rule files, the Agent's configuration | add, remove, enable, list, reload | acknowledged edits add up, and memory and file agree, where edits do not overlap; overlaps do bounded harm | RuleFiles |
| Key enrollment (`internal/server/enrollment`) | `<user>.pub` | Enroll, reload | the key file is whole and stays, also when power fails | KeyEnrollment |
| Connection pool (`internal/agent/pool`) | two maps | get, close | one connection per Server; every client handed out works | ConnPool |
| Rate limit (`httpsapi/ratelimit.go`) | token buckets | allow | burst and rate bound every span of time | RateLimiter |
| Scheduler, datasets, PKI, hooks, audit, configuration, CLI, generated code | files or none | one-shot calls | outside the concurrency of the system, or a caller of the above | in part, section 7 |

**How they interact.** The socket service, the HTTPS API and the scheduler call
`RunSync` and `RunRestore`, which return a task identifier at once. One
goroutine per Server then scans, diffs, and opens one `PushBackup` stream per
changed root. All goroutines of a task share one tracker and one database row.
The Server handles every stream in its own goroutine without a lock on the
dataset, and ends it with snapshot and cleanup. Only the terminal read of the
stream tells the Agent that the snapshot exists; then it writes its rows. The
row of a file decides whether the next scan skips it. A user's call carries a
signature over a Server's nonce, unless that Server's policy trusts the host to
vouch for the user; a web gateway signs with a key the user has enrolled, and a
web sync pushes with a task key that such a signature granted.

**What is hard.** Goroutines that write one tracker; a status read from memory
and, after a restart, from the row; cleanups that work on lists which other
streams have made stale; retries beside the handler of the stream they gave up;
files edited between scan and read; rules that change between the attempts of one task; two syncs of one user at once; an RPC that
timed out at the Agent while its handler goes on; a challenge presented twice at
once; two restores of one target; edits of one file without a lock; a daemon or
a machine that stops between any two steps. `PROJECT.json` lists these hazards
at their lines, with the properties that cover them.

## 2. The modules and the code

### SyncTask: the life of a task
`runSync`, `RunRestore`, `runRestoreTask`, `syncToServerWithRetry`,
`markFailed`, `GetTrackerForUser`, `StreamTaskStatus`, `FailIncompleteTasks`.

* `pc[t][a]` is the place of goroutine `a` of task `t`: the caller, a worker per
  Server, the waiter. `tracker`, `row`, `notified` are the code's three records
  of a task. `hookRuns` counts the operator's hook, `watch` is what a client is
  told. `good` and `bad` are histories: who succeeded, who gave up.
* One action per critical section. `markFailed` is three actions (`FailPhase`,
  `FailRow`, `FailNotify`) because it takes three locks one after the other.
* `Crash` ends the process and drops everything but the rows; `Restart` runs
  `FailIncompleteTasks` before it serves.
* The backoff's growing, jittered delay is any member of `Delays`; its budget is
  exact.

### SnapshotRetention and RecoveryPoints: snapshots of one dataset
`CreateSnapshot`, `CleanupSnapshots`, `LatestSnapshot`, `CreateRestoreClone`,
`DestroyRestoreClone`, as `PushBackup` and `PullRestore` call them. One action
per `zfs` command; `remaining[p]` is the list a cleanup has read and that other
streams make stale. ZFS is external: it refuses to destroy a snapshot that is
missing or has a clone, and any command may fail. A restore whose clone has no
usable mount point destroys it (`abandon`) as one whose stream ended does
(`destroy`); when ZFS refuses that too, the restore is `stuck`, and only then, or
after a stop of the Server (`gone`), may the clone stay. `RecoveryPoints` is the abstract promise: the recovery
points are a window over all snapshots ever taken, which grows by one at the new
end and shrinks at the old end while more than `MinKeep` are left.
`SnapshotRetention` implements it under `first <- ` the oldest existing number
and `last <- taken`.

### BackupSync: from the disk to the newest snapshot and the rows
One user, one Server. `disk` changes at any time (external actions `Write` and
`Remove`). A run (`syncToServerWithRetry`) scans a root, diffs it against `rows`,
pushes batch by batch, closes, reads the end of the stream and records. A handler
applies a batch one file per step, takes the snapshot at the end, and may go on
after the run has left it; what is sent after it has returned finds no reader. A
file's content, mtime, size and mode are one version number; that an old version
comes back with its old mtime (`mv`, `cp -p`), and is then skipped, is left out. A
large file is one entry here.

Every attempt of a run begins with `MergeUserRules`: the global rules are fetched
anew and merged with those the task was given, so that a retry may work with other
roots and excludes than the attempt before, and a later task with others again.
`RuleSets` are the results a merge may have: a sequence of source roots, each with
the paths below its prefix and those of them that its globs let the scan see. A
file that the rules of an attempt leave out, and that has a row, becomes a delete
marker in that attempt's diff. When the attempt then fails after the marker was
applied, the row stays; once the rules take the file back, the scan finds it as
its row says and skips it, while no new snapshot holds it. `dropped` is the
history of these paths, from the diff until a version of them is recorded again,
and the properties make their promise to the others.

The properties speak of *orderly* histories, the circumstance that the design
takes for granted and the code does not enforce: transfers of one user do not
overlap. Section 6 shows what happens otherwise. `MayOverlap` says whether a
transfer may begin beside another one at all; the passing run leaves out such
histories, of which its properties say nothing.

### ChunkedPush: large files and staging files
`sendChunkedFile`, `sendBatch`, the loop of the handler, `writeChunk`,
`NewChunkWriter`, `Commit`, `Abort`, `WriteFile`. Content is a sequence of
blocks, a block is the number of the edit that wrote it; a chunk is one block.
A stream carries a message at a time, because the pusher waits for every
acknowledgement (`await`). A handler that returns removes its staging files
(`AbortUploads`, the deferred call); `Stop` ends it without. `TakeSnapshot`
records target and staging files alike, since both lie in the dataset. A small
file goes through a temporary file of the dataset too: `WriteFile` fills it and
`Commit` renames it, as it does for the last chunk of a large one.
A small file is read in one step: a write in the middle of `os.ReadFile` is not
modelled, the next scan finds the new mtime.

### DelegatedKeys: the key of a web gateway
`dvault web enroll` and `revoke`, the gateway's DELETE, `EnrollWebDelegation`,
`RevokeWebDelegation`, `handleDeleteDelegation`, `RegisterDelegationKey`,
`RemoveDelegationKey`, the files they write.

* One user, one gateway. A *ceremony* `c` is signed (`call[c]`), forwarded to one
  Server, answered, and written to the Agent's `row`. `handler[c]` is the Server's
  side, which `Answer` does not wait for: the RPC has 30 s, the handler goes on.
* `pub` and `meta` are the two files of a key; `WritePub` and `WriteMeta` are two
  steps, and a key counts (`Loadable`) as `LoadDelegationKeys` counts it.
* The expiry is computed twice, by `dvault` for the signature and by the Agent for
  the row; `StatementHolds` compares them as the Server's verification does.
* `HandlerFails` stands for every refusal and failure of the handler, and for a
  Server that stops. Keys are files; the Server keeps nothing else.

### SignedRequests: what a signature starts
`GetAuthChallenge`, `handleChallenge`, `extractSigned`, `handleQuota`,
`handleRestore`, `handleTriggerSync`, `PullRestore`, `GetQuotaUsage`,
`RegisterTaskGrant`, `ConsumeNonce`, `verifyTaskKeySignature`.

* `nonce[c]` is the row at the Server that answered the challenge; `pending` are
  the ephemeral task keys in the Agent's memory; `grants[s]` the grants a task key
  has at Server `s`; `accepted` a history of the batches taken.
* A challenge is a nonce of one Server, bound to no method and no signer. The
  Agent makes a task key with those a gateway asks for a sync; the same nonce may
  be signed with any other call.
* Any number of requests may present one challenge, to any Server and with any
  method: `Arrive`, `Gate`, `Extract` at the Agent, `Verify` and `ConsumeNonce` at
  the Server are steps of their own, so that two presentations meet at each of them.
* `Withdraw` takes a delegation, a key or a grant away at any time.
* `GateSeesUser` says whether the gate finds the user in the request's path. The
  code's wiring does not (section 6), so that nothing behind the gate would be
  reached; the passing run assumes it does, as the tests of the API set it.

### RestoreTarget: a tree is exchanged
`validateRestoreTarget`, `restoreFromStream`, `writeRestoredFile`,
`writeRestoredChunk`, `chownRestoreTree`. `tree[p]` is what is at a path, with
the kinds the code tells apart; a restore `r` has its own temporary directory
`tmp[r]` beside its target. Two paths, one inside the other. One file of one
batch and one of two chunks stand for all. `RemoveAll` begins and ends, or fails,
or is cut by a stop, and what is below it goes with it, other restores' temporary
directories included. That holds for the old target (`RemoveBegins`, `RemoveEnds`,
`RemoveFails`) and for the tree that is taken back after a failed chown
(`UndoBegins`, `UndoEnds`, `UndoFails`), whose error the code drops, as it drops
that of the temporary directory (`CleanupFails`). `cut` is a history of the
removals that did not end, so that `PartHasCause` and `NoTempLeft` can say that
nothing else leaves a part of a tree or a temporary directory.

### RuleFiles, KeyEnrollment, TrustPolicy, ConnPool, RateLimiter
* **RuleFiles**: `UserStore.Load/Save` under Add, Remove and SetEnabled, and the
  machine rules of `agent.yaml` with the Agent's memory and SIGHUP. `Create`
  truncates the user's file and the encoder writes it in pieces (`WritePiece`, then
  `Write`): a `Load` in between decodes the beginning of a list (`Beginnings`:
  rules missing, or the last one without its "enabled"), or nothing. When two edits
  have the file open at once (`doubled`) what they leave decodes to anything or
  not at all. `contested` and `torn` are histories of what the code leaves
  unprotected, so that `RulesAgree` says what holds around it: a machine rule that
  no edit contests is as acknowledged; a user's rule may be lost when edits of
  other names overlap, but none comes back and none is enabled.
* **KeyEnrollment**: the temporary file, `fsync`, rename and directory `fsync` of
  `Enroll`; `onDisk` and `bytes` are what a power failure leaves. Power may fail at
  any time. The Agent's directory, which the first enrollment makes, is synced
  itself but never in its parent: `agentDir` says whether its entry is on the disk,
  and `PowerTakesDirectory` takes it with all its keys when it is not (`wiped`).
* **TrustPolicy**: every `user_auth` entry over small sets, what `validateUserAuth`
  accepts and completes, and `DecideAuth` on every call. `min_uid` may be any
  number that is written. `written` keeps the configuration as it was written, and
  the property reads it without the code's completion.
* **ConnPool**: the double-checked dial, `Close` beside it.
* **RateLimiter**: one bucket, time in parts of a token, the clock read twice;
  `passed[t]` is a history, the requests admitted before tick `t`.

### MCParts
The seven small modules share no state. `MCParts` puts them side by side: the
first step of a behaviour has chosen a part, the others rest. That is one
state space that is the sum of the seven, and one run. Symmetry is declared over
the challenges, requests and Servers of SignedRequests, which nothing orders and
no other part uses. `RestoresEndWhole`, `RulesAgree` and `EnrolledKeySurvives`
are conjunctions of properties that the part's module states one by one.

`MCBackupSync`, `MCChunkedPush`, `MCDelegatedKeys` hold only symmetry sets and
the constants a cfg cannot write. No run that checks liveness uses symmetry.

Definitions of the form *...Forgotten*, *...Early*, *...Skipped*, introduced by
"As if", are faulty variants of the definition after them. No specification
uses them; they serve to show that each property can fail.

## 3. The runs

| Run (cfg) | Instance | Shows |
|---|---|---|
| `sync_task` (`SyncTask`) | a sync to 2 Servers or a restore, 1 Agent stop, 1 lost row write, delays {1,2}, budget 1 | what tracker, row, hook and clients say fits what the goroutines did; status streams end, recorded tasks resolve |
| `snapshot_retention` (`SnapshotRetention`) | 2 streams and 1 restore on a dataset with 0 to 3 snapshots, keep 2 to 3, 2 failing commands, 1 stop | the newest 2 survive, growth is bounded, a clone stays only by a stop or a failed destroy of that restore, refinement of RecoveryPoints, cleanups and restores end |
| `backup_sync` (`MCBackupSync`) | 2 files; each attempt has one root with both, one that excludes the second, two disjoint ones, or none (`ChangingRules`); 2 runs, 2 streams, batches of 1, 2 writes | skipped files are restorable, success backs up, rows follow snapshots, only what was removed or left out is deleted |
| `chunked_push` (`MCChunkedPush`) | 2 streams of one path, 1 to 3 chunks, 1 edit, 1 stop | only whole uploads are published, snapshots are faithful, aborted streams leave nothing, staging files go away |
| `delegated_keys` (`MCDelegatedKeys`) | 3 ceremonies, 2 at once, 2 keys, 2 Servers of which any may vouch, 2 seconds, 1 Agent stop per step | a Server that verifies holds only signed keys and expiries; an active row is backed; an answered revocation holds |
| `parts` (`MCParts`) | see below | a challenge serves once, a task key stays where it was granted, restores end whole or say why not, rules agree, rate and connections are bounded, keys survive power failures, vouching is confined to what is written |
| `sync_task_masked`, `snapshot_clone_leak`, `backup_sync_nested`, `backup_sync_overlap`, `chunked_push_partial`, `signed_requests_gate` | smallest that shows the case | violations, section 6 |

`parts`: 2 challenges, 2 requests and 2 Servers, any of them vouching; 2 restores
of one target or of two nested ones; 2 edits of 2 names on any list of rules from
before, with reloads and stops;
a bucket of 2 tokens of 2 parts, 1 part per tick, 7 ticks; 3 callers and 4
connections; 3 enrollments of one account with changes of policy and power
failures; 2 users, uids 0, 1, 499, 500, 999 and 1000, every policy with `min_uid`
-1, left out, 1, 500 or 1000. The sum is about 1.37 million states.

**Why the bounds are enough.** Two Servers make every race between replicas:
one fails before, while and after the other works. One stop and one lost write
may fall between any two steps; more repeat the same places, since a restart
leaves only the rows. One task is enough, because tasks of one Agent share no
state but the process that `Crash` ends. Two streams on a dataset that is full at
the start make cleanups whose lists are up to five long and stale at once; a
restore meets all of their steps. Two files and two runs make a retry scan beside an
abandoned handler, and a file pushed beside one that is not; two writes give old,
recorded and current versions. The four rule sets let an attempt take a file in,
leave it out and take it in again, move it to a root of its own, or have nothing
to do. Two failing commands are one in a restore and one beside it, or both
attempts of a restore to destroy its clone. A path that starts with two blocks and is edited
once is a small file, a file of two chunks, one of three (with a chunk between
first and last), or changes while it is sent; handlers treat different paths
independently, so that one path and two streams make every conflict.

Three ceremonies are an enrollment, its rotation or revocation, and one more that
comes back to it; two at once are a handler left behind beside the next ceremony.
A delegation lives 1 second of 2, so that it expires inside the run; a nonce
lives 2, so that its expiry is not what refuses (a refused nonce is one of the
outcomes of `HandlerFails`). Two requests and two challenges make a challenge
presented twice, at once or in turn, to one Server or two; requests of different
challenges meet only in the grants. Two restores make every conflict, since each
step names one other. Two edits are one that holds an
old list or has half written its own, and one that overtakes it; since any list may
be there at the start, what earlier edits left needs none of them. The uids and
thresholds lie on both sides of each other. Seven ticks fill the bucket from
empty, leave it idle beyond full, and drain it. Three callers are one that dials,
one that waits for the lock and one that closed the pool.

All runs switch deadlock checking off, because each system may come to rest: all
tasks are finished, all streams, ceremonies and requests are over.

## 4. Fairness

Each `FairSpec` assumes weak fairness of steps the program takes by itself:
goroutines are scheduled, every RPC has a deadline (30 s; 10 min for a transfer,
`orchestrator.go:404,507`; `maxStreamDuration` at the Server), delays end, the
status loop polls each second, `systemd` restarts the daemons
(`scripts/*.service`, `Restart=always`). In ChunkedPush the handler's `Recv`
waits on the stream's own context, so the end of an interrupted stream comes
from the pusher: `PushFails` is fair because of the ten minutes of its context.
Nothing obliges a user to edit a file, start a task or watch one, and no fault
is ever required to happen. The other modules state safety only, and no fairness.

## 5. The proofs

| Module | Proves of | Theorems |
|---|---|---|
| SyncTaskProof | SyncTask | TypeCorrect, CompletedHonest, FailedCaused, NotifiedOnce, NoOrphan, MaskedFailuresAreTold, CompletedFinal |
| SnapshotRetentionProof | SnapshotRetention | TypeCorrect, RecentPointsKept, ImplementsPoints, RetentionKeepsUp, ClonesAreDestroyed |
| BackupSyncProof | BackupSync | TypeCorrect, SkippedFilesAreSafe, SuccessIsBackedUp, RowsNeverLead, DeletionsWereRemovals |
| ChunkedPushProof | ChunkedPush | TypeCorrect, AbortsAreClean, OnlyWholeFiles, SnapshotIsFaithful |
| DelegatedKeysProof | DelegatedKeys | TypeCorrect, OnlyConsentedKeys, ActiveRowsAreBacked, RevocationsHold |
| SignedRequestsProof | SignedRequests | TypeCorrect, ChallengeOnce, TaskKeyStaysConfined |
| FilesProof | RuleFiles, RestoreTarget | RuleEditsAddUp, RestoresAreWhole, OldGoesOnlyForWhole |
| PartsProof | ConnPool, KeyEnrollment, TrustPolicy, RateLimiter, MCParts | PoolIsTight, EnrollmentsSurvive, OnlyTrustedAreVouched, RateIsBounded, PartsTyped |

Every invariant and every action property that a passing run checks is stated by
one of these theorems, so that a run shows on a small instance what a theorem
says of every instance.

**Assumed** are the ASSUMEs of the modules, which TLC evaluates on each run: a
non-empty set of Servers, distinct goroutine names, positive delays and
lifetimes, `MinKeep >= 2` as `LoadServerConfig` enforces, `MaxKeep >= MinKeep`,
finite sets of files, streams, restores and enrollments, positive file and batch
sizes, a rate and a burst that are not negative, and that what a root scans is
below it. One hypothesis is not an ASSUME, because the code does not ensure it:
`Covered`, in three theorems about BackupSync, below. That transfers do not
overlap is not a hypothesis but a premise inside the properties of BackupSync.

**SyncTask.** `CompletedIsHonest` and its neighbours are not inductive: they
say nothing of a goroutine about to write. `IInv` is `TypeOK` and, for each task,
`Shape` (which goroutine can be where: workers and waiter exist only after the
caller returned), `Account` (what a place implies for the histories: whoever is
in `markFailed` is in `bad`, whoever left it was reported), `LastWriter` (while
the waiter waits, a tracker that every worker has marked FAILED is FAILED, so a
waiter that reads another phase knows a success) and `Closed` (COMPLETED is
written by the last goroutine that does anything). `Inductive` shows that `IInv`
is invariant, one lemma per kind of step (`CallerStepInv`, `WorkerStepInv`,
`AnyActorStepInv`, `CrashInv`, `RestartInv`); `CompletedHonest`, `FailedCaused`,
`NotifiedOnce`, `NoOrphan` follow from it, `CompletedFinal` from it and one step.
`MaskedFailuresAreTold` adds `Told`: whoever gave up is in `markFailed` or gone,
and unless a write was lost, whoever has passed the row has left its error there
and no later write clears it.

**SnapshotRetention.** `IInv` is `TypeOK`, `Window` (the existing snapshots are
the numbers from `First` to `taken`), `Floor` (at least `MinKeep` of them, once
that many were taken) and `Lists` (the list of a running cleanup, however stale,
is an interval that starts no later than `First`). The last is the reason why
stale lists are harmless: a cleanup meets only numbers that are gone or the
oldest that exists. From it follow `RecentPointsKept` and `ImplementsPoints`:
initial states map to initial states of `RecoveryPoints`, every step maps to
`Take`, `Prune` or a stutter.
`RetentionKeepsUp` is the other direction: cleanups that overlap do not let the
dataset grow beyond `MaxKeep` and one per stream that was not acknowledged. A
count of both sides is not inductive. `GrowthInv` names a *horizon*: at most
`MaxKeep` existing snapshots are not above it, and every snapshot above it was
taken by a stream of its own that was not acknowledged. It moves up, to the end
of a stream's list, when that stream is acknowledged; a list that has left the
first loop holds no more than `MaxKeep`, the stream's own snapshot included
(`Trimmed`). The bound follows by counting streams. `ClonesAreDestroyed` is
inductive with the types alone: it follows a clone to the end of its own restore,
through every failure there and beside it.

**BackupSync.** `IInv` follows a version from the scan through plan, batch and
dataset to snapshot and row. `Base` holds in every history: types, `Shape` (where
runs, streams and handlers can be), `Pasts` (every version anywhere was once on
the disk, and is not ahead of it), `ScannedOnly`, `SteadyKept`. `FollowsInv` holds
as long as transfers do not overlap, for any rules: `OneTransfer`; `SentArrives`
and `RecordedIsHeld` (what was sent is in the batch or the dataset, what is
recorded in the snapshot too). `RowsNeverLead` needs no more. `CoveredInv` also
wants rules without a hole: `BatchKeepsSkipped` and `Skippable` (nothing on its way
undoes what the next scan skips, and that is in the newest snapshot, but for
dropped files); `MissingWasRemoved` and `DeletesOutdated` (a planned deletion is of
a file that was removed or left out, and a removed one is newer than its row);
`SteadyFollowed`, `NoLaterDiffs` and `NoRemains` (where a file that did not change
during a run has got to, for `SuccessIsBackedUp`).
`Covered` is that hypothesis: of the roots of one attempt, what one scans is not
below another that excludes it. It says nothing of the rules of different attempts,
which may differ in any way. The code takes rules with a hole too, and there the
outer root's diff deletes what the inner one has pushed: the run
`backup_sync_nested` shows it. The passing run takes one root and two disjoint
ones; the theorems also hold for a root that two rules name, and for nested roots
whose outer one sees what the inner one sees.

**ChunkedPush.** What has been read of a file is its staging file and the chunk
in flight (`UploadsFit`, `BatchFits`, with `InStep`: a batch is on its way only
while its acknowledgement is awaited or nobody waits). Hence a commit publishes a
whole upload (`OnlyWholeFiles`), whatever other streams do to the same path.
`Reading` ties what is read to what was scanned and is still to be sent. While
streams do not overlap, `Published` and `Kept` carry it to the target and the
snapshot, and keep it there until an edit: `SnapshotIsFaithful`.
`AbortsAreClean` holds for every overlap.

**DelegatedKeys.** `KeysAreConsented` looks at the files and does not say what a
handler is about to write. `Consents` follows a consent on its way: what was
signed is recorded (`ConsentRecorded`), a handler past its check holds a statement
that was signed as it is (`HandlerVerified`), and so do the files
(`FileConsented`). The Agent in between is not trusted: what it forwards may
differ, and `Check` compares. `OnlyConsentedKeys` holds for any number of keys,
Servers and ceremonies open at once.
The other two theorems need the order of ceremonies (`OrderInv`): as long as no
two overlapped, what the latest one's handler installed or removed is so until
the next begins (`Installed`, `Removed`), a key that goes was asked to go
(`AskedFor`), and no enrollment in progress is shorter than the row promises
(`NotShorter`, from `ExpiriesBounded`).

**SignedRequests.** What makes a challenge serve once is a relation between
requests: past the nonce a request has used one of the Server it is at
(`NonceUsed`), so a second one finds it used; a task key in hand is not `pending`
any more, so a second one finds it taken. `IInv` adds that only gateways present a
challenge for a sync, that a task key in hand was made with the challenge it comes
with (`KeysWereMade`), and that only syncs push. A step is one of two kinds: nobody moves
(`NoneMoves`) or one request does (`OneMoves`), and each action is shown to meet
the premises of its kind. `ChallengeOnce` and `TaskKeyStaysConfined` follow for
any number of challenges, requests and Servers, where TLC takes two of each.

**RuleFiles and RestoreTarget** (FilesProof). For rules, `RulesFollow` says what
file, memory and the list an edit has loaded know of a name that no two edits
contest. Of the machine's (`MachineFollows`): what the acknowledged edits add up
to, or that plus the edit which is between assignment and rename. Of a user's
(`UserFollows`): no more than that, since an edit of another name may have loaded
half of a list; and just that as long as no edits overlap (`UserExact`).
`Overlaps` says which names are contested, `Doubled` that two edits that write at
once contest all, `UnreadableForNow` why a file does not decode. For restores,
`Received` says that the temporary tree of a restore holds what it has accepted,
unless an enclosing target was exchanged under it; with `TempWhileNeeded`,
`OldIsGone` and `LoneResult` a tree that is moved to its target is whole, and stays
when no other restore is beside it. `RestoredIsWhole` and `PartHasCause` are
inductive beside them: what a removal has begun is no restored tree any more, and
the removal, or its place in `cut`, is its cause.

**ConnPool, KeyEnrollment, TrustPolicy, RateLimiter** (PartsProof). The pool: from
the second look-up to the end of the dial one caller holds the lock, and the dial
follows a miss. Enrollment: renames are counted, a file is renamed only when its
bytes are stable, and what is enrolled, and did not go with the Agent's directory,
is followed on the disk only by later renames. Trust: the policy in force is the
completion of the one written and accepted last, and what it allowed is what that
one says. The limiter: since any tick before the last
request, admitted requests and the tokens left are no more than a full bucket and
what the rate has brought (`Earned`).

**The composition.** `PartsAreThemselves` shows that a behaviour of MCParts is a
behaviour of each of its seven parts, so that what is proved of a part holds where
the run checks it; `PartsTyped` states it for the types.

**Only model-checked.** Liveness: `StatusStreamEnds`, `TaskResolved`, `PushEnds`,
`RestoreEnds`, `StagingIsRemoved`; the provers know neither fairness nor ENABLED.
The properties of the violation runs are false, and not theorems. No module
declares a RECURSIVE operator. Induction over data is out of reach too; that is why
RateLimiter counts the admitted requests cumulatively, where a sum over the ticks
of a span would have to be folded.

## 6. Where code and documents disagree

Shown by a run:

* `sync_task_masked` (`orchestrator.go:234`): a replica that fails while another
  still works is overwritten in the shared tracker, and the task is announced as
  COMPLETED. `MaskedFailureLeavesError` shows that the row keeps the error text.
* `snapshot_clone_leak` (`svc/restore.go:68`): a Server that stops during a
  restore leaves its clone, which then pins a snapshot; nothing removes it.
* `backup_sync_nested` (`pkg/scanner/diff.go:68`): with a root inside another
  root, the outer diff deletes the inner root's files from the dataset.
* `backup_sync_overlap` (`scheduler/cron.go:56`): two syncs of one user that
  overlap may both succeed and leave a recorded file in no newest snapshot.
* `chunked_push_partial` (`receiver.go:193`): the staging file of an upload cut
  off by a Server stop is in every later snapshot and every restore.
* `signed_requests_gate` (`httpsapi/server.go:80`): the gate runs before the mux
  has set the path's user, so the HTTPS API answers 403 to every request; its
  tests set the value by hand.

Met while reading, and either built into the models or beside them:

* *Rules between attempts.* A file that the rules of a failing attempt left out may
  have lost its copy in the dataset while its row stayed: when the rules take it
  back it is skipped, and in no later snapshot, until it changes
  (`orchestrator.go:287`, `pkg/scanner/diff.go:67`). `dropped` marks those files.
* *Restores.* A restore of a directory inside another restore's target may report
  COMPLETED although files are missing: the outer one's `RemoveAll` takes its
  temporary directory with it, and `MkdirAll` makes a new one. `RestoredIsWhole`
  excepts that case (`Enclosed`). A failing chown of one of two restores of one
  target removes the other's completed tree. The signature of a restore request
  does not bind `target_path`; the home directory itself is accepted as a target. The
  errors of two `RemoveAll` are dropped (`orchestrator.go:686,744`): a part of a tree
  or the temporary directory may stay, and nothing tells.
* *Delegations.* `docs/security-model.md` says that the Agent retries a revocation
  in the background; no code does. DELETE names no Server, so the key stays with
  the Servers until it expires. A rotation overwrites the row, after which the old
  key cannot be revoked. A failed enrollment may leave its key on the Server.
  The expiry is computed twice (`cmd/dvault/main.go:490`, `webdelegation.go:40`):
  an enrollment across a second's boundary is refused.
* *Task keys.* A web sync is granted on one Server and pushes to all of them; the
  others refuse it unless they vouch for the user. A sync trigger without a server
  fails after its task key was consumed.
* *Trust.* Any `min_uid` is accepted, also a negative one or one between 1 and 999,
  which lets system accounts pass. An entry with `include` alone is
  completed with `min_uid` 1000, so every uid from 1000 on passes. Calls of the
  HTTPS API carry uid 0: a Server that vouches denies them unless the user is
  included by name.
* *Rules.* `AddMachineRule` validates nothing, and `LoadAgentConfig` refuses what
  it may have saved, so that the Agent does not start again. A failed save leaves
  the memory ahead of the file, and a later save writes the refused rule. A removed
  machine rule keeps its cron entry, an added one has none until the restart.
  `UserStore.Save` truncates in place and writes in pieces: of two edits that overlap
  one may load half of what the other writes and save it without the rest.
* *Enrollment.* `Enroll` syncs the Agent's directory but not the one it has made it in
  (`enrollment.go:73`): until the file system writes the entry, a power failure may
  take the first keys of an Agent.
* *Row writes.* A failed update of a task's row is ignored (`orchestrator.go:110`); the
  row says PENDING until the next start.
* *Process exit.* A call that dials after `ConnPool.Close` writes to a nil map.
* *Memory.* Rate buckets and expired task keys are never deleted.

## 7. Not modelled

* Pure conversions and one-shot commands: `WithinWindow` of the scheduler, quota
  numbers, the audit line, certificates (`pkg/pki`, `pkg/tlsconfig`), the start of
  the daemons, `zfs create` and `zfs set`, running a hook's command, the bandwidth
  limiter (it delays and never refuses), progress counters, texts of errors.
* The archive paths of roots (`pkg/scanner/namespace.go`) as text: two roots' paths
  are given as disjoint or nested sets.
* Cryptography: a signature is a value that says who signed what.
* Generated code, installation scripts.
* ZFS, SQLite, gRPC, the kernel and systemd are external; they appear as the code
  uses them: ZFS commands are atomic and may fail, one SQLite statement or
  transaction is one step (the handle has one connection), a message is delivered
  in order or the stream fails, a rename is atomic and reaches the disk when its
  directory is synced.
* Two tasks of one Agent that compete for CPU or connections; several users of one
  Server: their datasets, rows, keys and files are different.
* Four hazards have no property, since the code does what they say and promises no
  more: a stream is authorised once, at its start (`svc/backup.go:85`, as the comment
  there says it means to be); failed row updates are ignored; a large file edited
  while it is sent is published as a mixture, until the next scan; the dropped error of
  a revocation leaves the key with the Servers until it expires. The models contain
  the last three.

## 8. Plan

Done: the modules of section 2, each model-checked; theorems about the safety of
all of them.

To come, in this order: an abstract specification of a backup as a user sees it
(what is promised to be restorable, and since when), which BackupSync implements
under orderly histories; the same for the delegation of a key at one Server; a
composition of SignedRequests with ChunkedPush, where a grant ends while its stream
runs; KeyEnrollment for several accounts.
