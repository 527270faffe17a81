------------------------------ MODULE SyncTask ------------------------------
(***************************************************************************)
(* The life of a task in the Agent's Orchestrator: a sync fans out to one  *)
(* worker goroutine per configured Server, a restore is one goroutine.     *)
(* All goroutines of a task share one progress.Tracker, write the same row *)
(* of the SQLite table task_history, and report a failure through          *)
(* markFailed, whose three effects (tracker, row, operator hook) are three *)
(* separate critical sections.  The Agent may stop at any point: trackers  *)
(* and goroutines are lost, the rows stay.                                 *)
(***************************************************************************)
EXTENDS Naturals, FiniteSets

CONSTANTS
  SyncTasks,      \* task identifiers generateTaskID gives to RunSync
  RestoreTasks,   \* ... and to RunRestore
  Servers,        \* Cfg.Servers
  Caller,         \* the goroutine of runSync / RunRestore and runRestoreTask
  Waiter,         \* the goroutine that waits for every worker of a sync
  Delays,         \* positive delays the backoff may compute (its growth is abstracted)
  MaxElapsed,     \* Cfg.Retry.MaxElapsedTime, in units of Delays
  MaxTasks,       \* bound: tasks started
  MaxRoots,       \* bound: changed source roots of one attempt
  MaxCrashes,     \* bound: times the Agent stops
  MaxDBFaults     \* bound: task_history writes that fail

Tasks  == SyncTasks \cup RestoreTasks
Actors == Servers \cup {Caller, Waiter}

ASSUME TasksAssumption == SyncTasks \cap RestoreTasks = {}
\* runSync returns an error before it creates a task when no server is configured.
ASSUME ServersAssumption == Servers # {}
ASSUME ActorsAssumption == Caller \notin Servers /\ Waiter \notin Servers /\ Caller # Waiter
\* LoadAgentConfig refuses a retry block whose intervals are not positive.
ASSUME DelaysAssumption == Delays # {} /\ Delays \subseteq Nat \ {0}
ASSUME BoundsAssumption ==
  MaxElapsed \in Nat /\ MaxRoots \in Nat /\ MaxCrashes \in Nat /\ MaxDBFaults \in Nat

VARIABLES
  agentUp,    \* the Agent process is running
  crashes,    \* times it has stopped
  dbFaults,   \* writes to task_history that have failed
  pc,         \* pc[t][a]: where goroutine a of task t is
  tracker,    \* Orchestrator.tasks: the phase in the live tracker, or "NONE"
  row,        \* task_history: phase and whether the error column is set
  notified,   \* Orchestrator.failureNotified
  hookRuns,   \* times the operator's hook was started for the task
  elapsed,    \* elapsed[t][s]: Backoff.elapsed of worker s
  roots,      \* roots[t][s]: changed roots worker s has still to open a stream for
  good,       \* history: actors whose work succeeded
  bad,        \* history: actors that gave up with an error
  watch       \* what a client of GetSyncStatus last learnt

bounds == <<crashes, dbFaults>>
memory == <<tracker, notified>>
work   == <<elapsed, roots>>
ghosts == <<good, bad>>
vars   == <<agentUp, bounds, pc, memory, row, hookRuns, work, ghosts, watch>>

-----------------------------------------------------------------------------

NoTracker  == "NONE"
LivePhases == {"SCANNING", "TRANSFERRING", "COMPLETED", "FAILED"}
Terminal   == {"COMPLETED", "FAILED"}

Rows == [phase : {"NONE", "PENDING"} \cup Terminal, error : BOOLEAN]

Stages == {"idle", "insert", "load", "restore", "pull", "wait", "complete", "record",
           "attempt", "scanned", "totals", "push", "stream", "sleep",
           "failPhase", "failRow", "failNotify", "failed", "done", "gone"}

TypeOK ==
  /\ agentUp \in BOOLEAN
  /\ crashes \in 0..MaxCrashes
  /\ dbFaults \in 0..MaxDBFaults
  /\ pc \in [Tasks -> [Actors -> Stages]]
  /\ tracker \in [Tasks -> LivePhases \cup {NoTracker}]
  /\ row \in [Tasks -> Rows]
  /\ notified \subseteq Tasks
  /\ hookRuns \in [Tasks -> Nat]
  /\ elapsed \in [Tasks -> [Servers -> 0..MaxElapsed]]
  /\ roots \in [Tasks -> [Servers -> 0..MaxRoots]]
  /\ good \in [Tasks -> SUBSET Actors]
  /\ bad \in [Tasks -> SUBSET Actors]
  /\ watch \in [Tasks -> {"none", "watching", "broken"} \cup Terminal]

\* The actors that do a task's work: one per server, or the restore goroutine.
Runners(t) == IF t \in SyncTasks THEN Servers ELSE {Caller}

Started(t) == pc[t][Caller] # "idle"

Init ==
  /\ agentUp = TRUE
  /\ crashes = 0
  /\ dbFaults = 0
  /\ pc = [t \in Tasks |-> [a \in Actors |-> "idle"]]
  /\ tracker = [t \in Tasks |-> NoTracker]
  /\ row = [t \in Tasks |-> [phase |-> "NONE", error |-> FALSE]]
  /\ notified = {}
  /\ hookRuns = [t \in Tasks |-> 0]
  /\ elapsed = [t \in Tasks |-> [s \in Servers |-> 0]]
  /\ roots = [t \in Tasks |-> [s \in Servers |-> 0]]
  /\ good = [t \in Tasks |-> {}]
  /\ bad = [t \in Tasks |-> {}]
  /\ watch = [t \in Tasks |-> "none"]

-----------------------------------------------------------------------------
(* Helpers of the actions.                                                 *)

At(t, a, s)   == agentUp /\ pc[t][a] = s
Goto(t, a, s) == pc' = [pc EXCEPT ![t][a] = s]

\* progress.Tracker.SetPhase overwrites whatever phase is there.
SetPhase(t, p) == tracker' = [tracker EXCEPT ![t] = p]

Succeed(t, a) == good' = [good EXCEPT ![t] = @ \cup {a}]

\* Enter markFailed.
GiveUp(t, a) ==
  /\ Goto(t, a, "failPhase")
  /\ bad' = [bad EXCEPT ![t] = @ \cup {a}]
  /\ UNCHANGED good

\* An UPDATE of task_history: it fails, and the caller ignores the error, or it
\* takes effect if the row exists.
UpdateRow(t, r) ==
  \/ /\ row' = [row EXCEPT ![t] = IF @.phase = "NONE" THEN @ ELSE r]
     /\ UNCHANGED dbFaults
  \/ /\ dbFaults < MaxDBFaults
     /\ dbFaults' = dbFaults + 1
     /\ UNCHANGED row

\* As if Next did not compare the sum with MaxElapsed.
NextDelayUnbounded(e) == IF e >= MaxElapsed THEN {0} ELSE Delays

\* What Backoff.Next may return after e time units of delays: 0 is "give up".
NextDelay(e) ==
  IF e >= MaxElapsed THEN {0} ELSE {IF e + d > MaxElapsed THEN 0 ELSE d : d \in Delays}

-----------------------------------------------------------------------------
(* runSync and RunRestore.                                                 *)

\* A new task is registered with a tracker in phase SCANNING.
Start(t) ==
  /\ At(t, Caller, "idle")
  /\ Cardinality({u \in Tasks : Started(u)}) < MaxTasks
  /\ Goto(t, Caller, "insert")
  /\ SetPhase(t, "SCANNING")
  /\ UNCHANGED <<agentUp, bounds, notified, row, hookRuns, work, ghosts, watch>>

InsertTask(t) ==
  /\ At(t, Caller, "insert")
  /\ \/ /\ row' = [row EXCEPT ![t] = [phase |-> "PENDING", error |-> FALSE]]
        /\ Goto(t, Caller, "load")
        /\ UNCHANGED <<dbFaults, ghosts>>
     \/ /\ dbFaults < MaxDBFaults
        /\ dbFaults' = dbFaults + 1
        /\ GiveUp(t, Caller)
        /\ UNCHANGED row
  /\ UNCHANGED <<agentUp, crashes, memory, hookRuns, work, watch>>

\* runSync: user rules load and validate, then one worker per server and the waiter.
Launch(t) ==
  /\ t \in SyncTasks
  /\ At(t, Caller, "load")
  /\ pc' = [pc EXCEPT ![t] = [a \in Actors |-> CASE a \in Servers -> "attempt"
                                                 [] a = Waiter    -> "wait"
                                                 [] OTHER         -> "done"]]
  /\ UNCHANGED <<agentUp, bounds, memory, row, hookRuns, work, ghosts, watch>>

\* RunRestore: the target is valid; runRestoreTask starts.
LaunchRestore(t) ==
  /\ t \in RestoreTasks
  /\ At(t, Caller, "load")
  /\ Goto(t, Caller, "restore")
  /\ UNCHANGED <<agentUp, bounds, memory, row, hookRuns, work, ghosts, watch>>

\* Rules that do not load or validate, or a refused restore target.
RefuseTask(t) ==
  /\ At(t, Caller, "load")
  /\ GiveUp(t, Caller)
  /\ UNCHANGED <<agentUp, bounds, memory, row, hookRuns, work, watch>>

BeginRestore(t) ==
  /\ At(t, Caller, "restore")
  /\ SetPhase(t, "TRANSFERRING")
  /\ Goto(t, Caller, "pull")
  /\ UNCHANGED <<agentUp, bounds, notified, row, hookRuns, work, ghosts, watch>>

\* The server resolves, the stream runs to its last batch and the target is replaced, or not.
PullRestore(t) ==
  /\ At(t, Caller, "pull")
  /\ \/ Succeed(t, Caller) /\ Goto(t, Caller, "complete") /\ UNCHANGED bad
     \/ GiveUp(t, Caller)
  /\ UNCHANGED <<agentUp, bounds, memory, row, hookRuns, work, watch>>

-----------------------------------------------------------------------------
(* syncToServerWithRetry and syncToServer.                                 *)

\* An error that IsRetryable accepts: sleep for the next delay, or give up without one.
Transient(t, s) ==
  \E d \in NextDelay(elapsed[t][s]) :
    IF d = 0
      THEN GiveUp(t, s) /\ UNCHANGED elapsed
      ELSE /\ Goto(t, s, "sleep")
           /\ elapsed' = [elapsed EXCEPT ![t][s] = @ + d]
           /\ UNCHANGED ghosts

Permanent(t, s) == GiveUp(t, s) /\ UNCHANGED elapsed

\* Client, global config, rules, scan and diff of every root: the changed roots are known.
Scan(t, s) ==
  /\ At(t, s, "attempt")
  /\ \E n \in 0..MaxRoots : roots' = [roots EXCEPT ![t][s] = n]
  /\ Goto(t, s, "scanned")
  /\ UNCHANGED <<agentUp, bounds, memory, row, hookRuns, elapsed, ghosts, watch>>

AnnounceScan(t, s) ==
  /\ At(t, s, "scanned")
  /\ SetPhase(t, "SCANNING")
  /\ Goto(t, s, "totals")
  /\ UNCHANGED <<agentUp, bounds, notified, row, hookRuns, work, ghosts, watch>>

AnnounceTransfer(t, s) ==
  /\ At(t, s, "totals")
  /\ SetPhase(t, "TRANSFERRING")
  /\ Goto(t, s, "push")
  /\ UNCHANGED <<agentUp, bounds, notified, row, hookRuns, work, ghosts, watch>>

\* transport.PushBackup opens the stream for the next root and sets the phase again.
OpenStream(t, s) ==
  /\ At(t, s, "push")
  /\ roots[t][s] > 0
  /\ roots' = [roots EXCEPT ![t][s] = @ - 1]
  /\ SetPhase(t, "TRANSFERRING")
  /\ Goto(t, s, "stream")
  /\ UNCHANGED <<agentUp, bounds, notified, row, hookRuns, elapsed, ghosts, watch>>

\* The root is acknowledged and the local snapshot rows are updated.
RootPushed(t, s) ==
  /\ At(t, s, "stream")
  /\ Goto(t, s, "push")
  /\ UNCHANGED <<agentUp, bounds, memory, row, hookRuns, work, ghosts, watch>>

\* An error from the scan, from opening a stream or from the stream ends the attempt.
AttemptFails(t, s) ==
  /\ agentUp
  /\ \/ pc[t][s] \in {"attempt", "stream"}
     \/ pc[t][s] = "push" /\ roots[t][s] > 0
  /\ Transient(t, s) \/ Permanent(t, s)
  /\ UNCHANGED <<agentUp, bounds, memory, row, hookRuns, roots, watch>>

Wake(t, s) ==
  /\ At(t, s, "sleep")
  /\ Goto(t, s, "attempt")
  /\ UNCHANGED <<agentUp, bounds, memory, row, hookRuns, work, ghosts, watch>>

AttemptSucceeds(t, s) ==
  /\ At(t, s, "push")
  /\ roots[t][s] = 0
  /\ Succeed(t, s)
  /\ Goto(t, s, "done")
  /\ UNCHANGED <<agentUp, bounds, memory, row, hookRuns, work, bad, watch>>

-----------------------------------------------------------------------------
(* The waiter of runSync, and the completion it shares with runRestoreTask. *)

\* As if the waiter were released by the first worker (wg.Add outside the loop).
FirstWorkerFinished(t) == \E s \in Servers : pc[t][s] \in {"done", "failed"}

WorkersFinished(t) == \A s \in Servers : pc[t][s] \in {"done", "failed"}

\* wg.Wait returns and the tracker's phase is read.
WaiterWakes(t) ==
  /\ At(t, Waiter, "wait")
  /\ WorkersFinished(t)
  /\ Goto(t, Waiter, IF tracker[t] = "FAILED" THEN "done" ELSE "complete")
  /\ UNCHANGED <<agentUp, bounds, memory, row, hookRuns, work, ghosts, watch>>

Complete(t, a) ==
  /\ At(t, a, "complete")
  /\ SetPhase(t, "COMPLETED")
  /\ Goto(t, a, "record")
  /\ UNCHANGED <<agentUp, bounds, notified, row, hookRuns, work, ghosts, watch>>

\* As if UpdateTaskPhase cleared the error column.
RecordCompletedClearsError(t, a) ==
  /\ At(t, a, "record")
  /\ UpdateRow(t, [phase |-> "COMPLETED", error |-> FALSE])
  /\ Goto(t, a, "done")
  /\ UNCHANGED <<agentUp, crashes, memory, hookRuns, work, ghosts, watch>>

\* UpdateTaskPhase(COMPLETED) leaves the error column as it is.
RecordCompleted(t, a) ==
  /\ At(t, a, "record")
  /\ UpdateRow(t, [phase |-> "COMPLETED", error |-> row[t].error])
  /\ Goto(t, a, "done")
  /\ UNCHANGED <<agentUp, crashes, memory, hookRuns, work, ghosts, watch>>

-----------------------------------------------------------------------------
(* markFailed.                                                             *)

\* As if markFailed forgot the live tracker.
FailPhaseForgotten(t, a) ==
  /\ At(t, a, "failPhase")
  /\ Goto(t, a, "failRow")
  /\ UNCHANGED <<agentUp, bounds, memory, row, hookRuns, work, ghosts, watch>>

FailPhase(t, a) ==
  /\ At(t, a, "failPhase")
  /\ SetPhase(t, "FAILED")
  /\ Goto(t, a, "failRow")
  /\ UNCHANGED <<agentUp, bounds, notified, row, hookRuns, work, ghosts, watch>>

\* As if markFailed forgot the history row.
FailRowForgotten(t, a) ==
  /\ At(t, a, "failRow")
  /\ Goto(t, a, "failNotify")
  /\ UNCHANGED <<agentUp, bounds, memory, row, hookRuns, work, ghosts, watch>>

FailRow(t, a) ==
  /\ At(t, a, "failRow")
  /\ UpdateRow(t, [phase |-> "FAILED", error |-> TRUE])
  /\ Goto(t, a, "failNotify")
  /\ UNCHANGED <<agentUp, crashes, memory, hookRuns, work, ghosts, watch>>

\* As if every replica's failure ran the hook.
FailNotifyEach(t, a) ==
  /\ At(t, a, "failNotify")
  /\ notified' = notified \cup {t}
  /\ hookRuns' = [hookRuns EXCEPT ![t] = @ + 1]
  /\ Goto(t, a, "failed")
  /\ UNCHANGED <<agentUp, bounds, tracker, row, work, ghosts, watch>>

\* The test and the update of failureNotified are one critical section.
FailNotify(t, a) ==
  /\ At(t, a, "failNotify")
  /\ notified' = notified \cup {t}
  /\ hookRuns' = IF t \in notified THEN hookRuns ELSE [hookRuns EXCEPT ![t] = @ + 1]
  /\ Goto(t, a, "failed")
  /\ UNCHANGED <<agentUp, bounds, tracker, row, work, ghosts, watch>>

-----------------------------------------------------------------------------
(* GetSyncStatus and GetTrackerForUser.                                    *)

StartWatch(t) ==
  /\ agentUp
  /\ Started(t)
  /\ watch[t] = "none"
  /\ watch' = [watch EXCEPT ![t] = "watching"]
  /\ UNCHANGED <<agentUp, bounds, pc, memory, row, hookRuns, work, ghosts>>

\* As if a status query only looked at the database.
ReportedFromRow(t) == IF row[t].phase \in Terminal THEN row[t].phase ELSE "FAILED"

\* The phase a status query sees: the live tracker's, else one rebuilt from the row.
ReportedPhase(t) ==
  IF tracker[t] # NoTracker THEN tracker[t]
  ELSE IF row[t].phase \in Terminal THEN row[t].phase ELSE "FAILED"

\* One iteration of the status loop: the stream ends on a terminal phase or without a row.
Poll(t) ==
  /\ agentUp
  /\ watch[t] = "watching"
  /\ watch' = [watch EXCEPT ![t] =
                 IF row[t].phase = "NONE" THEN "broken"
                 ELSE IF ReportedPhase(t) \in Terminal THEN ReportedPhase(t)
                 ELSE @]
  /\ UNCHANGED <<agentUp, bounds, pc, memory, row, hookRuns, work, ghosts>>

-----------------------------------------------------------------------------
(* The Agent process.                                                      *)

\* Everything in memory is lost, status streams break, the database stays.
Crash ==
  /\ agentUp
  /\ crashes < MaxCrashes
  /\ agentUp' = FALSE
  /\ crashes' = crashes + 1
  /\ pc' = [t \in Tasks |-> IF Started(t) THEN [a \in Actors |-> "gone"] ELSE pc[t]]
  /\ tracker' = [t \in Tasks |-> NoTracker]
  /\ notified' = {}
  /\ watch' = [t \in Tasks |-> IF watch[t] = "watching" THEN "broken" ELSE watch[t]]
  /\ UNCHANGED <<dbFaults, row, hookRuns, work, ghosts>>

\* As if main did not call FailIncompleteTasks, and as if its WHERE clause were missing.
RestartLeavesRows ==
  /\ ~agentUp
  /\ agentUp' = TRUE
  /\ UNCHANGED <<bounds, pc, memory, row, hookRuns, work, ghosts, watch>>
RestartFailsAll ==
  /\ ~agentUp
  /\ agentUp' = TRUE
  /\ row' = [t \in Tasks |-> IF row[t].phase # "NONE"
                               THEN [phase |-> "FAILED", error |-> TRUE] ELSE row[t]]
  /\ UNCHANGED <<bounds, pc, memory, hookRuns, work, ghosts, watch>>

\* main calls FailIncompleteTasks before it serves; it exits if the update fails.
Restart ==
  /\ ~agentUp
  /\ agentUp' = TRUE
  /\ row' = [t \in Tasks |-> IF row[t].phase = "PENDING"
                               THEN [phase |-> "FAILED", error |-> TRUE] ELSE row[t]]
  /\ UNCHANGED <<bounds, pc, memory, hookRuns, work, ghosts, watch>>

-----------------------------------------------------------------------------

CallerStep(t) ==
  \/ InsertTask(t) \/ Launch(t) \/ LaunchRestore(t) \/ RefuseTask(t)
  \/ BeginRestore(t) \/ PullRestore(t)

WorkerStep(t, s) ==
  \/ Scan(t, s) \/ AnnounceScan(t, s) \/ AnnounceTransfer(t, s)
  \/ OpenStream(t, s) \/ RootPushed(t, s) \/ AttemptFails(t, s)
  \/ Wake(t, s) \/ AttemptSucceeds(t, s)

AnyActorStep(t, a) ==
  \/ Complete(t, a) \/ RecordCompleted(t, a)
  \/ FailPhase(t, a) \/ FailRow(t, a) \/ FailNotify(t, a)

Next ==
  \/ \E t \in Tasks : Start(t) \/ CallerStep(t) \/ WaiterWakes(t) \/ StartWatch(t) \/ Poll(t)
  \/ \E t \in Tasks, s \in Servers : WorkerStep(t, s)
  \/ \E t \in Tasks, a \in Actors : AnyActorStep(t, a)
  \/ Crash
  \/ Restart

Spec == Init /\ [][Next]_vars

\* Goroutines are scheduled, every RPC has a deadline (30 s, 10 min) and every delay
\* ends; the status loop polls each second; systemd restarts the Agent (Restart=always).
\* Nothing obliges anyone to start a task or to ask for its status.
Fairness ==
  /\ \A t \in Tasks :
       /\ WF_vars(CallerStep(t))
       /\ WF_vars(WaiterWakes(t))
       /\ WF_vars(Poll(t))
       /\ \A s \in Servers : WF_vars(WorkerStep(t, s))
       /\ \A a \in Actors : WF_vars(AnyActorStep(t, a))
  /\ WF_vars(Restart)

FairSpec == Spec /\ Fairness

-----------------------------------------------------------------------------
(* Properties.                                                             *)

\* Whoever is told COMPLETED (the row, the live tracker, a status client) is told so only
\* after every worker of the task has ended, and when at least one of them succeeded: a
\* late SetPhase of a worker may overwrite FAILED, but the last worker to fail writes last.
CompletedIsHonest ==
  \A t \in Tasks :
    "COMPLETED" \in {row[t].phase, tracker[t], watch[t]} =>
      /\ good[t] \cup bad[t] = Runners(t)
      /\ good[t] # {}

\* FAILED is never invented: some goroutine of the task gave up, or the Agent stopped
\* after the task had started (FailIncompleteTasks, or a status rebuilt from the row).
FailedHasCause ==
  \A t \in Tasks :
    "FAILED" \in {row[t].phase, tracker[t], watch[t]} =>
      bad[t] # {} \/ pc[t][Caller] = "gone"

\* markFailed starts the operator's hook exactly once for a task, however many replicas
\* fail in parallel, and every goroutine that has left markFailed has been reported.
FailureNotified ==
  \A t \in Tasks :
    /\ hookRuns[t] <= 1
    /\ hookRuns[t] = 1 => bad[t] # {}
    /\ (\E a \in Actors : pc[t][a] = "failed") => hookRuns[t] = 1

\* A PENDING row belongs to a task with a live tracker whenever the Agent serves: the
\* case GetTrackerForUser calls "a process that stopped before FailIncompleteTasks
\* could run" does not arise.
NoOrphanRow ==
  agentUp => \A t \in Tasks : row[t].phase = "PENDING" => tracker[t] # NoTracker

\* A row that says COMPLETED although a replica failed still carries that replica's
\* error, unless the write of the failure was lost.
MaskedFailureLeavesError ==
  \A t \in Tasks :
    row[t].phase = "COMPLETED" /\ bad[t] # {} /\ dbFaults = 0 => row[t].error

\* No later step, crash or restart rewrites the row of a completed task.
CompletedIsFinal ==
  [][\A t \in Tasks : row[t].phase = "COMPLETED" => row'[t] = row[t]]_vars

\* A status stream ends: with a terminal phase, or broken because the Agent stopped or
\* the row was never written.
StatusStreamEnds == \A t \in Tasks : watch[t] = "watching" ~> watch[t] # "watching"

\* A recorded task reaches a terminal phase in the database, if its writes are not lost.
TaskResolved ==
  \A t \in Tasks : row[t].phase = "PENDING" ~> (row[t].phase \in Terminal \/ dbFaults > 0)

\* What pusher.go promises of the terminal read of the stream: "a snapshot/retention
\* failure cannot be reported as a successful backup".  The shared tracker breaks it.
FailureNotReportedAsSuccess ==
  \A t \in Tasks : "COMPLETED" \in {tracker[t], watch[t]} => bad[t] = {}

=============================================================================
