---------------------------- MODULE SyncTaskProof ----------------------------
(***************************************************************************)
(* Proofs about SyncTask, for any set of tasks and servers and any bounds. *)
(* IInv is the inductive invariant behind the safety properties: it says   *)
(* which goroutines may be where (Shape), what each place implies for the  *)
(* histories and the hook (Account), and who wrote the shared tracker last *)
(* (LastWriter).                                                           *)
(***************************************************************************)
EXTENDS SyncTask, TLAPS

FailStages   == {"failPhase", "failRow", "failNotify", "failed"}
CallerStages == {"idle", "insert", "load", "restore", "pull", "complete", "record",
                 "done", "gone"} \cup FailStages
WorkerStages == {"idle", "attempt", "scanned", "totals", "push", "stream", "sleep",
                 "done", "gone"} \cup FailStages
WaiterStages == {"idle", "wait", "complete", "record", "done", "gone"}

\* A sync's workers and waiter exist only once its caller has returned.
Launched(t) == t \in SyncTasks /\ pc[t][Caller] = "done"

Shape(t) ==
  /\ pc[t][Caller] \in CallerStages
  /\ pc[t][Waiter] \in WaiterStages
  /\ \A s \in Servers : pc[t][s] \in WorkerStages
  /\ t \in SyncTasks => pc[t][Caller] \notin {"restore", "pull", "complete", "record"}
  /\ Launched(t) => /\ pc[t][Waiter] \notin {"idle", "gone"}
                    /\ \A s \in Servers : pc[t][s] \notin {"idle", "gone"}
  /\ ~Launched(t) => /\ pc[t][Waiter] \in {"idle", "gone"}
                     /\ \A s \in Servers : pc[t][s] \in {"idle", "gone"}
  /\ ~agentUp => pc[t][Caller] \in {"idle", "gone"}
  /\ tracker[t] = NoTracker <=> pc[t][Caller] \in {"idle", "gone"}
  /\ row[t].phase # "NONE" => pc[t][Caller] # "idle"
  /\ watch[t] # "none" => pc[t][Caller] # "idle"
  /\ agentUp /\ pc[t][Caller] = "gone" => row[t].phase # "PENDING"

Account(t) ==
  /\ pc[t][Caller] \in FailStages => Caller \in bad[t]
  /\ \A s \in Servers : pc[t][s] \in FailStages => s \in bad[t]
  /\ \A s \in Servers : pc[t][s] = "done" => s \in good[t]
  /\ pc[t][Caller] \in {"idle", "insert", "load"} => good[t] = {} /\ bad[t] = {}
  /\ Launched(t) => bad[t] \subseteq Servers
  /\ t \in SyncTasks => good[t] \subseteq Servers
  /\ t \in RestoreTasks => good[t] \cup bad[t] \subseteq {Caller}
  /\ pc[t][Caller] \in {"complete", "record"} => Caller \in good[t]
  /\ t \in notified => hookRuns[t] = 1
  /\ hookRuns[t] \in {0, 1}
  /\ hookRuns[t] = 1 => bad[t] # {}
  /\ hookRuns[t] = 1 /\ t \notin notified => pc[t][Caller] = "gone"
  /\ pc[t][Caller] = "failed" => t \in notified
  /\ \A s \in Servers : pc[t][s] = "failed" => t \in notified

\* While the waiter waits, a tracker that every worker has marked FAILED stays FAILED;
\* so a waiter that reads another phase knows that some worker succeeded.
LastWriter(t) ==
  /\ pc[t][Waiter] = "wait" /\ (\A s \in Servers : pc[t][s] \in {"failRow", "failNotify", "failed"})
       => tracker[t] = "FAILED"
  /\ pc[t][Waiter] \in {"complete", "record"} => WorkersFinished(t) /\ good[t] # {}
  /\ tracker[t] = "FAILED" => bad[t] # {}
  /\ "FAILED" \in {row[t].phase, watch[t]} => bad[t] # {} \/ pc[t][Caller] = "gone"

\* COMPLETED is written by the last goroutine of a task that does anything.
Closed(t) ==
  "COMPLETED" \in {row[t].phase, tracker[t], watch[t]} =>
    /\ pc[t][Caller] \in {"record", "done", "gone"}
    /\ Launched(t) => WorkersFinished(t)
    /\ good[t] \cup bad[t] = Runners(t)
    /\ good[t] # {}

TaskInv(t) == Shape(t) /\ Account(t) /\ LastWriter(t) /\ Closed(t)

IInv == TypeOK /\ \A t \in Tasks : TaskInv(t)

-----------------------------------------------------------------------------
(* Types.                                                                  *)

LEMMA ActorFacts ==
  /\ Caller \in Actors /\ Waiter \in Actors /\ Caller # Waiter
  /\ Caller \notin Servers /\ Waiter \notin Servers
  /\ \A s \in Servers : s \in Actors
BY ActorsAssumption DEF Actors

LEMMA DelayFacts ==
  ASSUME NEW e \in 0..MaxElapsed, NEW d \in NextDelay(e), d # 0
  PROVE  e + d \in 0..MaxElapsed
BY DelaysAssumption, BoundsAssumption DEF NextDelay

\* Counters that move by one inside their bounds.
LEMMA IntervalFacts ==
  ASSUME NEW n \in Nat, NEW i \in 0..n
  PROVE  /\ 0 \in 0..n
         /\ i < n => i + 1 \in 0..n
         /\ i > 0 => i - 1 \in 0..n
OBVIOUS

LEMMA InitType == Init => TypeOK
<1> SUFFICES ASSUME Init PROVE TypeOK
  OBVIOUS
<1>1. 0 \in 0..MaxCrashes /\ 0 \in 0..MaxDBFaults /\ 0 \in 0..MaxElapsed /\ 0 \in 0..MaxRoots
  BY BoundsAssumption
<1> QED
  BY <1>1 DEF Init, TypeOK, Stages, Terminal, LivePhases, NoTracker, Rows

\* A write of task_history leaves a well-typed row.
LEMMA UpdateRowType ==
  ASSUME TypeOK, NEW t \in Tasks, NEW STATE r, r \in Rows, UpdateRow(t, r)
  PROVE  row' \in [Tasks -> Rows] /\ dbFaults' \in 0..MaxDBFaults
<1>1. dbFaults < MaxDBFaults => dbFaults + 1 \in 0..MaxDBFaults
  BY BoundsAssumption, IntervalFacts DEF TypeOK
<1>2. CASE UNCHANGED row
  BY <1>1, <1>2 DEF TypeOK, UpdateRow
<1>3. CASE row' = [row EXCEPT ![t] = IF @.phase = "NONE" THEN @ ELSE r]
  BY <1>1, <1>3 DEF TypeOK, UpdateRow
<1> QED
  BY <1>2, <1>3 DEF UpdateRow

\* Entering markFailed keeps the types.
LEMMA GiveUpType ==
  ASSUME TypeOK, NEW t \in Tasks, NEW a \in Actors, GiveUp(t, a)
  PROVE  /\ pc' \in [Tasks -> [Actors -> Stages]]
         /\ good' \in [Tasks -> SUBSET Actors]
         /\ bad' \in [Tasks -> SUBSET Actors]
<1>1. pc' \in [Tasks -> [Actors -> Stages]]
  BY DEF GiveUp, Goto, TypeOK, Stages
<1>2. bad[t] \cup {a} \in SUBSET Actors
  BY DEF TypeOK
<1>3. bad' \in [Tasks -> SUBSET Actors]
  BY <1>2 DEF GiveUp, TypeOK
<1> QED
  BY <1>1, <1>3 DEF GiveUp, TypeOK

LEMMA NextType == TypeOK /\ [Next]_vars => TypeOK'
<1> SUFFICES ASSUME TypeOK, [Next]_vars PROVE TypeOK'
  OBVIOUS
<1> DEFINE ActorTypes == /\ pc' \in [Tasks -> [Actors -> Stages]]
                         /\ good' \in [Tasks -> SUBSET Actors]
                         /\ bad' \in [Tasks -> SUBSET Actors]
<1>0. ASSUME NEW t \in Tasks, NEW a \in Actors, GiveUp(t, a) PROVE ActorTypes
  BY <1>0, GiveUpType
<1> USE ActorFacts, BoundsAssumption
    DEF TypeOK, Stages, Terminal, LivePhases, NoTracker, At, Goto, SetPhase, Succeed,
        bounds, memory, work, ghosts
<1>1. ASSUME NEW t \in Tasks, Start(t) PROVE TypeOK'
  BY <1>1 DEF Start
<1>2. ASSUME NEW t \in Tasks, CallerStep(t) PROVE TypeOK'
  <2>1. CASE InsertTask(t)
    <3>1. [phase |-> "PENDING", error |-> FALSE] \in Rows
      BY DEF Rows
    <3>2. dbFaults < MaxDBFaults => dbFaults + 1 \in 0..MaxDBFaults
      BY IntervalFacts
    <3>3. CASE /\ row' = [row EXCEPT ![t] = [phase |-> "PENDING", error |-> FALSE]]
               /\ Goto(t, Caller, "load")
               /\ UNCHANGED <<dbFaults, ghosts>>
      <4>1. row' \in [Tasks -> Rows]
        BY <3>1, <3>3
      <4> QED
        BY <2>1, <3>3, <4>1 DEF InsertTask
    <3>4. CASE GiveUp(t, Caller) /\ dbFaults < MaxDBFaults /\ dbFaults' = dbFaults + 1
               /\ UNCHANGED row
      BY <1>0, <2>1, <3>2, <3>4 DEF InsertTask
    <3> QED
      BY <2>1, <3>3, <3>4 DEF InsertTask
  <2>2. CASE Launch(t)
    BY <2>2 DEF Launch
  <2>3. CASE LaunchRestore(t)
    BY <2>3 DEF LaunchRestore
  <2>4. CASE RefuseTask(t)
    BY <1>0, <2>4 DEF RefuseTask
  <2>5. CASE BeginRestore(t)
    BY <2>5 DEF BeginRestore
  <2>6. CASE PullRestore(t)
    <3>1. CASE GiveUp(t, Caller)
      BY <1>0, <2>6, <3>1 DEF PullRestore
    <3>2. CASE Succeed(t, Caller) /\ Goto(t, Caller, "complete") /\ UNCHANGED bad
      <4>1. good[t] \cup {Caller} \in SUBSET Actors
        OBVIOUS
      <4> QED
        BY <2>6, <3>2, <4>1 DEF PullRestore
    <3> QED
      BY <2>6, <3>1, <3>2 DEF PullRestore
  <2> QED
    BY <1>2, <2>1, <2>2, <2>3, <2>4, <2>5, <2>6 DEF CallerStep
<1>3. ASSUME NEW t \in Tasks, WaiterWakes(t) PROVE TypeOK'
  BY <1>3 DEF WaiterWakes
<1>4. ASSUME NEW t \in Tasks, StartWatch(t) PROVE TypeOK'
  BY <1>4 DEF StartWatch
<1>5. ASSUME NEW t \in Tasks, Poll(t) PROVE TypeOK'
  BY <1>5 DEF Poll, ReportedPhase
<1>6. ASSUME NEW t \in Tasks, NEW s \in Servers, WorkerStep(t, s) PROVE TypeOK'
  <2>1. CASE Scan(t, s)
    BY <2>1 DEF Scan
  <2>2. CASE AnnounceScan(t, s)
    BY <2>2 DEF AnnounceScan
  <2>3. CASE AnnounceTransfer(t, s)
    BY <2>3 DEF AnnounceTransfer
  <2>4. CASE OpenStream(t, s)
    <3>1. roots[t][s] - 1 \in 0..MaxRoots
      BY <2>4, IntervalFacts DEF OpenStream
    <3> QED
      BY <2>4, <3>1 DEF OpenStream
  <2>5. CASE RootPushed(t, s)
    BY <2>5 DEF RootPushed
  <2>6. CASE AttemptFails(t, s)
    <3>1. CASE GiveUp(t, s) /\ UNCHANGED elapsed
      BY <1>0, <2>6, <3>1 DEF AttemptFails
    <3>2. ASSUME NEW d \in NextDelay(elapsed[t][s]), d # 0,
                 Goto(t, s, "sleep"), elapsed' = [elapsed EXCEPT ![t][s] = @ + d],
                 UNCHANGED ghosts
          PROVE  TypeOK'
      <4>1. elapsed[t][s] + d \in 0..MaxElapsed
        BY <3>2, DelayFacts
      <4> QED
        BY <2>6, <3>2, <4>1 DEF AttemptFails
    <3> QED
      BY <2>6, <3>1, <3>2 DEF AttemptFails, Transient, Permanent
  <2>7. CASE Wake(t, s)
    BY <2>7 DEF Wake
  <2>8. CASE AttemptSucceeds(t, s)
    BY <2>8 DEF AttemptSucceeds
  <2> QED
    BY <1>6, <2>1, <2>2, <2>3, <2>4, <2>5, <2>6, <2>7, <2>8 DEF WorkerStep
<1>7. ASSUME NEW t \in Tasks, NEW a \in Actors, AnyActorStep(t, a) PROVE TypeOK'
  <2>1. CASE Complete(t, a)
    BY <2>1 DEF Complete
  <2>2. CASE RecordCompleted(t, a)
    BY <2>2, UpdateRowType DEF RecordCompleted, Rows
  <2>3. CASE FailPhase(t, a)
    BY <2>3 DEF FailPhase
  <2>4. CASE FailRow(t, a)
    BY <2>4, UpdateRowType DEF FailRow, Rows
  <2>5. CASE FailNotify(t, a)
    BY <2>5 DEF FailNotify
  <2> QED
    BY <1>7, <2>1, <2>2, <2>3, <2>4, <2>5 DEF AnyActorStep
<1>8. CASE Crash
  <2>1. crashes + 1 \in 0..MaxCrashes
    BY <1>8, IntervalFacts DEF Crash
  <2> QED
    BY <1>8, <2>1 DEF Crash
<1>9. CASE Restart
  BY <1>9 DEF Restart, Rows
<1>10. CASE UNCHANGED vars
  BY <1>10 DEF vars
<1> QED
  BY <1>1, <1>2, <1>3, <1>4, <1>5, <1>6, <1>7, <1>8, <1>9, <1>10 DEF Next

\* Every variable keeps its type: in particular no backoff sleeps longer in total than
\* MaxElapsedTime, whatever the jitter (Backoff.Next).
THEOREM TypeCorrect == Spec => []TypeOK
BY InitType, NextType, PTL DEF Spec

-----------------------------------------------------------------------------
(* The inductive invariant: steps of one task.                             *)

\* Everything TaskInv(t) reads is as before.
Untouched(t) ==
  /\ UNCHANGED <<agentUp, pc[t], tracker[t], row[t], hookRuns[t], good[t], bad[t], watch[t]>>
  /\ t \in notified' <=> t \in notified

\* One goroutine of the task moves, the others stay.
CallerMoves(t, stage) ==
  /\ pc'[t][Caller] = stage
  /\ pc'[t][Waiter] = pc[t][Waiter]
  /\ \A b \in Servers : pc'[t][b] = pc[t][b]
WaiterMoves(t, stage) ==
  /\ pc'[t][Caller] = pc[t][Caller]
  /\ pc'[t][Waiter] = stage
  /\ \A b \in Servers : pc'[t][b] = pc[t][b]
WorkerMoves(t, s, stage) ==
  /\ pc'[t][Caller] = pc[t][Caller]
  /\ pc'[t][Waiter] = pc[t][Waiter]
  /\ \A b \in Servers : pc'[t][b] = IF b = s THEN stage ELSE pc[t][b]

LEMMA GotoMoves ==
  ASSUME TypeOK, NEW t \in Tasks, NEW a \in Actors, NEW STATE stage, Goto(t, a, stage)
  PROVE  /\ a = Caller => CallerMoves(t, stage)
         /\ a = Waiter => WaiterMoves(t, stage)
         /\ a \in Servers => WorkerMoves(t, a, stage)
         /\ \A u \in Tasks \ {t} : pc'[u] = pc[u]
BY ActorFacts DEF TypeOK, Goto, CallerMoves, WaiterMoves, WorkerMoves

LEMMA UntouchedInv ==
  ASSUME NEW t \in Tasks, TaskInv(t), Untouched(t)
  PROVE  TaskInv(t)'
BY DEF TaskInv, Shape, Account, LastWriter, Closed, Launched, WorkersFinished, Untouched, Runners

Busy == {"attempt", "scanned", "totals", "push", "stream", "sleep"}

\* A worker that is not in a final stage: its task is launched, waited for and open.
LEMMA BusyFacts ==
  ASSUME NEW t \in Tasks, TaskInv(t), NEW s \in Servers,
         pc[t][s] \in Busy \cup {"failPhase", "failRow", "failNotify"}
  PROVE  /\ Launched(t) /\ agentUp
         /\ ~WorkersFinished(t)
         /\ pc[t][Waiter] \in {"wait", "done"}
         /\ "COMPLETED" \notin {row[t].phase, tracker[t], watch[t]}
<1>1. Launched(t)
  BY DEF TaskInv, Shape, Busy
<1>2. ~WorkersFinished(t)
  BY DEF WorkersFinished, Busy
<1>3. agentUp
  BY <1>1 DEF TaskInv, Shape, Launched
<1>4. pc[t][Waiter] \in {"wait", "done"}
  BY <1>1, <1>2 DEF TaskInv, Shape, LastWriter, WaiterStages
<1> QED
  BY <1>1, <1>2, <1>3, <1>4 DEF TaskInv, Closed

\* A worker at work: it moves on and may show progress in the tracker.
LEMMA WorkerWorks ==
  ASSUME NEW t \in Tasks, TaskInv(t), NEW s \in Servers, NEW STATE stage,
         pc[t][s] \in Busy, stage \in Busy, WorkerMoves(t, s, stage),
         tracker'[t] \in {tracker[t], "SCANNING", "TRANSFERRING"},
         UNCHANGED <<agentUp, row[t], notified, hookRuns[t], good[t], bad[t], watch[t]>>
  PROVE  TaskInv(t)'
<1>0. Launched(t) /\ agentUp /\ ~WorkersFinished(t) /\ pc[t][Waiter] \in {"wait", "done"}
      /\ "COMPLETED" \notin {row[t].phase, tracker[t], watch[t]}
  BY BusyFacts
<1>1. Launched(t)' /\ pc'[t][s] = stage /\ tracker[t] # NoTracker
  BY <1>0 DEF Launched, WorkerMoves, TaskInv, Shape
<1>2. Shape(t)'
  BY <1>0, <1>1 DEF Shape, TaskInv, Launched, WorkerMoves, WorkerStages, Busy, NoTracker
<1>3. Account(t)'
  BY <1>0, <1>1 DEF Account, TaskInv, Launched, WorkerMoves, FailStages, Busy
<1>4. LastWriter(t)'
  BY <1>0, <1>1 DEF LastWriter, TaskInv, Launched, WorkerMoves, Busy
<1>5. Closed(t)'
  BY <1>0 DEF Closed, TaskInv
<1> QED
  BY <1>2, <1>3, <1>4, <1>5 DEF TaskInv

\* A worker leaves the work with success, or enters markFailed.
LEMMA WorkerEnds ==
  ASSUME NEW t \in Tasks, TaskInv(t), NEW s \in Servers, pc[t][s] \in Busy,
         \/ /\ WorkerMoves(t, s, "done")
            /\ good'[t] = good[t] \cup {s} /\ bad'[t] = bad[t]
         \/ /\ WorkerMoves(t, s, "failPhase")
            /\ good'[t] = good[t] /\ bad'[t] = bad[t] \cup {s},
         UNCHANGED <<agentUp, row[t], tracker[t], notified, hookRuns[t], watch[t]>>
  PROVE  TaskInv(t)'
<1>0. Launched(t) /\ agentUp /\ ~WorkersFinished(t) /\ pc[t][Waiter] \in {"wait", "done"}
      /\ "COMPLETED" \notin {row[t].phase, tracker[t], watch[t]}
  BY BusyFacts
<1>1. Launched(t)' /\ pc'[t][s] \in {"done", "failPhase"} /\ t \notin RestoreTasks
  BY <1>0, TasksAssumption DEF Launched, WorkerMoves
<1>2. Shape(t)'
  BY <1>0, <1>1 DEF Shape, TaskInv, Launched, WorkerMoves, WorkerStages, FailStages
<1>3. Account(t)'
  BY <1>0, <1>1 DEF Account, TaskInv, Launched, WorkerMoves, FailStages, Busy
<1>4. LastWriter(t)'
  BY <1>0, <1>1 DEF LastWriter, TaskInv, Launched, WorkerMoves
<1>5. Closed(t)'
  BY <1>0 DEF Closed, TaskInv
<1> QED
  BY <1>2, <1>3, <1>4, <1>5 DEF TaskInv

\* A worker inside markFailed.
LEMMA WorkerFails ==
  ASSUME NEW t \in Tasks, TaskInv(t), NEW s \in Servers,
         \/ /\ pc[t][s] = "failPhase" /\ WorkerMoves(t, s, "failRow")
            /\ tracker'[t] = "FAILED"
            /\ UNCHANGED <<row[t], notified, hookRuns[t]>>
         \/ /\ pc[t][s] = "failRow" /\ WorkerMoves(t, s, "failNotify")
            /\ \/ row'[t] = row[t]
               \/ row[t].phase # "NONE" /\ row'[t].phase = "FAILED"
            /\ UNCHANGED <<tracker[t], notified, hookRuns[t]>>
         \/ /\ pc[t][s] = "failNotify" /\ WorkerMoves(t, s, "failed")
            /\ notified' = notified \cup {t}
            /\ hookRuns'[t] = IF t \in notified THEN hookRuns[t] ELSE hookRuns[t] + 1
            /\ UNCHANGED <<row[t], tracker[t]>>,
         UNCHANGED <<agentUp, good[t], bad[t], watch[t]>>
  PROVE  TaskInv(t)'
<1>0. Launched(t) /\ agentUp /\ ~WorkersFinished(t) /\ pc[t][Waiter] \in {"wait", "done"}
      /\ "COMPLETED" \notin {row[t].phase, tracker[t], watch[t]}
  BY BusyFacts
<1>1. Launched(t)' /\ pc'[t][s] \in {"failRow", "failNotify", "failed"}
      /\ tracker[t] # NoTracker /\ s \in bad[t]
  BY <1>0 DEF Launched, WorkerMoves, TaskInv, Shape, Account, FailStages
<1>2. Shape(t)'
  BY <1>0, <1>1 DEF Shape, TaskInv, Launched, WorkerMoves, WorkerStages, FailStages, NoTracker
<1>3. Account(t)'
  BY <1>0, <1>1 DEF Account, TaskInv, Launched, WorkerMoves, FailStages
<1>4. LastWriter(t)'
  <2>1. CASE pc[t][s] = "failPhase"
    BY <2>1, <1>0, <1>1 DEF LastWriter, TaskInv, Launched, WorkerMoves
  <2>2. CASE pc[t][s] \in {"failRow", "failNotify"}
    BY <2>2, <1>0, <1>1 DEF LastWriter, TaskInv, Launched, WorkerMoves
  <2> QED
    BY <2>1, <2>2
<1>5. Closed(t)'
  BY <1>0 DEF Closed, TaskInv
<1> QED
  BY <1>2, <1>3, <1>4, <1>5 DEF TaskInv

\* The caller's goroutine before the workers exist, and a restore's throughout: nothing
\* else of the task runs, and COMPLETED has not been written.
LEMMA CallerFacts ==
  ASSUME NEW t \in Tasks, TaskInv(t),
         pc[t][Caller] \in {"insert", "load", "restore", "pull", "complete",
                            "failPhase", "failRow", "failNotify"}
  PROVE  /\ ~Launched(t) /\ agentUp /\ tracker[t] # NoTracker
         /\ pc[t][Waiter] \in {"idle", "gone"}
         /\ \A s \in Servers : pc[t][s] \in {"idle", "gone"}
         /\ "COMPLETED" \notin {row[t].phase, tracker[t], watch[t]}
BY DEF TaskInv, Shape, Closed, Launched

\* The caller on the way to the launch, or a restore on the way to its end.
LEMMA CallerWorks ==
  ASSUME NEW t \in Tasks, TaskInv(t),
         \/ /\ pc[t][Caller] = "insert" /\ CallerMoves(t, "load")
            /\ row'[t].phase = "PENDING" /\ UNCHANGED <<tracker[t], good[t]>>
         \/ /\ pc[t][Caller] = "load" /\ CallerMoves(t, "restore") /\ t \in RestoreTasks
            /\ UNCHANGED <<row[t], tracker[t], good[t]>>
         \/ /\ pc[t][Caller] = "restore" /\ CallerMoves(t, "pull")
            /\ tracker'[t] = "TRANSFERRING" /\ UNCHANGED <<row[t], good[t]>>
         \/ /\ pc[t][Caller] = "pull" /\ CallerMoves(t, "complete")
            /\ good'[t] = good[t] \cup {Caller} /\ UNCHANGED <<row[t], tracker[t]>>,
         UNCHANGED <<agentUp, notified, hookRuns[t], bad[t], watch[t]>>
  PROVE  TaskInv(t)'
<1>0. /\ ~Launched(t) /\ agentUp /\ tracker[t] # NoTracker
      /\ pc[t][Waiter] \in {"idle", "gone"}
      /\ \A s \in Servers : pc[t][s] \in {"idle", "gone"}
      /\ "COMPLETED" \notin {row[t].phase, tracker[t], watch[t]}
  BY CallerFacts
<1>1. /\ ~Launched(t)' /\ pc'[t][Caller] \in {"load", "restore", "pull", "complete"}
      /\ pc'[t][Waiter] \in {"idle", "gone"}
      /\ \A s \in Servers : pc'[t][s] \in {"idle", "gone"}
  BY <1>0 DEF Launched, CallerMoves
<1>2. t \in SyncTasks => pc'[t][Caller] = "load"
  BY <1>1, TasksAssumption DEF CallerMoves, TaskInv, Shape
<1>3. Shape(t)'
  BY <1>0, <1>1, <1>2 DEF Shape, TaskInv, WorkerStages, WaiterStages, CallerStages, NoTracker
<1>4. Account(t)'
  BY <1>0, <1>1, <1>2 DEF Account, TaskInv, CallerMoves, FailStages, Shape
<1>5. LastWriter(t)'
  BY <1>0, <1>1 DEF LastWriter, TaskInv, CallerMoves
<1>6. Closed(t)'
  BY <1>0 DEF Closed, TaskInv
<1> QED
  BY <1>3, <1>4, <1>5, <1>6 DEF TaskInv

\* The caller enters markFailed and goes through it.
LEMMA CallerFails ==
  ASSUME NEW t \in Tasks, TaskInv(t),
         \/ /\ pc[t][Caller] \in {"insert", "load", "pull"} /\ CallerMoves(t, "failPhase")
            /\ bad'[t] = bad[t] \cup {Caller}
            /\ UNCHANGED <<row[t], tracker[t], notified, hookRuns[t]>>
         \/ /\ pc[t][Caller] = "failPhase" /\ CallerMoves(t, "failRow")
            /\ tracker'[t] = "FAILED"
            /\ UNCHANGED <<row[t], notified, hookRuns[t], bad[t]>>
         \/ /\ pc[t][Caller] = "failRow" /\ CallerMoves(t, "failNotify")
            /\ \/ row'[t] = row[t]
               \/ row[t].phase # "NONE" /\ row'[t].phase = "FAILED"
            /\ UNCHANGED <<tracker[t], notified, hookRuns[t], bad[t]>>
         \/ /\ pc[t][Caller] = "failNotify" /\ CallerMoves(t, "failed")
            /\ notified' = notified \cup {t}
            /\ hookRuns'[t] = IF t \in notified THEN hookRuns[t] ELSE hookRuns[t] + 1
            /\ UNCHANGED <<row[t], tracker[t], bad[t]>>,
         UNCHANGED <<agentUp, good[t], watch[t]>>
  PROVE  TaskInv(t)'
<1>0. /\ ~Launched(t) /\ agentUp /\ tracker[t] # NoTracker
      /\ pc[t][Waiter] \in {"idle", "gone"}
      /\ \A s \in Servers : pc[t][s] \in {"idle", "gone"}
      /\ "COMPLETED" \notin {row[t].phase, tracker[t], watch[t]}
  BY CallerFacts
<1>1. /\ ~Launched(t)' /\ pc'[t][Caller] \in {"failPhase", "failRow", "failNotify", "failed"}
      /\ pc'[t][Waiter] \in {"idle", "gone"}
      /\ \A s \in Servers : pc'[t][s] \in {"idle", "gone"}
  BY <1>0 DEF Launched, CallerMoves
<1>2. Caller \in bad'[t]
  BY DEF TaskInv, Account, FailStages
<1>3. Shape(t)'
  BY <1>0, <1>1 DEF Shape, TaskInv, WorkerStages, WaiterStages, CallerStages, FailStages, NoTracker
<1>4. Account(t)'
  BY <1>0, <1>1, <1>2 DEF Account, TaskInv, CallerMoves, FailStages, Shape
<1>5. LastWriter(t)'
  BY <1>0, <1>1, <1>2 DEF LastWriter, TaskInv
<1>6. Closed(t)'
  BY <1>0 DEF Closed, TaskInv
<1> QED
  BY <1>3, <1>4, <1>5, <1>6 DEF TaskInv

LEMMA StartInv ==
  ASSUME NEW t \in Tasks, TaskInv(t), agentUp, pc[t][Caller] = "idle", CallerMoves(t, "insert"),
         tracker'[t] = "SCANNING",
         UNCHANGED <<agentUp, row[t], notified, hookRuns[t], good[t], bad[t], watch[t]>>
  PROVE  TaskInv(t)'
<1>1. /\ ~Launched(t) /\ ~Launched(t)' /\ row[t].phase = "NONE" /\ watch[t] = "none"
      /\ good[t] = {} /\ bad[t] = {} /\ tracker[t] = NoTracker
  BY DEF Launched, CallerMoves, TaskInv, Shape, Account
<1>2. Shape(t)'
  BY <1>1 DEF Shape, TaskInv, CallerMoves, CallerStages, NoTracker
<1>3. Account(t)'
  BY <1>1 DEF Account, TaskInv, CallerMoves, FailStages
<1>4. LastWriter(t)'
  BY <1>1 DEF LastWriter, TaskInv, CallerMoves, Shape
<1>5. Closed(t)'
  BY <1>1 DEF Closed, TaskInv
<1> QED
  BY <1>2, <1>3, <1>4, <1>5 DEF TaskInv

LEMMA LaunchInv ==
  ASSUME NEW t \in Tasks, TaskInv(t), t \in SyncTasks, pc[t][Caller] = "load",
         pc'[t][Caller] = "done", pc'[t][Waiter] = "wait",
         \A s \in Servers : pc'[t][s] = "attempt",
         UNCHANGED <<agentUp, tracker[t], row[t], notified, hookRuns[t], good[t], bad[t], watch[t]>>
  PROVE  TaskInv(t)'
<1>0. /\ agentUp /\ tracker[t] # NoTracker
      /\ "COMPLETED" \notin {row[t].phase, tracker[t], watch[t]}
  BY CallerFacts
<1>1. Launched(t)' /\ t \notin RestoreTasks
  BY TasksAssumption DEF Launched
<1>2. Shape(t)'
  BY <1>0, <1>1 DEF Shape, TaskInv, CallerStages, WaiterStages, WorkerStages
<1>3. Account(t)'
  BY <1>1 DEF Account, TaskInv, FailStages
<1>4. LastWriter(t)'
  BY <1>1, ServersAssumption DEF LastWriter, TaskInv
<1>5. Closed(t)'
  BY <1>0 DEF Closed, TaskInv
<1> QED
  BY <1>2, <1>3, <1>4, <1>5 DEF TaskInv

\* The wait group is done: either every worker failed and the tracker says so, or
\* some worker succeeded.
LEMMA WaiterWakesInv ==
  ASSUME NEW t \in Tasks, TaskInv(t), pc[t][Waiter] = "wait", WorkersFinished(t),
         WaiterMoves(t, IF tracker[t] = "FAILED" THEN "done" ELSE "complete"),
         UNCHANGED <<agentUp, tracker[t], row[t], notified, hookRuns[t], good[t], bad[t], watch[t]>>
  PROVE  TaskInv(t)'
<1>1. Launched(t)
  BY DEF TaskInv, Shape
<1>2. Launched(t)' /\ WorkersFinished(t)'
  BY <1>1 DEF Launched, WaiterMoves, WorkersFinished
<1>3. tracker[t] # "FAILED" => good[t] # {}
  BY DEF TaskInv, LastWriter, Account, WorkersFinished
<1>4. Shape(t)'
  BY <1>1, <1>2 DEF Shape, TaskInv, WaiterMoves, WaiterStages
<1>5. Account(t)'
  BY <1>1, <1>2 DEF Account, TaskInv, WaiterMoves
<1>6. LastWriter(t)'
  BY <1>2, <1>3 DEF LastWriter, TaskInv, WaiterMoves
<1>7. Closed(t)'
  BY <1>1, <1>2 DEF Closed, TaskInv, WaiterMoves, Runners
<1> QED
  BY <1>4, <1>5, <1>6, <1>7 DEF TaskInv

\* The waiter announces and records the completion.
LEMMA WaiterCompletes ==
  ASSUME NEW t \in Tasks, TaskInv(t),
         \/ /\ pc[t][Waiter] = "complete" /\ WaiterMoves(t, "record")
            /\ tracker'[t] = "COMPLETED" /\ UNCHANGED row[t]
         \/ /\ pc[t][Waiter] = "record" /\ WaiterMoves(t, "done")
            /\ \/ row'[t] = row[t]
               \/ row[t].phase # "NONE" /\ row'[t].phase = "COMPLETED"
            /\ UNCHANGED tracker[t],
         UNCHANGED <<agentUp, notified, hookRuns[t], good[t], bad[t], watch[t]>>
  PROVE  TaskInv(t)'
<1>1. Launched(t) /\ WorkersFinished(t) /\ good[t] # {} /\ agentUp /\ tracker[t] # NoTracker
  BY DEF TaskInv, Shape, LastWriter, Launched
<1>2. Launched(t)' /\ WorkersFinished(t)' /\ pc'[t][Waiter] \in {"record", "done"}
  BY <1>1 DEF Launched, WaiterMoves, WorkersFinished
<1>3. good[t] \cup bad[t] = Runners(t)
  <2>1. \A s \in Servers : s \in good[t] \cup bad[t]
    BY <1>1 DEF TaskInv, Account, WorkersFinished, FailStages
  <2>2. good[t] \subseteq Servers /\ bad[t] \subseteq Servers
    BY <1>1 DEF TaskInv, Account, Launched
  <2> QED
    BY <1>1, <2>1, <2>2 DEF Runners, Launched
<1>4. Shape(t)'
  BY <1>1, <1>2 DEF Shape, TaskInv, WaiterMoves, WaiterStages, NoTracker, Launched
<1>5. Account(t)'
  BY <1>1, <1>2 DEF Account, TaskInv, WaiterMoves
<1>6. LastWriter(t)'
  BY <1>1, <1>2 DEF LastWriter, TaskInv, WaiterMoves
<1>7. Closed(t)'
  BY <1>1, <1>2, <1>3 DEF Closed, Launched, Runners
<1> QED
  BY <1>4, <1>5, <1>6, <1>7 DEF TaskInv

\* A restore announces and records its completion.
LEMMA RestoreCompletes ==
  ASSUME NEW t \in Tasks, TaskInv(t),
         \/ /\ pc[t][Caller] = "complete" /\ CallerMoves(t, "record")
            /\ tracker'[t] = "COMPLETED" /\ UNCHANGED row[t]
         \/ /\ pc[t][Caller] = "record" /\ CallerMoves(t, "done")
            /\ \/ row'[t] = row[t]
               \/ row[t].phase # "NONE" /\ row'[t].phase = "COMPLETED"
            /\ UNCHANGED tracker[t],
         UNCHANGED <<agentUp, notified, hookRuns[t], good[t], bad[t], watch[t]>>
  PROVE  TaskInv(t)'
<1>1. /\ t \notin SyncTasks /\ t \in RestoreTasks /\ agentUp /\ tracker[t] # NoTracker
      /\ Caller \in good[t] /\ good[t] \cup bad[t] = {Caller}
  BY DEF TaskInv, Shape, Account, Tasks
<1>2. ~Launched(t) /\ ~Launched(t)' /\ pc'[t][Caller] \in {"record", "done"}
  BY <1>1 DEF Launched, CallerMoves
<1>3. Shape(t)'
  BY <1>1, <1>2 DEF Shape, TaskInv, CallerMoves, CallerStages, NoTracker
<1>4. Account(t)'
  BY <1>1, <1>2 DEF Account, TaskInv, CallerMoves, FailStages
<1>5. LastWriter(t)'
  BY <1>1, <1>2 DEF LastWriter, TaskInv, CallerMoves, Shape
<1>6. Closed(t)'
  BY <1>1, <1>2 DEF Closed, Runners
<1> QED
  BY <1>3, <1>4, <1>5, <1>6 DEF TaskInv

\* A status client learns what the tracker or the row says.
LEMMA WatchInv ==
  ASSUME NEW t \in Tasks, TaskInv(t), pc[t][Caller] # "idle",
         \/ watch'[t] \in {watch[t], "watching", "broken"}
         \/ /\ row[t].phase # "NONE" /\ ReportedPhase(t) \in Terminal
            /\ watch'[t] = ReportedPhase(t),
         UNCHANGED <<agentUp, pc[t], tracker[t], row[t], notified, hookRuns[t], good[t], bad[t]>>
  PROVE  TaskInv(t)'
<1>1. watch'[t] = "FAILED" => bad[t] # {} \/ pc[t][Caller] = "gone"
  BY DEF ReportedPhase, Terminal, TaskInv, LastWriter, Shape, NoTracker
<1>2. watch'[t] = "COMPLETED" => "COMPLETED" \in {row[t].phase, tracker[t], watch[t]}
  BY DEF ReportedPhase, Terminal, NoTracker
<1>3. Shape(t)' /\ Account(t)'
  BY DEF Shape, Account, TaskInv, Launched
<1>4. LastWriter(t)'
  BY <1>1 DEF LastWriter, TaskInv, WorkersFinished
<1>5. Closed(t)'
  BY <1>2 DEF Closed, TaskInv, Launched, WorkersFinished, Runners
<1> QED
  BY <1>3, <1>4, <1>5 DEF TaskInv

-----------------------------------------------------------------------------
(* The inductive invariant: every step.                                    *)

\* A step of one task, or of a client that watches it, leaves the other tasks alone.
LEMMA OthersUntouched ==
  ASSUME TypeOK, NEW t \in Tasks, NEW u \in Tasks, u # t,
         \/ Start(t) \/ CallerStep(t) \/ WaiterWakes(t) \/ StartWatch(t) \/ Poll(t)
         \/ \E s \in Servers : WorkerStep(t, s)
         \/ \E a \in Actors : AnyActorStep(t, a)
  PROVE  Untouched(u)
<1> USE DEF TypeOK, Untouched, At, Goto, SetPhase, Succeed, GiveUp, UpdateRow,
            bounds, memory, work, ghosts
<1>1. CASE Start(t)
  BY <1>1 DEF Start
<1>2. CASE CallerStep(t)
  BY <1>2 DEF CallerStep, InsertTask, Launch, LaunchRestore, RefuseTask, BeginRestore, PullRestore
<1>3. CASE WaiterWakes(t)
  BY <1>3 DEF WaiterWakes
<1>4. CASE StartWatch(t) \/ Poll(t)
  BY <1>4 DEF StartWatch, Poll
<1>5. ASSUME NEW s \in Servers, WorkerStep(t, s) PROVE Untouched(u)
  <2>1. CASE AttemptFails(t, s)
    BY <2>1 DEF AttemptFails, Transient, Permanent
  <2> QED
    BY <1>5, <2>1 DEF WorkerStep, Scan, AnnounceScan, AnnounceTransfer, OpenStream, RootPushed,
                      Wake, AttemptSucceeds
<1>6. ASSUME NEW a \in Actors, AnyActorStep(t, a) PROVE Untouched(u)
  BY <1>6 DEF AnyActorStep, Complete, RecordCompleted, FailPhase, FailRow, FailNotify
<1> QED
  BY <1>1, <1>2, <1>3, <1>4, <1>5, <1>6

LEMMA CallerStepInv ==
  ASSUME IInv, NEW t \in Tasks, CallerStep(t)
  PROVE  TaskInv(t)'
<1> USE ActorFacts DEF At, bounds, memory, work, ghosts
<1>0. TypeOK /\ TaskInv(t)
  BY DEF IInv
<1>1. CASE InsertTask(t)
  <2>1. CASE row' = [row EXCEPT ![t] = [phase |-> "PENDING", error |-> FALSE]]
             /\ Goto(t, Caller, "load") /\ UNCHANGED <<dbFaults, ghosts>>
    <3>1. row'[t].phase = "PENDING"
      BY <1>0, <2>1 DEF TypeOK
    <3>2. CallerMoves(t, "load")
      BY <1>0, <2>1, GotoMoves
    <3> QED
      BY <1>0, <1>1, <2>1, <3>1, <3>2, CallerWorks DEF InsertTask
  <2>2. CASE GiveUp(t, Caller) /\ UNCHANGED row
    <3>1. CallerMoves(t, "failPhase") /\ bad'[t] = bad[t] \cup {Caller} /\ UNCHANGED good
      BY <1>0, <2>2, GotoMoves DEF GiveUp, TypeOK
    <3> QED
      BY <1>0, <1>1, <2>2, <3>1, CallerFails DEF InsertTask
  <2> QED
    BY <1>1, <2>1, <2>2 DEF InsertTask
<1>2. CASE Launch(t)
  <2>1. /\ pc'[t][Caller] = "done" /\ pc'[t][Waiter] = "wait"
        /\ \A s \in Servers : pc'[t][s] = "attempt"
    BY <1>0, <1>2 DEF Launch, TypeOK
  <2> QED
    BY <1>0, <1>2, <2>1, LaunchInv DEF Launch
<1>3. CASE LaunchRestore(t)
  <2>1. CallerMoves(t, "restore")
    BY <1>0, <1>3, GotoMoves DEF LaunchRestore
  <2> QED
    BY <1>0, <1>3, <2>1, CallerWorks DEF LaunchRestore
<1>4. CASE RefuseTask(t)
  <2>1. CallerMoves(t, "failPhase") /\ bad'[t] = bad[t] \cup {Caller} /\ UNCHANGED good
    BY <1>0, <1>4, GotoMoves DEF RefuseTask, GiveUp, TypeOK
  <2> QED
    BY <1>0, <1>4, <2>1, CallerFails DEF RefuseTask
<1>5. CASE BeginRestore(t)
  <2>1. CallerMoves(t, "pull") /\ tracker'[t] = "TRANSFERRING"
    BY <1>0, <1>5, GotoMoves DEF BeginRestore, SetPhase, TypeOK
  <2> QED
    BY <1>0, <1>5, <2>1, CallerWorks DEF BeginRestore
<1>6. CASE PullRestore(t)
  <2>1. CASE Succeed(t, Caller) /\ Goto(t, Caller, "complete") /\ UNCHANGED bad
    <3>1. CallerMoves(t, "complete") /\ good'[t] = good[t] \cup {Caller}
      BY <1>0, <2>1, GotoMoves DEF Succeed, TypeOK
    <3> QED
      BY <1>0, <1>6, <2>1, <3>1, CallerWorks DEF PullRestore
  <2>2. CASE GiveUp(t, Caller)
    <3>1. CallerMoves(t, "failPhase") /\ bad'[t] = bad[t] \cup {Caller} /\ UNCHANGED good
      BY <1>0, <2>2, GotoMoves DEF GiveUp, TypeOK
    <3> QED
      BY <1>0, <1>6, <2>2, <3>1, CallerFails DEF PullRestore
  <2> QED
    BY <1>6, <2>1, <2>2 DEF PullRestore
<1> QED
  BY <1>1, <1>2, <1>3, <1>4, <1>5, <1>6 DEF CallerStep

LEMMA WorkerStepInv ==
  ASSUME IInv, NEW t \in Tasks, NEW s \in Servers, WorkerStep(t, s)
  PROVE  TaskInv(t)'
<1> USE ActorFacts DEF At, bounds, memory, work, ghosts
<1>0. TypeOK /\ TaskInv(t)
  BY DEF IInv
<1> DEFINE Works(stage) == Goto(t, s, stage) => WorkerMoves(t, s, stage)
<1>w. \A stage \in Busy : Works(stage)
  BY <1>0, GotoMoves
<1>1. CASE Scan(t, s)
  BY <1>0, <1>1, <1>w, WorkerWorks DEF Scan, Busy
<1>2. CASE AnnounceScan(t, s)
  BY <1>0, <1>2, <1>w, WorkerWorks DEF AnnounceScan, SetPhase, TypeOK, Busy
<1>3. CASE AnnounceTransfer(t, s)
  BY <1>0, <1>3, <1>w, WorkerWorks DEF AnnounceTransfer, SetPhase, TypeOK, Busy
<1>4. CASE OpenStream(t, s)
  BY <1>0, <1>4, <1>w, WorkerWorks DEF OpenStream, SetPhase, TypeOK, Busy
<1>5. CASE RootPushed(t, s)
  BY <1>0, <1>5, <1>w, WorkerWorks DEF RootPushed, Busy
<1>6. CASE AttemptFails(t, s)
  <2>1. CASE GiveUp(t, s)
    <3>1. WorkerMoves(t, s, "failPhase") /\ bad'[t] = bad[t] \cup {s} /\ good'[t] = good[t]
      BY <1>0, <2>1, GotoMoves DEF GiveUp, TypeOK
    <3> QED
      BY <1>0, <1>6, <3>1, WorkerEnds DEF AttemptFails, Busy
  <2>2. CASE Goto(t, s, "sleep") /\ UNCHANGED ghosts
    BY <1>0, <1>6, <2>2, <1>w, WorkerWorks DEF AttemptFails, Busy
  <2> QED
    BY <1>6, <2>1, <2>2 DEF AttemptFails, Transient, Permanent
<1>7. CASE Wake(t, s)
  BY <1>0, <1>7, <1>w, WorkerWorks DEF Wake, Busy
<1>8. CASE AttemptSucceeds(t, s)
  <2>1. WorkerMoves(t, s, "done") /\ good'[t] = good[t] \cup {s}
    BY <1>0, <1>8, GotoMoves DEF AttemptSucceeds, Succeed, TypeOK
  <2> QED
    BY <1>0, <1>8, <2>1, WorkerEnds DEF AttemptSucceeds, Busy
<1> QED
  BY <1>1, <1>2, <1>3, <1>4, <1>5, <1>6, <1>7, <1>8 DEF WorkerStep

\* What an UPDATE of task_history does to the row of its task.
LEMMA UpdateRowFacts ==
  ASSUME TypeOK, NEW t \in Tasks, NEW STATE r, UpdateRow(t, r)
  PROVE  row'[t] = row[t] \/ (row[t].phase # "NONE" /\ row'[t] = r)
BY DEF TypeOK, UpdateRow

\* Complete and RecordCompleted are steps of the waiter or of a restore, the steps of
\* markFailed are steps of the caller or of a worker.
LEMMA AnyActorStepInv ==
  ASSUME IInv, NEW t \in Tasks, NEW a \in Actors, AnyActorStep(t, a)
  PROVE  TaskInv(t)'
<1> USE ActorFacts DEF At, bounds, memory, work, ghosts
<1>0. TypeOK /\ TaskInv(t)
  BY DEF IInv
<1>a. a \in Servers \/ a = Caller \/ a = Waiter
  BY DEF Actors
<1> DEFINE Moves(stage) == /\ a = Caller => CallerMoves(t, stage)
                           /\ a = Waiter => WaiterMoves(t, stage)
                           /\ a \in Servers => WorkerMoves(t, a, stage)
<1>m. \A stage \in Stages : Goto(t, a, stage) => Moves(stage)
  BY <1>0, GotoMoves
<1>s. /\ a \in Servers => pc[t][a] \notin {"complete", "record"}
      /\ a = Waiter => pc[t][a] \notin {"failPhase", "failRow", "failNotify"}
  BY <1>0 DEF TaskInv, Shape, WorkerStages, WaiterStages, FailStages
<1>1. CASE Complete(t, a)
  <2>1. Moves("record") /\ tracker'[t] = "COMPLETED"
    BY <1>0, <1>1, <1>m DEF Complete, SetPhase, TypeOK, Stages
  <2> QED
    BY <1>0, <1>1, <1>a, <1>s, <2>1, WaiterCompletes, RestoreCompletes DEF Complete
<1>2. CASE RecordCompleted(t, a)
  <2>1. Moves("done")
    BY <1>2, <1>m DEF RecordCompleted, Stages
  <2>2. row'[t] = row[t] \/ (row[t].phase # "NONE" /\ row'[t].phase = "COMPLETED")
    BY <1>0, <1>2, UpdateRowFacts DEF RecordCompleted
  <2> QED
    BY <1>0, <1>2, <1>a, <1>s, <2>1, <2>2, WaiterCompletes, RestoreCompletes DEF RecordCompleted
<1>3. CASE FailPhase(t, a)
  <2>1. Moves("failRow") /\ tracker'[t] = "FAILED"
    BY <1>0, <1>3, <1>m DEF FailPhase, SetPhase, TypeOK, Stages
  <2> QED
    BY <1>0, <1>3, <1>a, <1>s, <2>1, WorkerFails, CallerFails DEF FailPhase
<1>4. CASE FailRow(t, a)
  <2>1. Moves("failNotify")
    BY <1>4, <1>m DEF FailRow, Stages
  <2>2. row'[t] = row[t] \/ (row[t].phase # "NONE" /\ row'[t].phase = "FAILED")
    BY <1>0, <1>4, UpdateRowFacts DEF FailRow
  <2> QED
    BY <1>0, <1>4, <1>a, <1>s, <2>1, <2>2, WorkerFails, CallerFails DEF FailRow
<1>5. CASE FailNotify(t, a)
  <2>1. Moves("failed")
    BY <1>5, <1>m DEF FailNotify, Stages
  <2>2. hookRuns'[t] = IF t \in notified THEN hookRuns[t] ELSE hookRuns[t] + 1
    BY <1>0, <1>5 DEF FailNotify, TypeOK
  <2> QED
    BY <1>0, <1>5, <1>a, <1>s, <2>1, <2>2, WorkerFails, CallerFails DEF FailNotify
<1> QED
  BY <1>1, <1>2, <1>3, <1>4, <1>5 DEF AnyActorStep

\* The Agent stops: goroutines of started tasks are gone, the rest is unchanged or empty.
LEMMA CrashInv ==
  ASSUME IInv, NEW t \in Tasks, Crash
  PROVE  TaskInv(t)'
<1>0. TypeOK /\ TaskInv(t)
  BY DEF IInv
<1>1. /\ agentUp' = FALSE /\ tracker'[t] = NoTracker /\ notified' = {}
      /\ UNCHANGED <<row, hookRuns, good, bad>>
      /\ watch'[t] = IF watch[t] = "watching" THEN "broken" ELSE watch[t]
  BY <1>0 DEF Crash, TypeOK, ghosts
<1>2. CASE pc[t][Caller] = "idle"
  <2>1. pc'[t] = pc[t]
    BY <1>2 DEF Crash, Started
  <2>2. ~Launched(t)' /\ row[t].phase = "NONE" /\ watch[t] = "none" /\ good[t] = {} /\ bad[t] = {}
    BY <1>0, <1>2, <2>1 DEF Launched, TaskInv, Shape, Account
  <2>3. Shape(t)'
    BY <1>0, <1>1, <1>2, <2>1, <2>2 DEF TaskInv, Shape, Launched
  <2>4. Account(t)'
    BY <1>0, <1>1, <1>2, <2>1, <2>2 DEF TaskInv, Account, FailStages, Shape, WorkerStages, Launched
  <2>5. LastWriter(t)' /\ Closed(t)'
    BY <1>0, <1>1, <1>2, <2>1, <2>2 DEF TaskInv, LastWriter, Closed, Shape, Launched, NoTracker
  <2> QED
    BY <2>3, <2>4, <2>5 DEF TaskInv
<1>3. CASE pc[t][Caller] # "idle"
  <2>1. \A a \in Actors : pc'[t][a] = "gone"
    BY <1>3 DEF Crash, Started
  <2>2. pc'[t][Caller] = "gone" /\ pc'[t][Waiter] = "gone" /\ \A s \in Servers : pc'[t][s] = "gone"
    BY <2>1, ActorFacts
  <2>3. Shape(t)'
    BY <1>1, <2>2 DEF Shape, Launched, CallerStages, WaiterStages, WorkerStages
  <2>4. Account(t)'
    BY <1>0, <1>1, <2>2 DEF TaskInv, Account, Launched, FailStages
  <2>5. LastWriter(t)' /\ Closed(t)'
    BY <1>0, <1>1, <2>2 DEF TaskInv, LastWriter, Closed, Launched, NoTracker, Runners
  <2> QED
    BY <2>3, <2>4, <2>5 DEF TaskInv
<1> QED
  BY <1>2, <1>3

\* The Agent starts again: rows left PENDING become FAILED.
LEMMA RestartInv ==
  ASSUME IInv, NEW t \in Tasks, Restart
  PROVE  TaskInv(t)'
<1>0. TypeOK /\ TaskInv(t)
  BY DEF IInv
<1>1. /\ row'[t].phase = IF row[t].phase = "PENDING" THEN "FAILED" ELSE row[t].phase
      /\ ~agentUp /\ agentUp' = TRUE
      /\ UNCHANGED <<pc, tracker, notified, hookRuns, good, bad, watch>>
  BY <1>0 DEF Restart, TypeOK, bounds, memory, work, ghosts
<1>2. pc[t][Caller] \in {"idle", "gone"} /\ (row[t].phase # "NONE" => pc[t][Caller] = "gone")
  BY <1>0, <1>1 DEF TaskInv, Shape
<1>3. Shape(t)' /\ Account(t)'
  BY <1>0, <1>1, <1>2 DEF TaskInv, Shape, Account, Launched
<1>4. LastWriter(t)' /\ Closed(t)'
  BY <1>0, <1>1, <1>2 DEF TaskInv, LastWriter, Closed, Launched, WorkersFinished, Runners
<1> QED
  BY <1>3, <1>4 DEF TaskInv

LEMMA InitInv == Init => IInv
<1> SUFFICES ASSUME Init, NEW t \in Tasks PROVE TaskInv(t)
  BY InitType DEF IInv
<1>1. /\ \A a \in Actors : pc[t][a] = "idle"
      /\ agentUp /\ tracker[t] = NoTracker /\ row[t].phase = "NONE" /\ watch[t] = "none"
      /\ notified = {} /\ hookRuns[t] = 0 /\ good[t] = {} /\ bad[t] = {}
  BY DEF Init
<1>2. pc[t][Caller] = "idle" /\ pc[t][Waiter] = "idle" /\ \A s \in Servers : pc[t][s] = "idle"
  BY <1>1, ActorFacts
<1>3. Shape(t)
  BY <1>1, <1>2 DEF Shape, Launched, CallerStages, WaiterStages, WorkerStages
<1>4. Account(t)
  BY <1>1, <1>2 DEF Account, Launched, FailStages
<1> QED
  BY <1>1, <1>2, <1>3, <1>4 DEF TaskInv, LastWriter, Closed, NoTracker

LEMMA NextInv == IInv /\ [Next]_vars => IInv'
<1> SUFFICES ASSUME IInv, [Next]_vars, NEW u \in Tasks PROVE TaskInv(u)'
  BY NextType DEF IInv
<1>0. TypeOK /\ TaskInv(u)
  BY DEF IInv
<1>1. ASSUME NEW t \in Tasks, t # u,
             \/ Start(t) \/ CallerStep(t) \/ WaiterWakes(t) \/ StartWatch(t) \/ Poll(t)
             \/ \E s \in Servers : WorkerStep(t, s)
             \/ \E a \in Actors : AnyActorStep(t, a)
      PROVE  TaskInv(u)'
  BY <1>0, <1>1, OthersUntouched, UntouchedInv
<1>2. CASE Start(u)
  <2>1. CallerMoves(u, "insert") /\ tracker'[u] = "SCANNING"
    BY <1>0, <1>2, GotoMoves, ActorFacts DEF Start, SetPhase, TypeOK
  <2> QED
    BY <1>0, <1>2, <2>1, StartInv DEF Start, At, bounds, memory, work, ghosts
<1>3. CASE CallerStep(u)
  BY <1>3, CallerStepInv
<1>4. CASE WaiterWakes(u)
  <2>1. WaiterMoves(u, IF tracker[u] = "FAILED" THEN "done" ELSE "complete")
    BY <1>0, <1>4, GotoMoves, ActorFacts DEF WaiterWakes
  <2> QED
    BY <1>0, <1>4, <2>1, WaiterWakesInv DEF WaiterWakes, At, bounds, memory, work, ghosts
<1>5. CASE StartWatch(u)
  <2>1. watch'[u] = "watching"
    BY <1>0, <1>5 DEF StartWatch, TypeOK
  <2> QED
    BY <1>0, <1>5, <2>1, WatchInv DEF StartWatch, Started, bounds, memory, work, ghosts
<1>6. CASE Poll(u)
  <2>1. \/ watch'[u] \in {watch[u], "broken"}
        \/ /\ row[u].phase # "NONE" /\ ReportedPhase(u) \in Terminal
           /\ watch'[u] = ReportedPhase(u)
    BY <1>0, <1>6 DEF Poll, TypeOK
  <2>2. pc[u][Caller] # "idle"
    BY <1>0, <1>6 DEF Poll, TaskInv, Shape
  <2> QED
    BY <1>0, <1>6, <2>1, <2>2, WatchInv DEF Poll, bounds, memory, work, ghosts
<1>7. ASSUME NEW s \in Servers, WorkerStep(u, s) PROVE TaskInv(u)'
  BY <1>7, WorkerStepInv
<1>8. ASSUME NEW a \in Actors, AnyActorStep(u, a) PROVE TaskInv(u)'
  BY <1>8, AnyActorStepInv
<1>9. CASE Crash
  BY <1>9, CrashInv
<1>10. CASE Restart
  BY <1>10, RestartInv
<1>11. CASE UNCHANGED vars
  BY <1>0, <1>11, UntouchedInv DEF vars, memory, ghosts, Untouched
<1> QED
  BY <1>1, <1>2, <1>3, <1>4, <1>5, <1>6, <1>7, <1>8, <1>9, <1>10, <1>11 DEF Next

\* Every reachable state satisfies the inductive invariant: the places of a task's
\* goroutines, the histories, the hook and the last writer of the tracker fit together.
THEOREM Inductive == Spec => []IInv
BY InitInv, NextInv, PTL DEF Spec

-----------------------------------------------------------------------------
(* The safety properties.                                                  *)

\* COMPLETED is reported only after all of a task's goroutines ended, one with success.
THEOREM CompletedHonest == Spec => []CompletedIsHonest
<1>1. IInv => CompletedIsHonest
  BY DEF IInv, TaskInv, Closed, CompletedIsHonest
<1> QED
  BY <1>1, Inductive, PTL

\* FAILED always has a cause: a goroutine that gave up, or an Agent that stopped.
THEOREM FailedCaused == Spec => []FailedHasCause
<1>1. IInv => FailedHasCause
  BY DEF IInv, TaskInv, LastWriter, FailedHasCause
<1> QED
  BY <1>1, Inductive, PTL

\* However many replicas fail at once, markFailed starts the hook exactly once.
THEOREM NotifiedOnce == Spec => []FailureNotified
<1>1. ASSUME IInv, NEW t \in Tasks
      PROVE  /\ hookRuns[t] <= 1
             /\ hookRuns[t] = 1 => bad[t] # {}
             /\ (\E a \in Actors : pc[t][a] = "failed") => hookRuns[t] = 1
  <2>1. Account(t) /\ pc[t][Waiter] # "failed"
    BY <1>1 DEF IInv, TaskInv, Shape, WaiterStages
  <2>2. (\E a \in Actors : pc[t][a] = "failed") => hookRuns[t] = 1
    BY <2>1 DEF Account, Actors
  <2> QED
    BY <2>1, <2>2 DEF Account
<1>2. IInv => FailureNotified
  BY <1>1 DEF FailureNotified
<1> QED
  BY <1>2, Inductive, PTL

\* A PENDING row has a live tracker whenever the Agent serves.
THEOREM NoOrphan == Spec => []NoOrphanRow
<1>1. IInv => NoOrphanRow
  BY DEF IInv, TaskInv, Shape, NoOrphanRow
<1> QED
  BY <1>1, Inductive, PTL

\* The row of a completed task is never written again, by any goroutine or restart.
THEOREM CompletedFinal == Spec => CompletedIsFinal
<1> DEFINE Final == \A t \in Tasks : row[t].phase = "COMPLETED" => row'[t] = row[t]
<1>1. ASSUME IInv, [Next]_vars, NEW t \in Tasks, row[t].phase = "COMPLETED"
      PROVE  row'[t] = row[t]
  <2>0. /\ TypeOK /\ TaskInv(t) /\ pc[t][Caller] \in {"record", "done", "gone"}
        /\ \A s \in Servers : pc[t][s] # "failRow"
        /\ pc[t][Waiter] # "failRow"
    <3>1. TypeOK /\ TaskInv(t) /\ pc[t][Caller] \in {"record", "done", "gone"}
      BY <1>1 DEF IInv, TaskInv, Closed
    <3>2. \A s \in Servers : pc[t][s] # "failRow"
      BY <1>1, <3>1, BusyFacts
    <3>3. pc[t][Waiter] # "failRow"
      BY <3>1 DEF TaskInv, Shape, WaiterStages
    <3> QED
      BY <3>1, <3>2, <3>3
  <2>1. \A a \in Actors : ~FailRow(t, a)
    BY <2>0 DEF FailRow, At, Actors
  <2>2. ~InsertTask(t) /\ ~Start(t)
    BY <2>0 DEF InsertTask, Start, At
  <2>3. ASSUME NEW a \in Actors, RecordCompleted(t, a) PROVE row'[t] = row[t]
    <3>1. row[t] = [phase |-> "COMPLETED", error |-> row[t].error]
      BY <1>1, <2>0 DEF TypeOK, Rows
    <3> QED
      BY <2>0, <2>3, <3>1, UpdateRowFacts DEF RecordCompleted
  <2>4. ASSUME NEW u \in Tasks, u # t,
               \/ Start(u) \/ CallerStep(u) \/ WaiterWakes(u) \/ StartWatch(u) \/ Poll(u)
               \/ \E s \in Servers : WorkerStep(u, s)
               \/ \E a \in Actors : AnyActorStep(u, a)
        PROVE  row'[t] = row[t]
    BY <2>0, <2>4, OthersUntouched DEF Untouched
  <2>5. CASE CallerStep(t) \/ WaiterWakes(t) \/ StartWatch(t) \/ Poll(t)
    BY <2>2, <2>5 DEF CallerStep, Launch, LaunchRestore, RefuseTask, BeginRestore, PullRestore,
                      WaiterWakes, StartWatch, Poll
  <2>6. ASSUME NEW s \in Servers, WorkerStep(t, s) PROVE row'[t] = row[t]
    BY <2>6 DEF WorkerStep, Scan, AnnounceScan, AnnounceTransfer, OpenStream, RootPushed,
                AttemptFails, Wake, AttemptSucceeds
  <2>7. ASSUME NEW a \in Actors, AnyActorStep(t, a) PROVE row'[t] = row[t]
    BY <2>1, <2>3, <2>7 DEF AnyActorStep, Complete, FailPhase, FailNotify
  <2>8. CASE Crash
    BY <2>8 DEF Crash
  <2>9. CASE Restart
    BY <1>1, <2>0, <2>9 DEF Restart, TypeOK
  <2>10. CASE UNCHANGED vars
    BY <2>10 DEF vars
  <2> QED
    BY <1>1, <2>2, <2>4, <2>5, <2>6, <2>7, <2>8, <2>9, <2>10 DEF Next
<1>2. IInv /\ [Next]_vars => [Final]_vars
  BY <1>1
<1> QED
  BY <1>2, Inductive, PTL DEF Spec, CompletedIsFinal

-----------------------------------------------------------------------------
(* What a masked failure leaves behind.                                    *)

\* Whoever gave up is on the way through markFailed or gone; unless a write was lost, the
\* row exists by then and carries the error of everyone who has passed it.
Told(t) ==
  /\ \A a \in bad[t] : pc[t][a] \in FailStages \cup {"gone"}
  /\ dbFaults = 0 =>
       /\ pc[t][Caller] \notin {"idle", "insert", "gone"} => row[t].phase # "NONE"
       /\ \A a \in bad[t] : pc[t][a] \in {"failNotify", "failed"} => row[t].error
       /\ row[t].phase = "COMPLETED" /\ bad[t] # {} => row[t].error

Teller == IInv /\ \A t \in Tasks : Told(t)

\* A goroutine that did not give up moves, or one that did does before or after its write.
LEMMA ToldMoves ==
  ASSUME TypeOK, NEW t \in Tasks, Told(t), NEW a \in Actors, NEW STATE stage, Goto(t, a, stage),
         \/ a \notin bad[t]
         \/ pc[t][a] = "failPhase" /\ stage = "failRow"
         \/ pc[t][a] = "failNotify" /\ stage = "failed",
         a = Caller => pc[t][a] \notin {"idle", "insert", "gone"} \/ stage = "insert",
         UNCHANGED <<row[t], dbFaults, bad[t]>>
  PROVE  Told(t)'
<1>1. \A b \in Actors : pc'[t][b] = IF b = a THEN stage ELSE pc[t][b]
  BY DEF Goto, TypeOK
<1>2. bad[t] \subseteq Actors
  BY DEF TypeOK
<1> QED
  BY <1>1, <1>2, ActorFacts DEF Told, FailStages

\* A goroutine gives up: its task is not recorded as completed.
LEMMA ToldGivesUp ==
  ASSUME TypeOK, NEW t \in Tasks, Told(t), NEW a \in Actors, GiveUp(t, a),
         row[t].phase # "COMPLETED", row'[t] = row[t],
         dbFaults' = dbFaults \/ dbFaults' # 0,
         a = Caller => pc[t][a] \notin {"idle", "insert", "gone"} \/ dbFaults' # 0
  PROVE  Told(t)'
<1>1. \A b \in Actors : pc'[t][b] = IF b = a THEN "failPhase" ELSE pc[t][b]
  BY DEF GiveUp, Goto, TypeOK
<1>2. bad[t] \subseteq Actors /\ bad'[t] = bad[t] \cup {a}
  BY DEF GiveUp, TypeOK
<1> QED
  BY <1>1, <1>2, ActorFacts DEF Told, FailStages

LEMMA ToldCaller ==
  ASSUME IInv, NEW t \in Tasks, Told(t), Start(t) \/ CallerStep(t)
  PROVE  Told(t)'
<1>0. TypeOK /\ TaskInv(t) /\ Caller \in Actors
  BY ActorFacts DEF IInv
<1>1. pc[t][Caller] \notin FailStages \cup {"gone"} => Caller \notin bad[t]
  BY <1>0 DEF Told
<1> USE DEF At, bounds, ghosts
<1>2. CASE Start(t)
  BY <1>0, <1>1, <1>2, ToldMoves DEF Start, FailStages
<1>3. CASE InsertTask(t)
  <2>1. row[t].phase # "COMPLETED" /\ bad[t] = {}
    BY <1>0, <1>3, CallerFacts DEF InsertTask, TaskInv, Account
  <2>2. CASE row' = [row EXCEPT ![t] = [phase |-> "PENDING", error |-> FALSE]] /\ UNCHANGED bad
    <3>1. row'[t].phase = "PENDING" /\ bad'[t] = {}
      BY <1>0, <2>1, <2>2 DEF TypeOK
    <3> QED
      BY <3>1 DEF Told
  <2>3. CASE GiveUp(t, Caller) /\ dbFaults' = dbFaults + 1 /\ UNCHANGED row
    <3>1. dbFaults' # 0
      BY <1>0, <2>3, BoundsAssumption DEF TypeOK
    <3> QED
      BY <1>0, <2>1, <2>3, <3>1, ToldGivesUp
  <2> QED
    BY <1>3, <2>2, <2>3 DEF InsertTask
<1>4. CASE Launch(t)
  <2>1. bad'[t] = {} /\ row'[t] = row[t] /\ dbFaults' = dbFaults
    BY <1>0, <1>4 DEF Launch, TaskInv, Account
  <2>2. row[t].phase # "NONE" \/ dbFaults # 0
    BY <1>4 DEF Launch, Told
  <2> QED
    BY <2>1, <2>2 DEF Told
<1>5. CASE LaunchRestore(t) \/ BeginRestore(t)
  BY <1>0, <1>1, <1>5, ToldMoves DEF LaunchRestore, BeginRestore, FailStages
<1>6. CASE RefuseTask(t)
  <2>1. row[t].phase # "COMPLETED"
    BY <1>0, <1>6, CallerFacts DEF RefuseTask
  <2> QED
    BY <1>0, <1>6, <2>1, ToldGivesUp DEF RefuseTask
<1>7. CASE PullRestore(t)
  <2>1. row[t].phase # "COMPLETED"
    BY <1>0, <1>7, CallerFacts DEF PullRestore
  <2>2. CASE GiveUp(t, Caller)
    BY <1>0, <1>7, <2>1, <2>2, ToldGivesUp DEF PullRestore
  <2>3. CASE Goto(t, Caller, "complete") /\ UNCHANGED bad
    BY <1>0, <1>1, <1>7, <2>3, ToldMoves DEF PullRestore, FailStages
  <2> QED
    BY <1>7, <2>2, <2>3 DEF PullRestore
<1> QED
  BY <1>2, <1>3, <1>4, <1>5, <1>6, <1>7 DEF CallerStep

LEMMA ToldWorker ==
  ASSUME IInv, NEW t \in Tasks, Told(t), NEW s \in Servers, WorkerStep(t, s)
  PROVE  Told(t)'
<1>0. TypeOK /\ TaskInv(t) /\ s \in Actors /\ s # Caller
  BY ActorFacts DEF IInv
<1>1. pc[t][s] \in Busy
  BY DEF WorkerStep, Scan, AnnounceScan, AnnounceTransfer, OpenStream, RootPushed, AttemptFails, Wake,
         AttemptSucceeds, At, Busy
<1>2. s \notin bad[t] /\ row[t].phase # "COMPLETED"
  BY <1>0, <1>1, BusyFacts DEF Told, FailStages, Busy
<1>3. row' = row /\ dbFaults' = dbFaults
  BY DEF WorkerStep, Scan, AnnounceScan, AnnounceTransfer, OpenStream, RootPushed, AttemptFails, Wake,
         AttemptSucceeds, bounds
<1>4. CASE GiveUp(t, s)
  BY <1>0, <1>2, <1>3, <1>4, ToldGivesUp
<1>5. CASE ~GiveUp(t, s)
  <2>1. bad' = bad /\ \E stage \in Stages : Goto(t, s, stage)
    BY <1>5 DEF WorkerStep, Scan, AnnounceScan, AnnounceTransfer, OpenStream, RootPushed, AttemptFails,
                Transient, Permanent, Wake, AttemptSucceeds, ghosts, Stages
  <2> QED
    BY <1>0, <1>2, <1>3, <2>1, ToldMoves
<1> QED
  BY <1>4, <1>5

LEMMA ToldActor ==
  ASSUME IInv, NEW t \in Tasks, Told(t), NEW a \in Actors, AnyActorStep(t, a)
  PROVE  Told(t)'
<1>0. TypeOK /\ TaskInv(t)
  BY DEF IInv
<1> USE DEF At, bounds, ghosts
<1>1. CASE Complete(t, a)
  <2>1. a \notin bad[t]
    BY <1>1 DEF Complete, Told, FailStages
  <2> QED
    BY <1>0, <1>1, <2>1, ToldMoves DEF Complete
<1>2. CASE FailPhase(t, a) \/ FailNotify(t, a)
  BY <1>0, <1>2, ToldMoves DEF FailPhase, FailNotify
<1>3. CASE FailRow(t, a)
  <2>1. /\ \A b \in Actors : pc'[t][b] = IF b = a THEN "failNotify" ELSE pc[t][b]
        /\ pc[t][a] = "failRow" /\ bad' = bad /\ bad[t] \subseteq Actors
    BY <1>0, <1>3 DEF FailRow, Goto, TypeOK
  <2>2. dbFaults' = 0 => /\ dbFaults = 0 /\ row' = [row EXCEPT ![t] = IF @.phase = "NONE" THEN @
                                                     ELSE [phase |-> "FAILED", error |-> TRUE]]
    BY <1>0, <1>3, BoundsAssumption DEF FailRow, UpdateRow, TypeOK
  <2>3. row[t].phase # "NONE" \/ dbFaults # 0
    <3>1. pc[t][Caller] \notin {"idle", "insert", "gone"}
      BY <1>0, <2>1, BusyFacts, CallerFacts DEF Actors, Launched, TaskInv, Shape, WaiterStages
    <3> QED
      BY <3>1 DEF Told
  <2>4. dbFaults' = 0 => row'[t] = [phase |-> "FAILED", error |-> TRUE]
    BY <1>0, <2>2, <2>3 DEF TypeOK
  <2>5. dbFaults' = 0 => row'[t].phase = "FAILED" /\ row'[t].error
    BY <2>4
  <2> QED
    BY <2>1, <2>5 DEF Told, FailStages
<1>4. CASE RecordCompleted(t, a)
  <2>1. /\ \A b \in Actors : pc'[t][b] = IF b = a THEN "done" ELSE pc[t][b]
        /\ pc[t][a] = "record" /\ bad' = bad /\ bad[t] \subseteq Actors
    BY <1>0, <1>4 DEF RecordCompleted, Goto, TypeOK
  <2>2. row'[t].error = row[t].error /\ (row[t].phase # "NONE" => row'[t].phase # "NONE")
    BY <1>0, <1>4, UpdateRowFacts DEF RecordCompleted
  <2>3. dbFaults' = 0 => dbFaults = 0
    BY <1>0, <1>4, BoundsAssumption DEF RecordCompleted, UpdateRow, TypeOK
  <2>4. ASSUME dbFaults = 0, NEW b \in bad[t] PROVE row[t].error
    <3>1. b \in Actors /\ pc[t][b] \in FailStages \cup {"gone"}
      BY <2>1, <2>4 DEF Told
    <3>2. CASE a = Waiter
      <4>1. Launched(t) /\ WorkersFinished(t) /\ bad[t] \subseteq Servers
        BY <1>0, <2>1, <3>2 DEF TaskInv, Shape, LastWriter, Account
      <4>2. pc[t][b] = "failed"
        BY <2>4, <3>1, <4>1 DEF WorkersFinished, FailStages
      <4> QED
        BY <2>4, <4>2 DEF Told
    <3>3. CASE a = Caller
      <4>1. t \in RestoreTasks
        BY <1>0, <2>1, <3>3 DEF TaskInv, Shape, Tasks
      <4>2. b = Caller
        BY <1>0, <2>4, <4>1 DEF TaskInv, Account
      <4> QED
        BY <2>1, <3>1, <3>3, <4>2 DEF FailStages
    <3>4. a \notin Servers
      BY <1>0, <2>1 DEF TaskInv, Shape, WorkerStages, FailStages
    <3> QED
      BY <3>2, <3>3, <3>4 DEF Actors
  <2>5. a = Caller => pc[t][Caller] = "record"
    BY <2>1
  <2> QED
    BY <2>1, <2>2, <2>3, <2>4, <2>5, ActorFacts DEF Told, FailStages
<1> QED
  BY <1>1, <1>2, <1>3, <1>4 DEF AnyActorStep

LEMMA ToldStep == Teller /\ [Next]_vars => Teller'
<1> SUFFICES ASSUME Teller, [Next]_vars, NEW u \in Tasks PROVE Told(u)'
  BY NextInv DEF Teller
<1>0. IInv /\ TypeOK /\ TaskInv(u) /\ Told(u)
  BY DEF Teller, IInv
<1>1. ASSUME UNCHANGED <<pc[u], row[u], bad[u]>>, dbFaults' = 0 => dbFaults = 0
      PROVE  Told(u)'
  BY <1>0, <1>1 DEF Told
<1>2. dbFaults' = 0 => dbFaults = 0
  <2>1. \A t, r : UpdateRow(t, r) => dbFaults' \in {dbFaults, dbFaults + 1}
    BY DEF UpdateRow
  <2>2. dbFaults' \in {dbFaults, dbFaults + 1}
    BY <2>1 DEF Next, Start, CallerStep, InsertTask, Launch, LaunchRestore, RefuseTask, BeginRestore,
           PullRestore, WaiterWakes, StartWatch, Poll, WorkerStep, Scan, AnnounceScan, AnnounceTransfer,
           OpenStream, RootPushed, AttemptFails, Wake, AttemptSucceeds, AnyActorStep, Complete,
           RecordCompleted, FailPhase, FailRow, FailNotify, Crash, Restart, vars, bounds
  <2> QED
    BY <1>0, <2>2, BoundsAssumption DEF TypeOK
<1>3. ASSUME NEW t \in Tasks, t # u,
             \/ Start(t) \/ CallerStep(t) \/ WaiterWakes(t) \/ StartWatch(t) \/ Poll(t)
             \/ \E s \in Servers : WorkerStep(t, s)
             \/ \E a \in Actors : AnyActorStep(t, a)
      PROVE  Told(u)'
  BY <1>0, <1>1, <1>2, <1>3, OthersUntouched DEF Untouched
<1>4. CASE WaiterWakes(u)
  <2>1. Waiter \notin bad[u] /\ Waiter # Caller /\ Waiter \in Actors
    BY <1>0, <1>4, ActorFacts DEF WaiterWakes, At, Told, FailStages
  <2> QED
    BY <1>0, <1>4, <2>1, ToldMoves DEF WaiterWakes, bounds, ghosts
<1>5. CASE StartWatch(u) \/ Poll(u)
  BY <1>1, <1>5 DEF StartWatch, Poll, bounds, ghosts
<1>6. CASE Crash
  <2>1. /\ row' = row /\ bad' = bad /\ bad[u] \subseteq Actors
        /\ pc'[u] = pc[u] \/ \A a \in Actors : pc'[u][a] = "gone"
    BY <1>0, <1>6 DEF Crash, TypeOK, ghosts
  <2> QED
    BY <1>0, <1>1, <1>2, <2>1, ActorFacts DEF Told
<1>7. CASE Restart
  <2>1. row'[u] = row[u] \/ row'[u] = [phase |-> "FAILED", error |-> TRUE]
    BY <1>0, <1>7 DEF Restart, TypeOK
  <2>2. row'[u] = [phase |-> "FAILED", error |-> TRUE] => row'[u].phase = "FAILED" /\ row'[u].error
    OBVIOUS
  <2>3. pc' = pc /\ bad' = bad
    BY <1>7 DEF Restart, ghosts
  <2> QED
    BY <1>0, <1>1, <1>2, <2>1, <2>2, <2>3 DEF Told
<1>8. CASE UNCHANGED vars
  BY <1>1, <1>8 DEF vars, bounds, ghosts
<1> QED
  BY <1>0, <1>3, <1>4, <1>5, <1>6, <1>7, <1>8, ToldCaller, ToldWorker, ToldActor DEF Next

\* UpdateTaskPhase(COMPLETED) masks the failure of a replica, but every replica's error is
\* in the row by then and stays there, unless a write of the row was lost.
THEOREM MaskedFailuresAreTold == Spec => []MaskedFailureLeavesError
<1>1. Init => Teller
  <2> SUFFICES ASSUME Init, NEW t \in Tasks PROVE Told(t)
    BY InitInv DEF Teller
  <2>1. bad[t] = {} /\ pc[t][Caller] = "idle"
    BY ActorFacts DEF Init
  <2> QED
    BY <2>1 DEF Told
<1>2. Teller => MaskedFailureLeavesError
  BY DEF Teller, Told, MaskedFailureLeavesError
<1> QED
  BY <1>1, <1>2, ToldStep, PTL DEF Spec

=============================================================================
