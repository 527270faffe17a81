----------------------- MODULE SnapshotRetentionProof -----------------------
(***************************************************************************)
(* Proofs about SnapshotRetention, for any number of concurrent streams    *)
(* and any retention policy: types, the floor of recovery points, and the  *)
(* refinement of RecoveryPoints.  The invariant says that the snapshots    *)
(* that exist are the numbers from First to taken, and that the list of a  *)
(* running cleanup, however stale, is an interval that starts no later.    *)
(***************************************************************************)
EXTENDS SnapshotRetention, FiniteSetTheorems, TLAPS

FirstOf(S, n) == IF S = {} THEN n + 1 ELSE Oldest(S)
First == FirstOf(snaps, taken)

\* CleanupSnapshots' list is an interval; nothing older than it is left.
ListOK(p) ==
  \E k \in 1..First, h \in 0..taken :
    /\ remaining[p] = k..h
    /\ push[p] = "reclaim" => h - k + 1 > MinKeep

Window == First \in 1..(taken + 1) /\ snaps = First..taken
Floor  == First = 1 \/ First <= taken - MinKeep + 1
Lists  == \A p \in Pushes : push[p] \in {"prune", "space", "reclaim"} => ListOK(p)

IInv == TypeOK /\ Window /\ Floor /\ Lists

-----------------------------------------------------------------------------

LEMMA OldestOfInterval ==
  ASSUME NEW k \in Int, NEW h \in Int, k <= h
  PROVE  Oldest(k..h) = k
BY DEF Oldest

\* The mapped `first' of an interval of snapshots is its lower end.
LEMMA FirstOfInterval ==
  ASSUME NEW k \in Int, NEW n \in Nat, k <= n + 1
  PROVE  FirstOf(k..n, n) = k
<1>1. CASE k <= n
  BY <1>1, OldestOfInterval DEF FirstOf
<1>2. CASE k = n + 1
  BY <1>2 DEF FirstOf
<1> QED
  BY <1>1, <1>2

LEMMA NewestOfInterval ==
  ASSUME NEW k \in Int, NEW h \in Int, k <= h
  PROVE  Newest(k..h) = h
BY DEF Newest

-----------------------------------------------------------------------------
(* What the steps do to the window.                                        *)

\* A step that creates and destroys no snapshot and leaves p's list alone.
LEMMA ListUnchanged ==
  ASSUME NEW p \in Pushes, ListOK(p), UNCHANGED <<taken, snaps, remaining>>,
         push'[p] = "reclaim" => push[p] = "reclaim"
  PROVE  ListOK(p)'
BY DEF ListOK, First

\* A stream takes a snapshot: the window grows at its new end.
LEMMA TakeWindow ==
  ASSUME taken \in Nat, Window, Floor, taken' = taken + 1, snaps' = snaps \cup {taken + 1}
  PROVE  First' = First /\ Window' /\ Floor'
<1>1. First \in 1..(taken + 1) /\ snaps = First..taken
  BY DEF Window
<1>2. snaps' = First..taken'
  BY <1>1
<1>3. First' = First
  <2>1. First \in Int /\ taken' \in Nat /\ First <= taken' + 1
    BY <1>1
  <2>2. FirstOf(First..taken', taken') = First
    BY <2>1, FirstOfInterval
  <2> QED
    BY <1>2, <2>2 DEF First
<1>4. Floor'
  BY <1>1, <1>3, PolicyAssumption DEF Floor
<1> QED
  BY <1>1, <1>2, <1>3, <1>4 DEF Window

\* A cleanup destroys the first snapshot of its list: it was the oldest that exists, and
\* at least MinKeep newer ones are left.
LEMMA DestroyWindow ==
  ASSUME taken \in Nat, Window, Floor, taken' = taken,
         NEW k \in 1..First, NEW h \in 0..taken, h - k + 1 > MinKeep,
         k \in snaps, snaps' = snaps \ {k}
  PROVE  First = k /\ First' = First + 1 /\ Window' /\ Floor'
         /\ First <= h /\ taken - First + 1 > MinKeep
<1>1. First \in 1..(taken + 1) /\ snaps = First..taken
  BY DEF Window
<1>2. First = k /\ k <= taken
  BY <1>1
<1>3. snaps' = (k + 1)..taken'
  BY <1>1, <1>2
<1>4. First' = k + 1
  <2>1. k + 1 \in Int /\ taken' \in Nat /\ k + 1 <= taken' + 1
    BY <1>1, <1>2
  <2>2. FirstOf((k + 1)..taken', taken') = k + 1
    BY <2>1, FirstOfInterval
  <2> QED
    BY <1>3, <2>2 DEF First
<1>5. k < h /\ taken - k + 1 > MinKeep
  BY <1>1, <1>2, PolicyAssumption
<1>6. Floor'
  BY <1>2, <1>4, <1>5, PolicyAssumption DEF Floor
<1> QED
  BY <1>1, <1>2, <1>3, <1>4, <1>5, <1>6 DEF Window

-----------------------------------------------------------------------------
(* Types.                                                                  *)

LEMMA IntervalFacts ==
  ASSUME NEW n \in Nat, NEW i \in 0..n
  PROVE  /\ 0 \in 0..n
         /\ i < n => i + 1 \in 0..n
OBVIOUS

LEMMA NextType == TypeOK /\ Window /\ [Next]_vars => TypeOK'
<1> SUFFICES ASSUME TypeOK, Window, [Next]_vars PROVE TypeOK'
  OBVIOUS
<1> USE FaultsAssumption
    DEF server, pushing, pulling, PushStages, RestoreStages,
        PushAt, PushGoto, RestoreAt, RestoreGoto
<1>0. Fault => faults' \in 0..MaxFaults
  BY IntervalFacts DEF Fault, TypeOK
<1>1. ASSUME NEW p \in Pushes, PushFault(p) PROVE TypeOK'
  BY <1>0, <1>1 DEF PushFault, TypeOK
<1>2. ASSUME NEW p \in Pushes, NEW next \in PushStages, DestroyOldest(p, next) PROVE TypeOK'
  <2>1. CASE PushFault(p)
    BY <1>1, <2>1
  <2>2. CASE ~PushFault(p)
    BY <1>2, <2>2 DEF DestroyOldest, TypeOK
  <2> QED
    BY <2>1, <2>2
<1>3. ASSUME NEW p \in Pushes, TakeSnapshot(p) PROVE TypeOK'
  <2>1. CASE PushFault(p)
    BY <1>1, <2>1
  <2>2. CASE ~PushFault(p)
    <3>1. /\ taken' = taken + 1 /\ taken' \in Nat
          /\ 1..taken \subseteq 1..taken' /\ 0..taken \subseteq 0..taken'
          /\ taken + 1 \in 1..taken' /\ taken + 1 \in 0..taken'
      <4>1. taken' = taken + 1 /\ taken \in Nat
        BY <1>3, <2>2 DEF TakeSnapshot, TypeOK
      <4> QED
        BY <4>1
    <3>2. /\ snaps' \subseteq 1..taken' /\ clone' \in [Restores -> 0..taken']
          /\ pick' \in [Restores -> 0..taken'] /\ remaining' \in [Pushes -> SUBSET (1..taken')]
      BY <1>3, <2>2, <3>1 DEF TakeSnapshot, TypeOK
    <3>3. own' \in [Pushes -> 0..taken'] /\ push' \in [Pushes -> PushStages]
      BY <1>3, <2>2, <3>1 DEF TakeSnapshot, TypeOK
    <3> QED
      BY <1>3, <2>2, <3>1, <3>2, <3>3 DEF TakeSnapshot, TypeOK
  <2> QED
    BY <2>1, <2>2
<1>4. ASSUME NEW p \in Pushes, PushStep(p) PROVE TypeOK'
  <2>1. CASE ListSnapshots(p)
    BY <1>1, <2>1 DEF ListSnapshots, TypeOK
  <2>2. CASE PruneExcess(p) \/ Reclaim(p)
    BY <1>2, <2>2 DEF PruneExcess, Reclaim
  <2>3. CASE PruneDone(p)
    BY <2>3 DEF PruneDone, TypeOK
  <2>4. CASE CheckSpace(p)
    BY <1>1, <2>4 DEF CheckSpace, ShortOfSpace, TypeOK
  <2> QED
    BY <1>4, <2>1, <2>2, <2>3, <2>4 DEF PushStep
<1>5. ASSUME NEW r \in Restores, LatestSnapshot(r) PROVE TypeOK'
  <2>1. snaps # {} => Newest(snaps) = taken
    BY NewestOfInterval DEF Window, TypeOK
  <2>2. taken \in 0..taken
    BY DEF TypeOK
  <2> QED
    BY <1>0, <1>5, <2>1, <2>2 DEF LatestSnapshot, TypeOK
<1>6. ASSUME NEW r \in Restores, RestoreStep(r) PROVE TypeOK'
  <2>1. CASE CreateClone(r)
    BY <1>0, <2>1 DEF CreateClone, TypeOK
  <2>2. CASE FindMountpoint(r)
    BY <1>0, <2>2 DEF FindMountpoint, TypeOK
  <2>3. CASE StreamFiles(r)
    BY <2>3 DEF StreamFiles, TypeOK
  <2>4. CASE DestroyClone(r)
    <3>1. 0 \in 0..taken
      BY DEF TypeOK
    <3> QED
      BY <1>0, <2>4, <3>1 DEF DestroyClone, TypeOK
  <2> QED
    BY <1>6, <2>1, <2>2, <2>3, <2>4 DEF RestoreStep
<1>7. CASE Crash
  <2>1. crashes + 1 \in 0..MaxCrashes
    BY <1>7, IntervalFacts DEF Crash, TypeOK
  <2> QED
    BY <1>7, <2>1 DEF Crash, TypeOK
<1>8. CASE Restart
  BY <1>8 DEF Restart, TypeOK
<1>9. CASE UNCHANGED vars
  BY <1>9 DEF vars, TypeOK
<1> QED
  BY <1>3, <1>4, <1>5, <1>6, <1>7, <1>8, <1>9 DEF Next

-----------------------------------------------------------------------------
(* The invariant.                                                          *)

LEMMA InitInv == Init => IInv
<1> SUFFICES ASSUME Init PROVE IInv
  OBVIOUS
<1>1. TypeOK
  BY FaultsAssumption, PolicyAssumption DEF Init, TypeOK, PushStages, RestoreStages
<1>2. First = 1
  <2>1. taken \in Nat /\ 1 \in Int /\ 1 <= taken + 1
    BY PolicyAssumption DEF Init
  <2> QED
    BY <2>1, FirstOfInterval DEF Init, First
<1> QED
  BY <1>1, <1>2 DEF Init, IInv, Window, Floor, Lists

\* A cleanup list is finite and its cardinality is its length.
LEMMA IntervalLength ==
  ASSUME NEW k \in Nat, NEW h \in Nat, Cardinality(k..h) > MinKeep
  PROVE  h - k + 1 > MinKeep
<1>1. k \in Int /\ h \in Int
  OBVIOUS
<1>2. Cardinality(k..h) = IF k > h THEN 0 ELSE h - k + 1
  BY <1>1, FS_Interval
<1> QED
  BY <1>2, PolicyAssumption

\* What a stream's step does when no snapshot is created or destroyed.
LEMMA QuietInv ==
  ASSUME IInv, UNCHANGED <<taken, snaps>>,
         \A p \in Pushes : push'[p] \in {"prune", "space", "reclaim"} => ListOK(p)'
  PROVE  Window' /\ Floor' /\ Lists'
BY DEF IInv, Window, Floor, Lists, First

\* One stream destroys the oldest snapshot that exists.
LEMMA DestroyInv ==
  ASSUME IInv, NEW p \in Pushes, NEW next \in {"prune", "space"},
         push[p] \in {"prune", "reclaim"}, Cardinality(remaining[p]) > MinKeep,
         Destroyable(Oldest(remaining[p])),
         snaps' = snaps \ {Oldest(remaining[p])},
         remaining' = [remaining EXCEPT ![p] = @ \ {Oldest(remaining[p])}],
         PushGoto(p, next), UNCHANGED taken
  PROVE  /\ Window' /\ Floor' /\ Lists'
         /\ First' = First + 1 /\ taken - First + 1 > MinKeep
<1>0. TypeOK /\ Window /\ Floor /\ Lists /\ ListOK(p) /\ taken \in Nat /\ First \in 1..(taken + 1)
  BY DEF IInv, Lists, TypeOK, Window
<1>1. PICK k \in 1..First, h \in 0..taken : remaining[p] = k..h
  BY <1>0 DEF ListOK
<1>2. k \in Nat /\ h \in Nat /\ k >= 1
  BY <1>0, <1>1
<1>3. h - k + 1 > MinKeep /\ k <= h
  BY <1>1, <1>2, IntervalLength, PolicyAssumption
<1>4. Oldest(remaining[p]) = k /\ k \in snaps
  BY <1>1, <1>2, <1>3, OldestOfInterval DEF Destroyable
<1>5. First = k /\ First' = First + 1 /\ Window' /\ Floor' /\ taken - First + 1 > MinKeep
  BY <1>0, <1>1, <1>3, <1>4, DestroyWindow
<1>6. ASSUME NEW q \in Pushes, push'[q] \in {"prune", "space", "reclaim"}
      PROVE  ListOK(q)'
  <2>1. CASE q = p
    <3>1. remaining'[p] = (k + 1)..h /\ push'[p] = next
      BY <1>0, <1>1, <1>2, <1>3, <1>4 DEF TypeOK, PushGoto
    <3>2. k + 1 \in 1..First' /\ h \in 0..taken'
      BY <1>0, <1>1, <1>2, <1>5
    <3> QED
      BY <2>1, <3>1, <3>2 DEF ListOK
  <2>2. CASE q # p
    <3>1. push'[q] = push[q] /\ remaining'[q] = remaining[q]
      BY <1>0, <2>2 DEF TypeOK, PushGoto
    <3>2. ListOK(q)
      BY <1>0, <1>6, <3>1 DEF Lists
    <3>3. PICK i \in 1..First, j \in 0..taken :
            remaining[q] = i..j /\ (push[q] = "reclaim" => j - i + 1 > MinKeep)
      BY <3>2 DEF ListOK
    <3>4. i \in 1..First' /\ j \in 0..taken'
      BY <1>0, <1>5, <3>3
    <3> QED
      BY <3>1, <3>3, <3>4 DEF ListOK
  <2> QED
    BY <2>1, <2>2
<1> QED
  BY <1>5, <1>6 DEF Lists

\* The free-space loop goes on to destroy only while its list is longer than MinKeep.
LEMMA ReclaimLength ==
  ASSUME IInv, NEW p \in Pushes, push[p] = "reclaim"
  PROVE  Cardinality(remaining[p]) > MinKeep
<1>1. PICK k \in 1..First, h \in 0..taken : remaining[p] = k..h /\ h - k + 1 > MinKeep
  BY DEF IInv, Lists, ListOK
<1>2. k \in Int /\ h \in Int /\ k <= h
  BY <1>1, PolicyAssumption DEF IInv, TypeOK, Window
<1>3. Cardinality(k..h) = h - k + 1
  BY <1>2, FS_Interval
<1> QED
  BY <1>1, <1>3

LEMMA NextInv == IInv /\ [Next]_vars => IInv'
<1> SUFFICES ASSUME IInv, [Next]_vars PROVE Window' /\ Floor' /\ Lists'
  BY NextType DEF IInv
<1>0. TypeOK /\ Window /\ Floor /\ Lists /\ taken \in Nat
  BY DEF IInv, TypeOK
\* A list that does not change is still an interval that starts no later.
<1>a. ASSUME UNCHANGED <<taken, snaps>>, NEW q \in Pushes, remaining'[q] = remaining[q],
             push[q] \in {"prune", "space", "reclaim"},
             push'[q] = "reclaim" => push[q] = "reclaim"
      PROVE  ListOK(q)'
  BY <1>0, <1>a DEF Lists, ListOK, First
<1>1. ASSUME NEW p \in Pushes, PushFault(p) PROVE Window' /\ Floor' /\ Lists'
  <2>1. \A q \in Pushes : push'[q] = IF q = p THEN "failed" ELSE push[q]
    BY <1>0, <1>1 DEF PushFault, PushGoto, TypeOK
  <2> QED
    BY <1>1, <1>a, <2>1, QuietInv DEF PushFault
<1>2. ASSUME NEW p \in Pushes, NEW next \in {"prune", "space"}, push[p] \in {"prune", "reclaim"},
             Cardinality(remaining[p]) > MinKeep, DestroyOldest(p, next)
      PROVE  Window' /\ Floor' /\ Lists'
  <2>1. CASE PushFault(p)
    BY <1>1, <2>1
  <2>2. CASE /\ ~Destroyable(Oldest(remaining[p])) /\ PushGoto(p, "failed")
             /\ UNCHANGED <<server, faults, taken, snaps, own, remaining, pulling>>
    <3>1. \A q \in Pushes : push'[q] = IF q = p THEN "failed" ELSE push[q]
      BY <1>0, <2>2 DEF PushGoto, TypeOK
    <3> QED
      BY <1>a, <2>2, <3>1, QuietInv
  <2>3. CASE ~PushFault(p) /\ Destroyable(Oldest(remaining[p]))
    BY <1>2, <2>3, DestroyInv DEF DestroyOldest
  <2> QED
    BY <1>2, <2>1, <2>2, <2>3 DEF DestroyOldest
<1>3. ASSUME NEW p \in Pushes, TakeSnapshot(p) PROVE Window' /\ Floor' /\ Lists'
  <2>1. CASE PushFault(p)
    BY <1>1, <2>1
  <2>2. CASE ~PushFault(p)
    <3>1. /\ taken' = taken + 1 /\ snaps' = snaps \cup {taken + 1} /\ remaining' = remaining
          /\ \A q \in Pushes : push'[q] = IF q = p THEN "list" ELSE push[q]
      BY <1>0, <1>3, <2>2 DEF TakeSnapshot, PushGoto, TypeOK
    <3>2. First' = First /\ Window' /\ Floor'
      BY <1>0, <3>1, TakeWindow
    <3>3. \A h \in 0..taken : h \in 0..taken'
      BY <1>0, <3>1
    <3> QED
      BY <1>0, <3>1, <3>2, <3>3 DEF Lists, ListOK
  <2> QED
    BY <2>1, <2>2
<1>4. ASSUME NEW p \in Pushes, PushStep(p) PROVE Window' /\ Floor' /\ Lists'
  <2>1. CASE ListSnapshots(p)
    <3>1. CASE PushFault(p)
      BY <1>1, <3>1
    <3>2. CASE ~PushFault(p)
      <4>1. /\ UNCHANGED <<taken, snaps>> /\ remaining'[p] = snaps
            /\ push'[p] \in {"ok", "prune"}
            /\ \A q \in Pushes \ {p} : push'[q] = push[q] /\ remaining'[q] = remaining[q]
        BY <1>0, <2>1, <3>2 DEF ListSnapshots, PushGoto, TypeOK
      <4>2. ListOK(p)'
        <5>1. First' = First /\ First \in 1..First /\ taken \in 0..taken
          BY <1>0, <4>1 DEF Window, First
        <5> QED
          BY <1>0, <4>1, <5>1 DEF ListOK, Window
      <4> QED
        BY <1>a, <4>1, <4>2, QuietInv
    <3> QED
      BY <3>1, <3>2
  <2>2. CASE PruneExcess(p)
    BY <1>2, <2>2 DEF PruneExcess, Excess, PushAt
  <2>3. CASE PruneDone(p)
    <3>1. /\ UNCHANGED <<taken, snaps, remaining>> /\ push[p] = "prune"
          /\ \A q \in Pushes : push'[q] = IF q = p THEN "space" ELSE push[q]
      BY <1>0, <2>3 DEF PruneDone, PushGoto, PushAt, TypeOK
    <3> QED
      BY <1>a, <3>1, QuietInv
  <2>4. CASE CheckSpace(p)
    <3>1. CASE PushFault(p)
      BY <1>1, <3>1
    <3>2. CASE ~PushFault(p)
      <4>1. /\ UNCHANGED <<taken, snaps, remaining>> /\ push[p] = "space"
            /\ push'[p] \in {"ok", "failed", "reclaim"}
            /\ push'[p] = "reclaim" => ~(Cardinality(remaining[p]) <= MinKeep)
            /\ \A q \in Pushes \ {p} : push'[q] = push[q]
        BY <1>0, <2>4, <3>2 DEF CheckSpace, ShortOfSpace, PushGoto, PushAt, TypeOK
      <4>2. ASSUME push'[p] = "reclaim" PROVE ListOK(p)'
        <5>1. PICK k \in 1..First, h \in 0..taken : remaining[p] = k..h
          BY <1>0, <4>1 DEF Lists, ListOK
        <5>2. Cardinality(k..h) > MinKeep
          <6>1. Cardinality(k..h) \in Nat
            BY <1>0, <5>1, FS_Interval, FS_CardinalityType DEF Window
          <6> QED
            BY <4>1, <4>2, <5>1, <6>1, PolicyAssumption
        <5>3. h - k + 1 > MinKeep
          BY <1>0, <5>1, <5>2, IntervalLength DEF Window
        <5>4. First' = First /\ taken' = taken
          BY <4>1 DEF First
        <5> QED
          BY <4>1, <5>1, <5>3, <5>4 DEF ListOK
      <4> QED
        BY <1>a, <4>1, <4>2, QuietInv
    <3> QED
      BY <3>1, <3>2
  <2>5. CASE Reclaim(p)
    BY <1>2, <2>5, ReclaimLength DEF Reclaim, PushAt
  <2> QED
    BY <1>4, <2>1, <2>2, <2>3, <2>4, <2>5 DEF PushStep
<1>5. ASSUME UNCHANGED <<taken, snaps, pushing>> PROVE Window' /\ Floor' /\ Lists'
  BY <1>a, <1>5, QuietInv DEF pushing
<1>6. ASSUME NEW r \in Restores, LatestSnapshot(r) \/ RestoreStep(r)
      PROVE  UNCHANGED <<taken, snaps, pushing>>
  BY <1>6 DEF LatestSnapshot, RestoreStep, CreateClone, FindMountpoint, StreamFiles, DestroyClone
<1>7. CASE Crash
  <2>1. /\ UNCHANGED <<taken, snaps, remaining>>
        /\ \A q \in Pushes : push'[q] \in {push[q], "gone"}
    BY <1>7 DEF Crash
  <2> QED
    BY <1>a, <2>1, QuietInv
<1>8. CASE Restart \/ UNCHANGED vars
  BY <1>5, <1>8 DEF Restart, vars
<1> QED
  BY <1>3, <1>4, <1>5, <1>6, <1>7, <1>8 DEF Next

THEOREM Inductive == Spec => []IInv
BY InitInv, NextInv, PTL DEF Spec

-----------------------------------------------------------------------------
(* The theorems.                                                           *)

\* Types: in particular a snapshot is destroyed, cloned or listed only after it was taken.
THEOREM TypeCorrect == Spec => []TypeOK
<1>1. IInv => TypeOK
  BY DEF IInv
<1> QED
  BY <1>1, Inductive, PTL

\* CleanupSnapshots never touches the newest MinKeep snapshots, whatever other streams,
\* failures and restarts do between its listing and its destroys.
THEOREM RecentPointsKept == Spec => []RecentKept
<1>1. IInv => RecentKept
  BY PolicyAssumption DEF IInv, TypeOK, Window, Floor, RecentKept
<1> QED
  BY <1>1, Inductive, PTL

\* A step of the Server creates the next recovery point, destroys the oldest one while more
\* than MinKeep are left, or leaves the window alone.
LEMMA StepOfPoints ==
  ASSUME IInv, [Next]_vars
  PROVE  \/ taken' = taken + 1 /\ First' = First
         \/ taken - First + 1 > MinKeep /\ First' = First + 1 /\ taken' = taken
         \/ UNCHANGED <<First, taken>>
<1>0. TypeOK /\ Window /\ Floor /\ Lists /\ taken \in Nat
  BY DEF IInv, TypeOK
<1>1. ASSUME UNCHANGED <<taken, snaps>> PROVE UNCHANGED <<First, taken>>
  BY <1>1 DEF First
<1>2. ASSUME NEW p \in Pushes, TakeSnapshot(p), ~UNCHANGED <<taken, snaps>>
      PROVE  taken' = taken + 1 /\ First' = First
  <2>1. taken' = taken + 1 /\ snaps' = snaps \cup {taken + 1}
    BY <1>2 DEF TakeSnapshot, PushFault
  <2> QED
    BY <1>0, <2>1, TakeWindow
<1>3. ASSUME NEW p \in Pushes, NEW next \in {"prune", "space"}, push[p] \in {"prune", "reclaim"},
             Cardinality(remaining[p]) > MinKeep, DestroyOldest(p, next),
             ~UNCHANGED <<taken, snaps>>
      PROVE  taken - First + 1 > MinKeep /\ First' = First + 1 /\ taken' = taken
  BY <1>3, DestroyInv DEF DestroyOldest, PushFault
<1>4. ASSUME NEW p \in Pushes, PushStep(p), ~UNCHANGED <<taken, snaps>>
      PROVE  taken - First + 1 > MinKeep /\ First' = First + 1 /\ taken' = taken
  <2>1. PruneExcess(p) \/ Reclaim(p)
    BY <1>4 DEF PushStep, ListSnapshots, PruneDone, CheckSpace, ShortOfSpace, PushFault
  <2>2. CASE PruneExcess(p)
    BY <1>3, <1>4, <2>2 DEF PruneExcess, Excess, PushAt
  <2>3. CASE Reclaim(p)
    BY <1>3, <1>4, <2>3, ReclaimLength DEF Reclaim, PushAt
  <2> QED
    BY <2>1, <2>2, <2>3
<1>5. ASSUME NEW r \in Restores, LatestSnapshot(r) \/ RestoreStep(r)
      PROVE  UNCHANGED <<taken, snaps>>
  BY <1>5 DEF LatestSnapshot, RestoreStep, CreateClone, FindMountpoint, StreamFiles, DestroyClone
<1>6. CASE Crash \/ Restart \/ UNCHANGED vars
  BY <1>1, <1>6 DEF Crash, Restart, vars
<1> QED
  BY <1>1, <1>2, <1>4, <1>5, <1>6 DEF Next

\* The Server's snapshots implement RecoveryPoints: a window that grows at the new end and
\* shrinks at the old end, never below MinKeep.
THEOREM ImplementsPoints == Spec => PointsSpec
<1>1. Init => Points!Init
  <2>1. ASSUME Init PROVE First = 1 /\ taken \in Nat
    BY <2>1, InitInv, PolicyAssumption, FirstOfInterval DEF Init, First
  <2> QED
    BY <2>1 DEF Points!Init, First, FirstOf
<1>2. IInv /\ [Next]_vars => [Points!Next]_<<IF snaps = {} THEN taken + 1 ELSE Oldest(snaps), taken>>
  BY StepOfPoints DEF First, FirstOf, Points!Next, Points!Take, Points!Prune
<1>3. IInv => snaps = Points!Kept
  BY DEF IInv, Window, First, FirstOf, Points!Kept
<1> QED
  BY <1>1, <1>2, <1>3, Inductive, PTL DEF Spec, PointsSpec, Points!Spec

-----------------------------------------------------------------------------
(* Retention keeps up.  Above some horizon every snapshot was taken by a     *)
(* stream that is not acknowledged, and at most MaxKeep of those that exist  *)
(* are not above it: the horizon is the newest snapshot on the list of the   *)
(* stream acknowledged last, or the last one there was at the start.         *)

Unacknowledged == {p \in Pushes : own[p] # 0 /\ push[p] # "ok"}

Horizon(H) ==
  /\ H - First + 1 <= MaxKeep
  /\ \A n \in (H + 1)..taken : \E p \in Pushes : own[p] = n /\ push[p] # "ok"

\* CleanupSnapshots' list begins no later than the window, has the stream's own snapshot
\* or ends after it, and is not too long once the first loop is over.
Trimmed(p) ==
  \E k \in 1..First, h \in 0..taken :
    /\ remaining[p] = k..h
    /\ own[p] <= h
    /\ push[p] # "prune" => h - k + 1 <= MaxKeep

Unborn   == \A p \in Pushes : push[p] = "idle" => own[p] = 0
Cleaning == \A p \in Pushes : push[p] \in {"prune", "space", "reclaim"} => Trimmed(p)
Horizons == \E H \in 0..taken : Horizon(H)

GrowthInv == Unborn /\ Cleaning /\ Horizons

\* A list no longer than n has few elements, and the other way round.
LEMMA ShortInterval ==
  ASSUME NEW k \in Int, NEW h \in Int, NEW n \in Nat, Cardinality(k..h) <= n
  PROVE  h - k + 1 <= n
<1>1. Cardinality(k..h) = IF k > h THEN 0 ELSE h - k + 1
  BY FS_Interval
<1> QED
  BY <1>1

\* The first loop ends with a list of at most MaxKeep.
LEMMA NoExcess ==
  ASSUME NEW k \in Int, NEW h \in Int, ~Excess(k..h)
  PROVE  h - k + 1 <= MaxKeep
<1>1. Cardinality(k..h) = IF k > h THEN 0 ELSE h - k + 1
  BY FS_Interval
<1> QED
  BY <1>1, PolicyAssumption DEF Excess

LEMMA InitGrowth == Init => GrowthInv
<1> SUFFICES ASSUME Init PROVE GrowthInv
  OBVIOUS
<1>1. taken \in 0..MaxKeep /\ First = 1
  <2>1. taken \in Nat /\ 1 \in Int /\ 1 <= taken + 1
    BY PolicyAssumption DEF Init
  <2> QED
    BY <2>1, FirstOfInterval DEF Init, First
<1>2. taken \in 0..taken /\ Horizon(taken)
  BY <1>1, PolicyAssumption DEF Horizon
<1> QED
  BY <1>2 DEF Init, GrowthInv, Unborn, Cleaning, Horizons

\* A horizon survives a step that takes no snapshot and acknowledges nobody.
LEMMA HorizonStays ==
  ASSUME IInv, Horizons, UNCHANGED <<taken, own>>, First' >= First, First' \in Int,
         \A p \in Pushes : push'[p] = "ok" => push[p] = "ok"
  PROVE  Horizons'
<1>1. PICK H \in 0..taken : Horizon(H)
  BY DEF Horizons
<1>2. First \in Int /\ H \in Int /\ MaxKeep \in Int
  BY PolicyAssumption DEF IInv, Window, TypeOK
<1>3. H - First' + 1 <= MaxKeep
  <2>1. H - First + 1 <= MaxKeep
    BY <1>1 DEF Horizon
  <2>2. \A i, j, h, m \in Int : j >= i /\ h - i + 1 <= m => h - j + 1 <= m
    OBVIOUS
  <2> QED
    BY <1>2, <2>1, <2>2
<1> QED
  BY <1>1, <1>3 DEF Horizon, Horizons

\* An acknowledged stream's list is short and ends after its own snapshot: it can be the
\* new horizon.
LEMMA HorizonMoves ==
  ASSUME IInv, Horizons, NEW p \in Pushes, UNCHANGED <<taken, own, snaps>>,
         \A q \in Pushes \ {p} : push'[q] = push[q],
         NEW h \in 0..taken, own[p] <= h, h - First + 1 <= MaxKeep
  PROVE  Horizons'
<1>0. taken \in Nat /\ First' = First /\ First \in Int /\ own \in [Pushes -> 0..taken]
  BY DEF IInv, TypeOK, Window, First
<1>1. PICK H \in 0..taken : Horizon(H)
  BY DEF Horizons
<1> DEFINE G == IF H <= h THEN h ELSE H
<1>2. G \in 0..taken /\ H <= G /\ h <= G /\ G - First' + 1 <= MaxKeep
  BY <1>0, <1>1 DEF Horizon
<1>3. ASSUME NEW n \in (G + 1)..taken
      PROVE  \E q \in Pushes : own'[q] = n /\ push'[q] # "ok"
  <2>1. n \in (H + 1)..taken /\ n > h
    BY <1>0, <1>2
  <2>2. PICK q \in Pushes : own[q] = n /\ push[q] # "ok"
    BY <1>1, <2>1 DEF Horizon
  <2>3. q # p
    BY <1>0, <2>1, <2>2
  <2> QED
    BY <2>2, <2>3
<1> HIDE DEF G
<1>4. Horizon(G)'
  BY <1>2, <1>3 DEF Horizon
<1> QED
  BY <1>2, <1>4 DEF Horizons

\* The list of a stream that does not move.
LEMMA TrimmedStays ==
  ASSUME IInv, NEW p \in Pushes, Trimmed(p), taken' \in Nat, taken' >= taken,
         First' \in Int, First' >= First,
         remaining'[p] = remaining[p], own'[p] = own[p], push'[p] = push[p]
  PROVE  Trimmed(p)'
<1>1. PICK k \in 1..First, h \in 0..taken :
        /\ remaining[p] = k..h
        /\ own[p] <= h
        /\ push[p] # "prune" => h - k + 1 <= MaxKeep
  BY DEF Trimmed
<1>2. k \in 1..First' /\ h \in 0..taken'
  BY <1>1 DEF IInv, TypeOK, Window
<1> QED
  BY <1>1, <1>2 DEF Trimmed

\* What a step of one stream leaves to show: its own list, and the horizon.
LEMMA OthersStay ==
  ASSUME IInv, GrowthInv, NEW p \in Pushes, push'[p] # "idle",
         taken' \in Nat, taken' >= taken, First' \in Int, First' >= First,
         \A q \in Pushes \ {p} :
           push'[q] = push[q] /\ own'[q] = own[q] /\ remaining'[q] = remaining[q],
         push'[p] \in {"prune", "space", "reclaim"} => Trimmed(p)'
  PROVE  Unborn' /\ Cleaning'
<1>1. ASSUME NEW q \in Pushes \ {p}, push'[q] \in {"prune", "space", "reclaim"}
      PROVE  Trimmed(q)'
  BY <1>1, TrimmedStays DEF GrowthInv, Cleaning
<1> QED
  BY <1>1 DEF GrowthInv, Unborn, Cleaning

\* A step that moves no list, and acknowledges nobody.
LEMMA QuietGrowth ==
  ASSUME IInv, GrowthInv, UNCHANGED <<taken, snaps, own, remaining>>,
         \A q \in Pushes : push'[q] \in {push[q], "failed", "gone"}
  PROVE  GrowthInv'
<1>1. taken \in Nat /\ First' = First /\ First \in Int
  BY DEF IInv, TypeOK, Window, First
<1>2. ASSUME NEW q \in Pushes, push'[q] \in {"prune", "space", "reclaim"} PROVE Trimmed(q)'
  BY <1>1, <1>2, TrimmedStays DEF GrowthInv, Cleaning
<1>3. Horizons'
  BY <1>1, HorizonStays DEF GrowthInv
<1> QED
  BY <1>2, <1>3 DEF GrowthInv, Unborn, Cleaning

\* One stream destroys the first snapshot of its list.
LEMMA DestroyGrowth ==
  ASSUME IInv, GrowthInv, NEW p \in Pushes, NEW next \in {"prune", "space"},
         push[p] \in {"prune", "reclaim"}, push[p] = "prune" => next = "prune",
         Cardinality(remaining[p]) > MinKeep,
         Destroyable(Oldest(remaining[p])),
         snaps' = snaps \ {Oldest(remaining[p])},
         remaining' = [remaining EXCEPT ![p] = @ \ {Oldest(remaining[p])}],
         PushGoto(p, next), UNCHANGED <<taken, own>>
  PROVE  GrowthInv'
<1>0. TypeOK /\ Window /\ taken \in Nat /\ First \in 1..(taken + 1) /\ Trimmed(p)
  BY DEF IInv, TypeOK, Window, GrowthInv, Cleaning
<1>1. First' = First + 1
  BY DestroyInv
<1>2. PICK k \in 1..First, h \in 0..taken :
        /\ remaining[p] = k..h
        /\ own[p] <= h
        /\ push[p] # "prune" => h - k + 1 <= MaxKeep
  BY <1>0 DEF Trimmed
<1>3. k \in Int /\ h \in Int /\ k <= h
  <2>1. k \in Nat /\ h \in Nat
    BY <1>0, <1>2
  <2>2. h - k + 1 > MinKeep
    BY <1>2, <2>1, IntervalLength
  <2> QED
    BY <2>1, <2>2, PolicyAssumption
<1>4. Oldest(remaining[p]) = k
  BY <1>2, <1>3, OldestOfInterval
<1>5. remaining'[p] = (k + 1)..h /\ push'[p] = next
  BY <1>0, <1>2, <1>3, <1>4 DEF TypeOK, PushGoto
<1>6. Trimmed(p)'
  <2>1. k + 1 \in 1..First' /\ h \in 0..taken'
    BY <1>0, <1>1, <1>2
  <2>2. push'[p] # "prune" => h - (k + 1) + 1 <= MaxKeep
    BY <1>2, <1>3, <1>5, PolicyAssumption
  <2> QED
    BY <1>2, <1>5, <2>1, <2>2 DEF Trimmed
<1>7. \A q \in Pushes \ {p} :
        push'[q] = push[q] /\ own'[q] = own[q] /\ remaining'[q] = remaining[q]
  BY <1>0 DEF TypeOK, PushGoto
<1>8. First' \in Int /\ First' >= First /\ taken' \in Nat /\ taken' >= taken
  BY <1>0, <1>1
<1>9. Unborn' /\ Cleaning'
  BY <1>5, <1>6, <1>7, <1>8, OthersStay
<1>10. Horizons'
  BY <1>5, <1>7, <1>8, HorizonStays DEF GrowthInv
<1> QED
  BY <1>9, <1>10 DEF GrowthInv

\* A stream's snapshot is above every horizon until the stream is acknowledged.
LEMMA TakeGrowth ==
  ASSUME IInv, GrowthInv, NEW p \in Pushes, push[p] = "idle",
         taken' = taken + 1, snaps' = snaps \cup {taken + 1},
         own' = [own EXCEPT ![p] = taken + 1], PushGoto(p, "list"), UNCHANGED remaining
  PROVE  GrowthInv'
<1>0. TypeOK /\ Window /\ Floor /\ taken \in Nat /\ First \in 1..(taken + 1)
  BY DEF IInv, TypeOK, Window
<1>1. First' = First
  BY <1>0, TakeWindow
<1>2. /\ push'[p] = "list" /\ own'[p] = taken + 1 /\ own[p] = 0
      /\ \A q \in Pushes \ {p} :
           push'[q] = push[q] /\ own'[q] = own[q] /\ remaining'[q] = remaining[q]
  BY <1>0 DEF TypeOK, PushGoto, GrowthInv, Unborn
<1>3. First' \in Int /\ First' >= First /\ taken' \in Nat /\ taken' >= taken
  BY <1>0, <1>1
<1>4. Unborn' /\ Cleaning'
  BY <1>2, <1>3, OthersStay
<1>5. PICK H \in 0..taken : Horizon(H)
  BY DEF GrowthInv, Horizons
<1>6. ASSUME NEW n \in (H + 1)..taken'
      PROVE  \E q \in Pushes : own'[q] = n /\ push'[q] # "ok"
  <2>1. CASE n = taken + 1
    BY <1>2, <2>1
  <2>2. CASE n # taken + 1
    <3>1. n \in (H + 1)..taken /\ n # 0
      BY <1>0, <2>2
    <3>2. PICK q \in Pushes : own[q] = n /\ push[q] # "ok"
      BY <1>5, <3>1 DEF Horizon
    <3> QED
      BY <1>2, <3>1, <3>2
  <2> QED
    BY <2>1, <2>2
<1>7. H \in 0..taken' /\ H - First' + 1 <= MaxKeep
  BY <1>0, <1>1, <1>5 DEF Horizon
<1>8. Horizon(H)'
  BY <1>6, <1>7 DEF Horizon
<1> QED
  BY <1>4, <1>7, <1>8 DEF GrowthInv, Horizons

LEMMA NextGrowth == IInv /\ GrowthInv /\ [Next]_vars => GrowthInv'
<1> SUFFICES ASSUME IInv, GrowthInv, [Next]_vars PROVE GrowthInv'
  OBVIOUS
<1>0. TypeOK /\ Window /\ Floor /\ taken \in Nat /\ First \in 1..(taken + 1)
  BY DEF IInv, TypeOK, Window
<1>1. ASSUME NEW p \in Pushes, PushFault(p) PROVE GrowthInv'
  <2>1. /\ UNCHANGED <<taken, snaps, own, remaining>>
        /\ \A q \in Pushes : push'[q] \in {push[q], "failed"}
    BY <1>0, <1>1 DEF PushFault, PushGoto, TypeOK
  <2> QED
    BY <2>1, QuietGrowth
<1>2. ASSUME NEW p \in Pushes, NEW next \in {"prune", "space"}, push[p] \in {"prune", "reclaim"},
             push[p] = "prune" => next = "prune",
             Cardinality(remaining[p]) > MinKeep, DestroyOldest(p, next)
      PROVE  GrowthInv'
  <2>1. CASE PushFault(p)
    BY <1>1, <2>1
  <2>2. CASE /\ ~Destroyable(Oldest(remaining[p])) /\ PushGoto(p, "failed")
             /\ UNCHANGED <<server, faults, taken, snaps, own, remaining, pulling>>
    <3>1. \A q \in Pushes : push'[q] \in {push[q], "failed"}
      BY <1>0, <2>2 DEF PushGoto, TypeOK
    <3> QED
      BY <2>2, <3>1, QuietGrowth
  <2>3. CASE ~PushFault(p) /\ Destroyable(Oldest(remaining[p]))
    BY <1>2, <2>3, DestroyGrowth DEF DestroyOldest
  <2> QED
    BY <1>2, <2>1, <2>2, <2>3 DEF DestroyOldest
<1>3. ASSUME NEW p \in Pushes, TakeSnapshot(p) PROVE GrowthInv'
  BY <1>1, <1>3, TakeGrowth DEF TakeSnapshot, PushAt
\* The steps of a stream that create and destroy nothing.
<1>4. ASSUME NEW p \in Pushes, UNCHANGED <<taken, snaps, own>>, push'[p] # "idle",
             \A q \in Pushes \ {p} : push'[q] = push[q] /\ remaining'[q] = remaining[q],
             push'[p] \in {"prune", "space", "reclaim"} => Trimmed(p)',
             push'[p] = "ok" => Horizons'
      PROVE  GrowthInv'
  <2>1. First' = First /\ First \in Int /\ First' >= First /\ taken' \in Nat /\ taken' >= taken
    BY <1>0, <1>4 DEF First
  <2>2. Unborn' /\ Cleaning'
    BY <1>4, <2>1, OthersStay
  <2>3. Horizons'
    <3>1. CASE push'[p] = "ok"
      BY <1>4, <3>1
    <3>2. CASE push'[p] # "ok"
      <4>1. \A q \in Pushes : push'[q] = "ok" => push[q] = "ok"
        BY <1>4, <3>2
      <4> QED
        BY <1>4, <2>1, <4>1, HorizonStays DEF GrowthInv
    <3> QED
      BY <3>1, <3>2
  <2> QED
    BY <2>2, <2>3 DEF GrowthInv
<1>5. ASSUME NEW p \in Pushes, ListSnapshots(p), ~PushFault(p) PROVE GrowthInv'
  <2>1. /\ UNCHANGED <<taken, snaps, own>> /\ remaining'[p] = snaps
        /\ push'[p] = IF Cardinality(snaps) <= MinKeep THEN "ok" ELSE "prune"
        /\ \A q \in Pushes \ {p} : push'[q] = push[q] /\ remaining'[q] = remaining[q]
    BY <1>0, <1>5 DEF ListSnapshots, PushGoto, TypeOK
  <2>2. First' = First /\ taken \in 0..taken /\ First \in 1..First /\ own[p] <= taken
        /\ First \in Int /\ snaps = First..taken
    BY <1>0, <2>1 DEF Window, First, TypeOK
  <2>3. push'[p] = "prune" => Trimmed(p)'
    BY <2>1, <2>2 DEF Trimmed
  <2>4. push'[p] = "ok" => Horizons'
    <3> SUFFICES ASSUME push'[p] = "ok" PROVE Horizons'
      OBVIOUS
    <3>1. Cardinality(First..taken) <= MinKeep
      BY <2>1, <2>2
    <3>2. taken - First + 1 <= MinKeep
      BY <1>0, <2>2, <3>1, ShortInterval, PolicyAssumption
    <3>3. taken - First + 1 <= MaxKeep
      BY <1>0, <2>2, <3>2, PolicyAssumption
    <3> QED
      BY <2>1, <2>2, <3>3, HorizonMoves DEF GrowthInv
  <2> QED
    BY <1>4, <2>1, <2>3, <2>4
<1>6. ASSUME NEW p \in Pushes, PruneDone(p) PROVE GrowthInv'
  <2>1. /\ UNCHANGED <<taken, snaps, own, remaining>> /\ push[p] = "prune" /\ push'[p] = "space"
        /\ ~Excess(remaining[p]) /\ \A q \in Pushes \ {p} : push'[q] = push[q]
    BY <1>0, <1>6 DEF PruneDone, PushGoto, PushAt, TypeOK
  <2>2. PICK k \in 1..First, h \in 0..taken : remaining[p] = k..h /\ own[p] <= h
    BY <2>1 DEF GrowthInv, Cleaning, Trimmed
  <2>3. h - k + 1 <= MaxKeep
    BY <1>0, <2>1, <2>2, NoExcess
  <2>4. First' = First
    BY <2>1 DEF First
  <2>5. Trimmed(p)'
    BY <2>1, <2>2, <2>3, <2>4 DEF Trimmed
  <2> QED
    BY <1>4, <2>1, <2>5
<1>7. ASSUME NEW p \in Pushes, CheckSpace(p), ~PushFault(p) PROVE GrowthInv'
  <2>1. /\ UNCHANGED <<taken, snaps, own, remaining>> /\ push[p] = "space"
        /\ push'[p] \in {"ok", "failed", "reclaim"}
        /\ \A q \in Pushes \ {p} : push'[q] = push[q]
    BY <1>0, <1>7 DEF CheckSpace, ShortOfSpace, PushGoto, PushAt, TypeOK
  <2>2. PICK k \in 1..First, h \in 0..taken :
          remaining[p] = k..h /\ own[p] <= h /\ h - k + 1 <= MaxKeep
    BY <2>1 DEF GrowthInv, Cleaning, Trimmed
  <2>3. First' = First
    BY <2>1 DEF First
  <2>4. Trimmed(p)'
    BY <2>1, <2>2, <2>3 DEF Trimmed
  <2>5. h - First + 1 <= MaxKeep
    BY <1>0, <2>2, PolicyAssumption
  <2>6. Horizons'
    BY <2>1, <2>2, <2>5, HorizonMoves DEF GrowthInv
  <2> QED
    BY <1>4, <2>1, <2>4, <2>6
<1>8. ASSUME NEW p \in Pushes, PushStep(p) PROVE GrowthInv'
  <2>1. CASE PushFault(p)
    BY <1>1, <2>1
  <2>2. CASE PruneExcess(p)
    BY <1>2, <2>2 DEF PruneExcess, Excess, PushAt
  <2>3. CASE Reclaim(p)
    BY <1>2, <2>3, ReclaimLength DEF Reclaim, PushAt
  <2> QED
    BY <1>5, <1>6, <1>7, <1>8, <2>1, <2>2, <2>3 DEF PushStep
<1>9. ASSUME NEW r \in Restores, LatestSnapshot(r) \/ RestoreStep(r) PROVE GrowthInv'
  <2>1. UNCHANGED <<taken, snaps, own, remaining, push>>
    BY <1>9 DEF LatestSnapshot, RestoreStep, CreateClone, FindMountpoint, StreamFiles,
                DestroyClone, pushing
  <2> QED
    BY <2>1, QuietGrowth
<1>10. CASE Crash \/ Restart \/ UNCHANGED vars
  <2>1. /\ UNCHANGED <<taken, snaps, own, remaining>>
        /\ \A q \in Pushes : push'[q] \in {push[q], "gone"}
    BY <1>10 DEF Crash, Restart, vars, pushing
  <2> QED
    BY <2>1, QuietGrowth
<1> QED
  BY <1>3, <1>8, <1>9, <1>10 DEF Next

\* The snapshots above a horizon are no more than the streams that took them.
LEMMA AboveHorizon ==
  ASSUME TypeOK, NEW H \in 0..taken, Horizon(H)
  PROVE  /\ IsFiniteSet(Unacknowledged)
         /\ taken - H <= Cardinality(Unacknowledged)
<1> DEFINE Above == (H + 1)..taken
           Owners == {p \in Unacknowledged : own[p] \in Above}
           f == [p \in Owners |-> own[p]]
<1>0. taken \in Nat /\ H \in Nat /\ H <= taken
  BY DEF TypeOK
<1>1. IsFiniteSet(Unacknowledged)
  BY StreamsAssumption, FS_Subset DEF Unacknowledged
<1>2. IsFiniteSet(Owners) /\ Cardinality(Owners) <= Cardinality(Unacknowledged)
  BY <1>1, FS_Subset
<1>3. f \in Surjection(Owners, Above)
  <2>1. f \in [Owners -> Above]
    OBVIOUS
  <2>2. ASSUME NEW n \in Above PROVE \E p \in Owners : f[p] = n
    <3>1. PICK p \in Pushes : own[p] = n /\ push[p] # "ok"
      BY DEF Horizon
    <3>2. n # 0
      BY <1>0
    <3>3. p \in Owners
      BY <3>1, <3>2 DEF Unacknowledged
    <3> QED
      BY <3>1, <3>3
  <2> QED
    BY <2>1, <2>2 DEF Surjection
<1>4. Cardinality(Above) <= Cardinality(Owners)
  BY <1>2, <1>3, FS_Surjection
<1>5. Cardinality(Above) = taken - H
  <2>1. H + 1 \in Int /\ taken \in Int
    BY <1>0
  <2>2. Cardinality((H + 1)..taken) = IF H + 1 > taken THEN 0 ELSE taken - (H + 1) + 1
    BY <2>1, FS_Interval
  <2> QED
    BY <1>0, <2>2
<1>6. Cardinality(Owners) \in Nat /\ Cardinality(Unacknowledged) \in Nat
  BY <1>1, <1>2, FS_CardinalityType
<1> HIDE DEF Above, Owners
<1> QED
  BY <1>0, <1>1, <1>2, <1>4, <1>5, <1>6

\* However many streams clean up at once on lists that have become stale, the snapshots
\* beyond MaxKeep are accounted for by streams that took one and were not acknowledged.
THEOREM RetentionKeepsUp == Spec => []GrowthBound
<1>1. IInv /\ GrowthInv => GrowthBound
  <2> SUFFICES ASSUME IInv, GrowthInv PROVE GrowthBound
    OBVIOUS
  <2>1. PICK H \in 0..taken : Horizon(H)
    BY DEF GrowthInv, Horizons
  <2>2. TypeOK /\ taken \in Nat /\ First \in Int /\ H \in Int /\ MaxKeep \in Nat /\ snaps = First..taken
    BY PolicyAssumption DEF IInv, TypeOK, Window
  <2>3. IsFiniteSet(Unacknowledged) /\ taken - H <= Cardinality(Unacknowledged)
    BY <2>1, <2>2, AboveHorizon
  <2>4. Cardinality(Unacknowledged) \in Nat
    BY <2>3, FS_CardinalityType
  <2>5. Cardinality(snaps) = IF First > taken THEN 0 ELSE taken - First + 1
    BY <2>2, FS_Interval
  <2>6. Cardinality(snaps) <= MaxKeep + Cardinality(Unacknowledged)
    BY <2>1, <2>2, <2>3, <2>4, <2>5 DEF Horizon
  <2> QED
    BY <2>6 DEF GrowthBound, Unacknowledged
<1> QED
  BY <1>1, Inductive, InitGrowth, NextGrowth, PTL DEF Spec

\* A clone whose restore has ended is one that ZFS twice refused to destroy at the end of
\* that restore, or one whose restore ended with the Server: no other failure, in the
\* restore or beside it, leaves a clone behind.
THEOREM ClonesAreDestroyed == Spec => []NoLeakedClone
<1> DEFINE Held == {"mount", "read", "destroy", "abandon"} \cup {"stuck", "gone"}
<1>1. Init => NoLeakedClone
  BY DEF Init, NoLeakedClone
<1>2. TypeOK /\ NoLeakedClone /\ [Next]_vars => NoLeakedClone'
  <2> SUFFICES ASSUME TypeOK, NoLeakedClone, [Next]_vars, NEW r \in Restores, clone'[r] # 0
               PROVE  restore'[r] \in Held
    BY DEF NoLeakedClone
  <2>0. clone[r] # 0 => restore[r] \in Held
    BY DEF NoLeakedClone
  <2>1. ASSUME NEW p \in Pushes, TakeSnapshot(p) \/ PushStep(p)
        PROVE  UNCHANGED <<restore, clone>>
    BY <2>1 DEF TakeSnapshot, PushStep, ListSnapshots, PruneExcess, PruneDone, CheckSpace,
       ShortOfSpace, Reclaim, DestroyOldest, PushFault, pulling
  <2>2. ASSUME NEW q \in Restores, LatestSnapshot(q) \/ RestoreStep(q)
        PROVE  restore'[r] \in Held
    <3>3. CASE LatestSnapshot(q)
      BY <2>0, <3>3 DEF LatestSnapshot, RestoreAt, RestoreGoto, TypeOK
    <3>4. CASE CreateClone(q)
      BY <2>0, <3>4 DEF CreateClone, RestoreAt, RestoreGoto, TypeOK
    <3>5. CASE FindMountpoint(q)
      BY <2>0, <3>5 DEF FindMountpoint, RestoreAt, RestoreGoto, TypeOK
    <3>6. CASE StreamFiles(q)
      BY <2>0, <3>6 DEF StreamFiles, RestoreAt, RestoreGoto, TypeOK
    <3>7. CASE DestroyClone(q)
      BY <2>0, <3>7 DEF DestroyClone, RestoreGoto, TypeOK
    <3> QED
      BY <2>2, <3>3, <3>4, <3>5, <3>6, <3>7 DEF RestoreStep
  <2>3. CASE Crash
    BY <2>0, <2>3 DEF Crash, TypeOK
  <2>4. CASE Restart \/ UNCHANGED vars
    BY <2>0, <2>4 DEF Restart, vars, server, pulling
  <2> QED
    BY <2>0, <2>1, <2>2, <2>3, <2>4 DEF Next
<1> QED
  BY <1>1, <1>2, TypeCorrect, PTL DEF Spec

=============================================================================
