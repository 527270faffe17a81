------------------------------ MODULE PartsProof ------------------------------
(***************************************************************************)
(* Proofs about the smaller protocols of MCParts, each for any number of   *)
(* participants: the connection pool, key enrollment, the trust policy and *)
(* the rate limiter; and the types of all the parts in the composition     *)
(* that MCParts runs.                                                      *)
(***************************************************************************)
EXTENDS MCParts, FilesProof, SignedRequestsProof, FiniteSetTheorems, TLAPS

-----------------------------------------------------------------------------
(* The connection pool.                                                    *)

\* The write lock is held from the second look-up to the end of the dial, which only
\* follows a miss.
PoolLocked ==
  /\ \A c \in Callers : callAt[c] \in {"check", "dial"} => mutex = {c}
  /\ \A c \in Callers : callAt[c] = "dial" => ~Pool!Hit

PoolInv == Pool!TypeOK /\ PoolLocked /\ Pool!NoStrayConnection

LEMMA PoolInit == Pool!Init => PoolInv
BY DEF Pool!Init, PoolInv, PoolLocked, Pool!TypeOK, Pool!NoStrayConnection

LEMMA PoolType ==
  ASSUME Pool!TypeOK, [Pool!Next]_poolState
  PROVE  Pool!TypeOK'
<1>1. CASE Pool!Close
  BY <1>1 DEF Pool!Close, Pool!TypeOK
<1>2. ASSUME NEW c \in Callers, Pool!Lookup(c) \/ Pool!Check(c) PROVE Pool!TypeOK'
  <2>1. Pool!Hit => cached \subseteq Conns
    BY DEF Pool!Hit, Pool!TypeOK
  <2> QED
    BY <1>2, <2>1 DEF Pool!Lookup, Pool!Check, Pool!Goto, Pool!TypeOK
<1>3. ASSUME NEW c \in Callers, Pool!Lock(c) \/ Pool!DialFails(c) \/ Pool!Again(c) PROVE Pool!TypeOK'
  BY <1>3 DEF Pool!Lock, Pool!DialFails, Pool!Again, Pool!Goto, Pool!TypeOK
<1>4. ASSUME NEW c \in Callers, Pool!Dial(c) PROVE Pool!TypeOK'
  BY <1>4 DEF Pool!Dial, Pool!Goto, Pool!TypeOK
<1>5. CASE UNCHANGED poolState
  BY <1>5 DEF poolState, Pool!TypeOK
<1> QED
  BY <1>1, <1>2, <1>3, <1>4, <1>5 DEF Pool!Next

LEMMA PoolStep == PoolInv /\ [Pool!Next]_poolState => PoolInv'
<1> SUFFICES ASSUME PoolInv, [Pool!Next]_poolState PROVE (PoolLocked /\ Pool!NoStrayConnection)'
  BY PoolType DEF PoolInv
<1> USE DEF PoolInv, PoolLocked, Pool!Hit
<1>1. CASE Pool!Close
  BY <1>1 DEF Pool!Close, Pool!NoStrayConnection
<1>2. ASSUME NEW c \in Callers, Pool!Lookup(c) PROVE (PoolLocked /\ Pool!NoStrayConnection)'
  BY <1>2 DEF Pool!Lookup, Pool!Goto, Pool!TypeOK, Pool!NoStrayConnection
<1>3. ASSUME NEW c \in Callers, Pool!Check(c) PROVE (PoolLocked /\ Pool!NoStrayConnection)'
  BY <1>3 DEF Pool!Check, Pool!Goto, Pool!TypeOK, Pool!NoStrayConnection
<1>4. ASSUME NEW c \in Callers, Pool!Lock(c) PROVE (PoolLocked /\ Pool!NoStrayConnection)'
  BY <1>4 DEF Pool!Lock, Pool!Goto, Pool!TypeOK, Pool!NoStrayConnection
<1>5. ASSUME NEW c \in Callers, Pool!DialFails(c) \/ Pool!Again(c) PROVE (PoolLocked /\ Pool!NoStrayConnection)'
  BY <1>5 DEF Pool!DialFails, Pool!Again, Pool!Goto, Pool!TypeOK, Pool!NoStrayConnection
<1>6. ASSUME NEW c \in Callers, Pool!Dial(c) PROVE (PoolLocked /\ Pool!NoStrayConnection)'
  <2>1. \A d \in Callers \ {c} : callAt'[d] = callAt[d] /\ callAt[d] \notin {"check", "dial"}
    BY <1>6 DEF Pool!Dial, Pool!Goto, Pool!TypeOK
  <2>2. callAt'[c] \notin {"check", "dial"}
    BY <1>6 DEF Pool!Dial, Pool!Goto, Pool!TypeOK
  <2>3. Pool!NoStrayConnection'
    BY <1>6 DEF Pool!Dial, Pool!TypeOK, Pool!NoStrayConnection
  <2> QED
    BY <2>1, <2>2, <2>3
<1>7. CASE UNCHANGED poolState
  BY <1>7 DEF poolState, Pool!NoStrayConnection
<1> QED
  BY <1>1, <1>2, <1>3, <1>4, <1>5, <1>6, <1>7 DEF Pool!Next

\* ConnPool.Get looks up again under the write lock: however many goroutines ask for the first
\* client of an address at once, one connection is dialled and it is the one in the maps.
THEOREM PoolIsTight == Pool!Spec => []NoStrayConnection
<1>1. PoolInv => NoStrayConnection
  BY DEF PoolInv, NoStrayConnection
<1> QED
  BY PoolInit, PoolStep, <1>1, PTL DEF Pool!Spec, Pool!poolVars, poolState

-----------------------------------------------------------------------------
(* Key enrollment.                                                         *)

\* The enrollments that have got as far as the rename.
Renamed == {e \in Enrollments : order[e] > 0}

\* Renames are counted.
OrderBounded == \A e \in Enrollments : order[e] <= Cardinality(Renamed)

\* An enrollment that has not renamed its file yet has no part in <user>.pub.
NotYetRenamed ==
  /\ \A e \in Enrollments : step[e] \in {"idle", "temp", "write", "sync", "rename", "denied"} => order[e] = 0
  /\ \A e \in pubFile \cup onDisk : order[e] > 0

\* A file is renamed only when its bytes are on the disk, and then stays as it is.
RenamedIsStable ==
  /\ \A e \in pubFile \cup onDisk : bytes[e] = "stable"
  /\ \A e \in Enrollments : step[e] \in {"rename", "syncdir"} => bytes[e] = "stable"

\* What has been renamed is followed only by later renames; what is enrolled, on the disk too.
Followed ==
  /\ \A e \in Enrollments \ wiped :
       step[e] \in {"syncdir", "enrolled"} => \E d \in pubFile : order[d] >= order[e]
  /\ \A e \in Enrollments \ wiped :
       step[e] = "enrolled" => \E d \in onDisk : order[d] >= order[e]
  /\ \A e \in wiped : step[e] = "enrolled"

EnrollInv == Enroll!TypeOK /\ OrderBounded /\ NotYetRenamed /\ RenamedIsStable /\ Followed

\* KeyEnrollment counts as FiniteSets does.
LEMMA EnrollCardinality == \A S : Enroll!Cardinality(S) = Cardinality(S)
BY DEF Enroll!Cardinality, Cardinality, Enroll!IsFiniteSet, IsFiniteSet

LEMMA EnrollCount ==
  ASSUME IsFiniteSet(Enrollments)
  PROVE  Cardinality(Enrollments) \in Nat /\ Cardinality({}) = 0
BY FS_CardinalityType, FS_EmptySet

LEMMA EnrollInit == IsFiniteSet(Enrollments) /\ Enroll!Init => EnrollInv
<1> SUFFICES ASSUME IsFiniteSet(Enrollments), Enroll!Init PROVE EnrollInv
  OBVIOUS
<1>1. Renamed = {}
  BY DEF Enroll!Init, Renamed
<1>2. Enroll!TypeOK
  BY EnrollCount, EnrollCardinality DEF Enroll!Init, Enroll!TypeOK
<1>3. \A e \in Enrollments : order[e] = 0 /\ step[e] = "idle"
  BY DEF Enroll!Init
<1>4. OrderBounded
  BY <1>1, <1>3, EnrollCount DEF OrderBounded
<1> QED
  BY <1>2, <1>3, <1>4 DEF Enroll!Init, EnrollInv, NotYetRenamed, RenamedIsStable, Followed

\* Only a rename changes what is renamed.
LEMMA RenamedStays ==
  ASSUME order' = order
  PROVE  Renamed' = Renamed
BY DEF Renamed

\* The rename counts once more.
LEMMA RenameOrder ==
  ASSUME IsFiniteSet(Enrollments), EnrollInv, NEW e \in Enrollments, Enroll!Rename(e)
  PROVE  LET n == Cardinality(Renamed) IN
         /\ n \in Nat /\ n + 1 \in 0..Cardinality(Enrollments)
         /\ order' = [order EXCEPT ![e] = n + 1] /\ Cardinality(Renamed') = n + 1
<1> DEFINE n == Cardinality(Renamed)
<1>1. order[e] = 0 /\ e \notin Renamed /\ \A d \in Enrollments : order[d] \in Nat
  BY EnrollCount, EnrollCardinality DEF EnrollInv, NotYetRenamed, Enroll!Rename, Renamed, Enroll!TypeOK
<1>2. IsFiniteSet(Renamed) /\ n \in Nat
  BY FS_Subset, FS_CardinalityType DEF Renamed
<1>3. order' = [order EXCEPT ![e] = n + 1]
  <2>1. order' = [order EXCEPT ![e] = 1 + n]
    BY EnrollCardinality, Zenon DEF Enroll!Rename, Renamed
  <2>2. 1 + n = n + 1
    BY <1>2
  <2> QED
    BY <2>1, <2>2, Zenon
<1>4. Renamed' = Renamed \cup {e}
  BY <1>1, <1>2, <1>3 DEF Renamed, EnrollInv, Enroll!TypeOK
<1>5. Cardinality(Renamed') = n + 1
  BY <1>1, <1>2, <1>4, FS_AddElement
<1>6. n + 1 <= Cardinality(Enrollments)
  BY <1>5, FS_Subset DEF Renamed
<1> QED
  BY <1>2, <1>3, <1>5, <1>6, EnrollCount

LEMMA EnrollType ==
  ASSUME IsFiniteSet(Enrollments), EnrollInv, [Enroll!Next]_enrollState
  PROVE  Enroll!TypeOK'
<1> USE DEF Enroll!TypeOK, Enroll!Goto, Enroll!Bytes, EnrollInv
<1>1. CASE Enroll!Reload \/ Enroll!WriteBack
  BY <1>1 DEF Enroll!Reload, Enroll!WriteBack
<1>2. CASE Enroll!PowerFails \/ Enroll!PowerTakesDirectory
  BY <1>2 DEF Enroll!PowerFails, Enroll!PowerTakesDirectory, Enroll!PowerCut
<1>3. ASSUME NEW e \in Enrollments, Enroll!Unidentified(e) \/ Enroll!RefuseKey(e) \/ Enroll!Request(e)
      PROVE  Enroll!TypeOK'
  BY <1>3 DEF Enroll!Unidentified, Enroll!RefuseKey, Enroll!Request, Enroll!Authorize
<1>4. ASSUME NEW e \in Enrollments, Enroll!CreateTemp(e) \/ Enroll!WriteKey(e) \/ Enroll!SyncFile(e)
                                    \/ Enroll!SyncDirectory(e) \/ Enroll!Fail(e)
      PROVE  Enroll!TypeOK'
  BY <1>4 DEF Enroll!CreateTemp, Enroll!WriteKey, Enroll!SyncFile, Enroll!SyncDirectory, Enroll!Fail,
              Enroll!MadeDir
<1>5. ASSUME NEW e \in Enrollments, Enroll!Rename(e) PROVE Enroll!TypeOK'
  <2>1. order' \in [Enrollments -> 0..Cardinality(Enrollments)]
    BY <1>5, RenameOrder, EnrollCardinality
  <2> QED
    BY <1>5, <2>1, EnrollCardinality DEF Enroll!Rename
<1>6. CASE UNCHANGED enrollState
  BY <1>6 DEF enrollState
<1> QED
  BY <1>1, <1>2, <1>3, <1>4, <1>5, <1>6 DEF Enroll!Next

LEMMA EnrollStep ==
  ASSUME IsFiniteSet(Enrollments), EnrollInv, [Enroll!Next]_enrollState
  PROVE  EnrollInv'
<1> DEFINE Rest == OrderBounded /\ NotYetRenamed /\ RenamedIsStable /\ Followed
<1> SUFFICES Rest'
  BY EnrollType DEF EnrollInv
<1>0. Enroll!TypeOK /\ Enroll!TypeOK' /\ Rest
  BY EnrollType DEF EnrollInv
<1>t. \A e \in Enrollments : order[e] \in Nat
  BY <1>0, EnrollCount, EnrollCardinality DEF Enroll!TypeOK
<1> USE DEF OrderBounded, NotYetRenamed, RenamedIsStable, Followed, Enroll!Goto, Enroll!Bytes
<1>1. CASE Enroll!Reload \/ UNCHANGED enrollState
  <2>1. UNCHANGED <<pubFile, onDisk, bytes, step, order, wiped>>
    BY <1>1 DEF Enroll!Reload, enrollState
  <2> QED
    BY <1>0, <2>1, RenamedStays
<1>2. CASE Enroll!WriteBack
  <2>1. UNCHANGED <<pubFile, step, order, wiped>> /\ (onDisk' = onDisk \/ onDisk' = pubFile)
    BY <1>2 DEF Enroll!WriteBack
  <2>2. \A e \in Enrollments : bytes[e] = "stable" => bytes'[e] = "stable"
    BY <1>0, <1>2 DEF Enroll!WriteBack, Enroll!TypeOK
  <2> QED
    BY <1>0, <2>1, <2>2, RenamedStays DEF Enroll!TypeOK
<1>3. CASE Enroll!PowerFails \/ Enroll!PowerTakesDirectory
  <2>1. order' = order
    BY <1>3 DEF Enroll!PowerFails, Enroll!PowerTakesDirectory
  <2>2. \A e \in Enrollments : /\ step'[e] \in {step[e], "failed"}
                               /\ step'[e] \notin {"temp", "write", "sync", "rename", "syncdir"}
                               /\ step'[e] = "enrolled" <=> step[e] = "enrolled"
    BY <1>0, <1>3 DEF Enroll!PowerFails, Enroll!PowerTakesDirectory, Enroll!PowerCut, Enroll!Running,
                      Enroll!TypeOK
  <2>3. CASE Enroll!PowerFails
    <3>1. pubFile' = onDisk /\ onDisk' = onDisk /\ wiped' = wiped
      BY <2>3 DEF Enroll!PowerFails
    <3>2. \A e \in Enrollments : bytes[e] = "stable" => bytes'[e] = "stable"
      BY <1>0, <2>3 DEF Enroll!PowerFails, Enroll!TypeOK
    <3> QED
      BY <1>0, <2>1, <2>2, <3>1, <3>2, RenamedStays DEF Enroll!TypeOK
  <2>4. CASE Enroll!PowerTakesDirectory
    <3>1. /\ pubFile' = {} /\ onDisk' = {}
          /\ wiped' = wiped \cup {e \in Enrollments : step[e] = "enrolled"}
      BY <2>4 DEF Enroll!PowerTakesDirectory
    <3>2. \A e \in Enrollments \ wiped' : step'[e] \notin {"syncdir", "enrolled"}
      BY <2>2, <3>1
    <3>3. \A e \in wiped' : step'[e] = "enrolled"
      BY <1>0, <2>2, <3>1 DEF Enroll!TypeOK
    <3>4. OrderBounded' /\ NotYetRenamed' /\ RenamedIsStable'
      BY <1>0, <2>1, <2>2, <3>1, RenamedStays
    <3> QED
      BY <3>2, <3>3, <3>4
  <2> QED
    BY <1>3, <2>3, <2>4
<1>4. ASSUME NEW e \in Enrollments, Enroll!Unidentified(e) \/ Enroll!RefuseKey(e) \/ Enroll!Request(e)
      PROVE  Rest'
  <2>1. /\ step[e] = "idle" /\ step'[e] \in {"denied", "temp"} /\ UNCHANGED <<pubFile, onDisk, bytes, order, wiped>>
        /\ \A d \in Enrollments \ {e} : step'[d] = step[d]
    BY <1>0, <1>4 DEF Enroll!Unidentified, Enroll!RefuseKey, Enroll!Request, Enroll!Authorize, Enroll!TypeOK
  <2>2. \A d \in Enrollments : step'[d] \in {"syncdir", "enrolled"} => step[d] = step'[d]
    BY <2>1
  <2>3. \A d \in wiped : step'[d] = "enrolled"
    BY <1>0, <2>1 DEF Enroll!TypeOK
  <2> QED
    BY <1>0, <2>1, <2>2, <2>3, RenamedStays
<1>5. ASSUME NEW e \in Enrollments, Enroll!CreateTemp(e) \/ Enroll!WriteKey(e) \/ Enroll!SyncFile(e) PROVE Rest'
  <2>1. /\ step[e] \in {"temp", "write", "sync"} /\ step'[e] \in {"write", "sync", "rename"}
        /\ step'[e] = "rename" => bytes'[e] = "stable"
        /\ UNCHANGED <<pubFile, onDisk, order, wiped>>
        /\ \A d \in Enrollments \ {e} : step'[d] = step[d] /\ bytes'[d] = bytes[d]
    BY <1>0, <1>5 DEF Enroll!CreateTemp, Enroll!WriteKey, Enroll!SyncFile, Enroll!TypeOK
  <2>2. e \notin pubFile \cup onDisk
    BY <1>0, <2>1
  <2> QED
    BY <1>0, <2>1, <2>2, RenamedStays DEF Enroll!TypeOK
<1>6. ASSUME NEW e \in Enrollments, Enroll!SyncDirectory(e) PROVE Rest'
  <2>1. /\ step[e] = "syncdir" /\ step'[e] = "enrolled" /\ onDisk' = pubFile /\ UNCHANGED <<pubFile, bytes, order, wiped>>
        /\ \A d \in Enrollments \ {e} : step'[d] = step[d]
    BY <1>0, <1>6 DEF Enroll!SyncDirectory, Enroll!TypeOK
  <2>2. e \notin wiped /\ \A d \in wiped : d \in Enrollments \ {e}
    BY <1>0, <2>1 DEF Enroll!TypeOK
  <2> QED
    BY <1>0, <2>1, <2>2, RenamedStays
<1>7. ASSUME NEW e \in Enrollments, Enroll!Fail(e) PROVE Rest'
  <2>1. /\ step[e] # "enrolled" /\ step'[e] = "failed" /\ UNCHANGED <<pubFile, onDisk, order, wiped>>
        /\ \A d \in Enrollments \ {e} : step'[d] = step[d] /\ bytes'[d] = bytes[d]
        /\ bytes'[e] = bytes[e] \/ step[e] \in {"temp", "write", "sync", "rename"}
    BY <1>0, <1>7 DEF Enroll!Fail, Enroll!Running, Enroll!TypeOK
  <2>2. bytes'[e] # bytes[e] => e \notin pubFile \cup onDisk
    BY <1>0, <2>1
  <2> QED
    BY <1>0, <2>1, <2>2, RenamedStays DEF Enroll!TypeOK
<1>8. ASSUME NEW e \in Enrollments, Enroll!Rename(e) PROVE Rest'
  <2> DEFINE n == Cardinality(Renamed)
  <2>1. /\ n \in Nat /\ order' = [order EXCEPT ![e] = n + 1] /\ Cardinality(Renamed') = n + 1
    BY <1>8, RenameOrder
  <2>2. /\ order'[e] = n + 1 /\ \A d \in Enrollments \ {e} : order'[d] = order[d] /\ order[d] <= n
    BY <1>0, <2>1 DEF Enroll!TypeOK
  <2>3. /\ step[e] = "rename" /\ step'[e] = "syncdir" /\ pubFile' = {e} /\ UNCHANGED <<onDisk, bytes, wiped>>
        /\ \A d \in Enrollments \ {e} : step'[d] = step[d]
    BY <1>0, <1>8 DEF Enroll!Rename, Enroll!TypeOK
  <2>4. e \notin onDisk
    BY <1>0, <2>3
  <2> HIDE DEF n
  <2>5. OrderBounded'
    BY <1>t, <2>1, <2>2
  <2>6. NotYetRenamed' /\ RenamedIsStable'
    BY <1>0, <2>1, <2>2, <2>3, <2>4 DEF Enroll!TypeOK
  <2>7. \A d \in Enrollments \ wiped' : step'[d] \in {"syncdir", "enrolled"} => \E x \in pubFile' : order'[x] >= order'[d]
    BY <1>t, <2>1, <2>2, <2>3
  <2>8. ASSUME NEW d \in Enrollments \ wiped', step'[d] = "enrolled" PROVE \E x \in onDisk' : order'[x] >= order'[d]
    <3>1. d # e /\ step[d] = "enrolled" /\ d \in Enrollments \ wiped
      BY <2>3, <2>8
    <3>2. PICK x \in onDisk : order[x] >= order[d]
      BY <1>0, <3>1
    <3>3. x \in Enrollments /\ x # e /\ onDisk' = onDisk
      BY <1>0, <2>3, <2>4 DEF Enroll!TypeOK
    <3> QED
      BY <2>2, <3>1, <3>2, <3>3
  <2>9. \A d \in wiped' : step'[d] = "enrolled"
    BY <1>0, <2>3 DEF Enroll!TypeOK
  <2> QED
    BY <2>5, <2>6, <2>7, <2>8, <2>9
<1> QED
  BY <1>0, <1>1, <1>2, <1>3, <1>4, <1>5, <1>6, <1>7, <1>8 DEF Enroll!Next, EnrollInv

\* KeyStore.Install syncs the file before the rename and the directory after it: <user>.pub is
\* one whole key, and one that was answered as enrolled is lost to a power failure only with
\* the Agent's whole directory, before that directory's own entry was on the disk.
THEOREM EnrollmentsSurvive == Enroll!Spec => []EnrolledKeySurvives
<1>1. EnrollInv => EnrolledKeySurvives
  BY DEF EnrollInv, EnrolledKeySurvives, Enroll!InstalledKeyIsWhole, Enroll!EnrolledKeyStays,
         RenamedIsStable, Followed
<1>2. Enroll!Init => EnrollInv
  BY EnrollInit, EnrollmentsAssumption
<1>3. EnrollInv /\ [Enroll!Next]_enrollState => EnrollInv'
  BY EnrollStep, EnrollmentsAssumption
<1> QED
  BY <1>1, <1>2, <1>3, PTL DEF Enroll!Spec, Enroll!enrollVars, enrollState

-----------------------------------------------------------------------------
(* The trust policy.                                                       *)

\* What lets a call pass unsigned.
Vouched ==
  /\ policy.host /\ policy.mode = "host_vouched"
  /\ Trust!CapabilityOf(call.method) \cap policy.caps # {}
  /\ Trust!Trusted(call)

\* The policy in force is a configuration that was accepted, and completed.
InForce == Trust!Accepted(written) /\ policy = Trust!Completed(written)

TrustInv ==
  /\ Trust!TypeOK
  /\ InForce
  /\ decision = "allow" => Vouched

\* Completing a configuration touches its min_uid alone.
LEMMA CompletedPolicy ==
  ASSUME NEW p \in Trust!Policies
  PROVE  /\ Trust!Completed(p) \in Trust!Policies
         /\ p.mode = "host_vouched" =>
              Trust!Completed(p) = [p EXCEPT !.minUid = Trust!Threshold(p)]
BY DEF Trust!Completed, Trust!Threshold, Trust!Policies, Trust!DefaultMinUid

LEMMA TrustInit == Trust!Init => TrustInv
<1>1. Trust!NoEntry \in Trust!Policies
  BY DEF Trust!NoEntry, Trust!Policies, Trust!Modes
<1>2. Trust!Accepted(Trust!NoEntry) /\ Trust!Completed(Trust!NoEntry) = Trust!NoEntry
  BY DEF Trust!NoEntry, Trust!Accepted, Trust!Completed
<1> QED
  BY <1>1, <1>2 DEF Trust!Init, TrustInv, InForce, Trust!TypeOK

LEMMA TrustStep == TrustInv /\ [Trust!Next]_trustState => TrustInv'
<1> SUFFICES ASSUME TrustInv, [Trust!Next]_trustState PROVE TrustInv'
  OBVIOUS
<1>1. CASE Trust!Reload
  <2>1. decision' = "none" /\ call' = Trust!NoCall
    BY <1>1 DEF Trust!Reload
  <2>2. PICK p \in Trust!Policies :
          /\ policy' = (IF Trust!Accepted(p) THEN Trust!Completed(p) ELSE policy)
          /\ written' = (IF Trust!Accepted(p) THEN p ELSE written)
    <3>1. Trust!NoEntry \in Trust!Policies
      BY DEF Trust!NoEntry, Trust!Policies, Trust!Modes
    <3> QED
      BY <1>1, <3>1 DEF Trust!Reload
  <2>3. InForce'
    BY <2>2 DEF TrustInv, InForce, Trust!Accepted, Trust!Completed
  <2>4. Trust!TypeOK'
    BY <2>1, <2>2, CompletedPolicy DEF TrustInv, Trust!TypeOK
  <2> QED
    BY <2>1, <2>3, <2>4 DEF TrustInv
<1>2. CASE Trust!Call
  <2>1. PICK c \in Trust!Calls :
          /\ call' = c /\ policy' = policy /\ written' = written
          /\ decision' = IF policy.host THEN Trust!DecideAuth(c) ELSE "unknown host"
    BY <1>2 DEF Trust!Call
  <2>2. Trust!DecideAuth(c) \in {"signature", "allow", "denied"}
    BY DEF Trust!DecideAuth
  <2>3. Trust!TypeOK'
    BY <2>1, <2>2 DEF TrustInv, Trust!TypeOK
  <2>4. decision' = "allow" => Vouched'
    BY <2>1 DEF Vouched, Trust!DecideAuth, Trust!Trusted, Trust!CapabilityOf
  <2>5. InForce'
    BY <2>1 DEF TrustInv, InForce, Trust!Accepted, Trust!Completed
  <2> QED
    BY <2>3, <2>4, <2>5 DEF TrustInv
<1>3. CASE UNCHANGED trustState
  <2>1. UNCHANGED <<policy, written, call, decision>>
    BY <1>3 DEF trustState
  <2>2. InForce'
    BY <2>1 DEF TrustInv, InForce, Trust!Accepted, Trust!Completed
  <2>3. Trust!TypeOK'
    BY <2>1 DEF TrustInv, Trust!TypeOK
  <2>4. decision' = "allow" => Vouched'
    BY <2>1 DEF TrustInv, Vouched, Trust!Trusted, Trust!CapabilityOf
  <2> QED
    BY <2>2, <2>3, <2>4 DEF TrustInv
<1> QED
  BY <1>1, <1>2, <1>3 DEF Trust!Next

\* LoadServerConfig and DecideAuth: for any users, uids and thresholds, a call passes unsigned
\* only where the accepted configuration, as it was written, trusts the Agent with its
\* capability and its user by name, or by uid and group.
THEOREM OnlyTrustedAreVouched == Trust!Spec => []VouchingIsConfined
<1>1. TrustInv => VouchingIsConfined
  <2> SUFFICES ASSUME TrustInv, decision = "allow" PROVE VouchingIsConfined
    BY DEF VouchingIsConfined, Trust!VouchingIsConfined
  <2>1. /\ policy.mode = "host_vouched" /\ policy.host
        /\ Trust!CapabilityOf(call.method) \cap policy.caps # {} /\ Trust!Trusted(call)
        /\ written \in Trust!Policies
    BY DEF TrustInv, Vouched, Trust!TypeOK
  <2>2. written.mode = "host_vouched" /\ policy = [written EXCEPT !.minUid = Trust!Threshold(written)]
    BY <2>1, CompletedPolicy DEF TrustInv, InForce, Trust!Completed, Trust!Policies
  <2>3. /\ written.host /\ policy.caps = written.caps /\ policy.groups = written.groups
        /\ policy.include = written.include /\ policy.exclude = written.exclude
        /\ policy.minUid = Trust!Threshold(written)
    BY <2>1, <2>2 DEF Trust!Policies
  <2>4. Trust!CapabilityOf(call.method) # {} /\ Trust!CapabilityOf(call.method) \subseteq written.caps
    BY <2>1, <2>3 DEF Trust!CapabilityOf
  <2>5. written.minUid # 0 \/ written.groups # {} \/ written.include # {}
    BY <2>2 DEF TrustInv, InForce, Trust!Accepted
  <2>6. /\ call.user \notin written.exclude
        /\ \/ call.user \in written.include
           \/ /\ call.uid >= Trust!Threshold(written)
              /\ written.groups = {} \/ written.groups \cap call.groups # {}
    BY <2>1, <2>3 DEF Trust!Trusted
  <2> QED
    BY <2>2, <2>3, <2>4, <2>5, <2>6 DEF VouchingIsConfined, Trust!VouchingIsConfined
<1> QED
  BY TrustInit, TrustStep, <1>1, PTL DEF Trust!Spec, Trust!trustVars, trustState

-----------------------------------------------------------------------------
(* The rate limiter.                                                       *)

Full == Burst * Parts

\* Nothing is admitted at a tick that is still to come.
Sealed == \A t \in (clock + 1)..(LastTick + 1) : passed[t] = passed[clock + 1]

\* Since any tick before the last request, what was admitted and what is left in the bucket
\* are no more than a full bucket and what the rate has brought; since any tick after it,
\* nothing was admitted.
Earned ==
  /\ bucket.last <= clock
  /\ ~bucket.used => bucket = Limiter!NoBucket /\ passed[clock + 1] = 0
  /\ \A t \in 0..clock :
       IF t <= bucket.last
       THEN (passed[clock + 1] - passed[t]) * Parts + bucket.tokens <= Full + (bucket.last - t) * PerTick
       ELSE passed[clock + 1] = passed[t]

LimiterInv == Limiter!TypeOK /\ Sealed /\ Earned /\ WindowBounded

\* The products the proof computes with.
LEMMA Products ==
  /\ \A a, b, p \in Int : (a + b) * p = a * p + b * p
  /\ \A a, p \in Nat : a * p \in Nat
  /\ \A a, p \in Int : a * p \in Int
OBVIOUS

LEMMA LimiterFacts ==
  ASSUME Limiter!TypeOK
  PROVE  /\ PerTick \in Nat /\ Parts \in Nat /\ Parts # 0 /\ LastTick \in Nat /\ Full \in Nat
         /\ clock \in Nat /\ clock <= LastTick
         /\ bucket.tokens \in Nat /\ bucket.tokens <= Full
         /\ bucket.last \in Nat
         /\ passed \in [0..(LastTick + 1) -> Nat]
<1>1. Full \in Nat /\ LastTick \in Nat
  BY LimiterAssumption, Products DEF Full
<1>2. bucket \in [tokens : 0..Full, last : 0..LastTick, used : BOOLEAN]
  BY DEF Limiter!TypeOK, Full
<1>3. bucket.tokens \in 0..Full /\ bucket.last \in 0..LastTick
  BY <1>2
<1>4. clock \in 0..LastTick /\ passed \in [0..(LastTick + 1) -> Nat]
  BY DEF Limiter!TypeOK
<1> QED
  BY <1>1, <1>3, <1>4, LimiterAssumption

LEMMA LimiterInit == Limiter!Init => LimiterInv
<1> SUFFICES ASSUME Limiter!Init PROVE LimiterInv
  OBVIOUS
<1>1. Full \in Nat
  BY LimiterAssumption, Products DEF Full
<1>2. Limiter!TypeOK
  BY <1>1, LimiterAssumption DEF Limiter!Init, Limiter!TypeOK, Limiter!NoBucket, Full
<1>3. clock = 0 /\ bucket = Limiter!NoBucket /\ \A t \in 0..(LastTick + 1) : passed[t] = 0
  BY DEF Limiter!Init
<1>4. Sealed
  BY <1>3, LimiterAssumption DEF Sealed
<1>5. Earned
  <2>1. bucket.last = 0 /\ bucket.tokens = Full /\ ~bucket.used
    BY <1>3 DEF Limiter!NoBucket, Full
  <2>2. passed[0] = 0 /\ passed[1] = 0
    BY <1>3, LimiterAssumption
  <2>3. (0 - 0) * Parts = 0 /\ (0 - 0) * PerTick = 0
    BY LimiterAssumption
  <2> QED
    BY <1>1, <1>3, <2>1, <2>2, <2>3 DEF Earned
<1>6. WindowBounded
  <2>1. \A t, u \in 0..clock : t = 0 /\ u = 0
    BY <1>3
  <2>2. passed[0] = 0 /\ passed[0 + 1] = 0
    BY <1>3, LimiterAssumption
  <2>3. (0 - 0) * Parts = 0 /\ (0 - 0) * PerTick = 0
    BY LimiterAssumption
  <2> QED
    BY <1>1, <2>1, <2>2, <2>3 DEF WindowBounded, Limiter!WindowBounded, Full
<1> QED
  BY <1>2, <1>4, <1>5, <1>6 DEF LimiterInv

\* The bound of a span that ends now follows from what is in the bucket.
LEMMA BoundNow ==
  ASSUME Limiter!TypeOK, Earned, NEW t \in 0..clock
  PROVE  (passed[clock + 1] - passed[t]) * Parts <= Full + (clock - t) * PerTick
<1> DEFINE n == passed[clock + 1] - passed[t]
<1>0. /\ clock \in Nat /\ t \in Nat /\ t <= clock /\ clock + 1 \in 0..(LastTick + 1)
      /\ t \in 0..(LastTick + 1) /\ bucket.last \in Nat /\ bucket.tokens \in Nat /\ Full \in Nat
      /\ PerTick \in Nat /\ Parts \in Nat
  BY LimiterAssumption, Products DEF Limiter!TypeOK, Full
<1>1. n \in Int
  BY <1>0 DEF Limiter!TypeOK
<1>2. CASE t <= bucket.last
  <2>1. bucket.last - t \in Int /\ clock - bucket.last \in Nat
    BY <1>0, <1>2 DEF Earned
  <2>2. (clock - t) * PerTick = (bucket.last - t) * PerTick + (clock - bucket.last) * PerTick
    <3>1. clock - t = (bucket.last - t) + (clock - bucket.last)
      BY <1>0
    <3> QED
      BY <1>0, <2>1, <3>1, Products
  <2>3. (clock - bucket.last) * PerTick \in Nat /\ (bucket.last - t) * PerTick \in Int
    BY <1>0, <2>1, Products
  <2>4. n * Parts + bucket.tokens <= Full + (bucket.last - t) * PerTick
    BY <1>2 DEF Earned
  <2>5. n * Parts \in Int
    BY <1>0, <1>1, Products
  <2> HIDE DEF n
  <2>6. n * Parts <= Full + (clock - t) * PerTick
    BY <1>0, <2>2, <2>3, <2>4, <2>5
  <2> QED
    BY <2>6 DEF n
<1>3. CASE ~(t <= bucket.last)
  <2>1. n = 0
    <3>1. passed[clock + 1] = passed[t]
      BY <1>3 DEF Earned
    <3>2. passed[t] \in Int
      BY <1>0 DEF Limiter!TypeOK
    <3> QED
      BY <3>1, <3>2
  <2>2. (clock - t) * PerTick \in Nat
    BY <1>0, Products
  <2>3. n * Parts = 0
    BY <1>0, <2>1
  <2> HIDE DEF n
  <2>4. n * Parts <= Full + (clock - t) * PerTick
    BY <1>0, <2>2, <2>3
  <2> QED
    BY <2>4 DEF n
<1> QED
  BY <1>2, <1>3

LEMMA Monotone ==
  ASSUME NEW i \in Int, NEW j \in Int, NEW p \in Nat, i <= j
  PROVE  i * p <= j * p
<1>1. j - i \in Nat /\ j = i + (j - i)
  OBVIOUS
<1>2. j * p = i * p + (j - i) * p
  BY <1>1, Products
<1>3. (j - i) * p \in Nat /\ i * p \in Int
  BY <1>1, Products
<1> QED
  BY <1>2, <1>3

LEMMA TickStep == LimiterInv /\ Limiter!Tick => LimiterInv'
<1> SUFFICES ASSUME LimiterInv, Limiter!Tick PROVE LimiterInv'
  OBVIOUS
<1>0. /\ Limiter!TypeOK /\ Sealed /\ Earned /\ WindowBounded
      /\ clock \in Nat /\ clock < LastTick /\ clock' = clock + 1 /\ bucket' = bucket /\ passed' = passed
      /\ PerTick \in Nat /\ Parts \in Nat /\ LastTick \in Nat /\ Full \in Nat
      /\ passed \in [0..(LastTick + 1) -> Nat]
  BY LimiterAssumption, Products DEF LimiterInv, Limiter!Tick, Limiter!TypeOK, Full
<1>1. Limiter!TypeOK'
  BY <1>0 DEF Limiter!TypeOK
<1>2. passed'[clock' + 1] = passed[clock + 1]
  BY <1>0 DEF Sealed
<1>3. Sealed'
  BY <1>0, <1>2 DEF Sealed
<1>4. Earned'
  <2>1. bucket'.last <= clock'
    BY <1>0 DEF Earned, Limiter!TypeOK
  <2>2. ~bucket'.used => bucket' = Limiter!NoBucket /\ passed'[clock' + 1] = 0
    BY <1>0, <1>2 DEF Earned
  <2>3. ASSUME NEW t \in 0..clock'
        PROVE  IF t <= bucket'.last
               THEN (passed'[clock' + 1] - passed'[t]) * Parts + bucket'.tokens
                      <= Full + (bucket'.last - t) * PerTick
               ELSE passed'[clock' + 1] = passed'[t]
    <3>1. CASE t \in 0..clock
      BY <1>0, <1>2, <3>1 DEF Earned
    <3>2. CASE t = clock + 1
      <4>1. ~(t <= bucket'.last)
        BY <1>0, <3>2 DEF Earned, Limiter!TypeOK
      <4> QED
        BY <1>0, <1>2, <3>2, <4>1
    <3> QED
      BY <1>0, <3>1, <3>2
  <2> QED
    BY <2>1, <2>2, <2>3 DEF Earned
<1>5. ASSUME NEW t \in 0..clock', NEW u \in 0..clock', t <= u
      PROVE  (passed'[u + 1] - passed'[t]) * Parts <= Full + (u - t) * PerTick
  <2>1. CASE u \in 0..clock
    <3>1. t \in 0..clock
      BY <1>0, <1>5, <2>1
    <3> QED
      BY <1>0, <1>5, <2>1, <3>1 DEF WindowBounded, Limiter!WindowBounded, Full
  <2>2. CASE u = clock + 1 /\ t \in 0..clock
    <3>1. (passed[clock + 1] - passed[t]) * Parts <= Full + (clock - t) * PerTick
      BY <1>0, <2>2, BoundNow
    <3>2. (clock - t) * PerTick <= (u - t) * PerTick
      BY <1>0, <2>2, Monotone
    <3>3. /\ (clock - t) * PerTick \in Int /\ (u - t) * PerTick \in Int
          /\ (passed[clock + 1] - passed[t]) * Parts \in Int
      <4>1. clock - t \in Int /\ u - t \in Int /\ passed[clock + 1] - passed[t] \in Int
        BY <1>0, <2>2
      <4> QED
        BY <1>0, <4>1, Products
    <3>4. passed'[u + 1] = passed[clock + 1] /\ passed'[t] = passed[t]
      BY <1>0, <1>2, <2>2
    <3>5. Full \in Int /\ \A i, j, m, n \in Int : n <= m + i /\ i <= j => n <= m + j
      BY <1>0
    <3>6. (passed[clock + 1] - passed[t]) * Parts <= Full + (u - t) * PerTick
      BY <3>1, <3>2, <3>3, <3>5
    <3> QED
      BY <3>4, <3>6
  <2>3. CASE u = clock + 1 /\ t = clock + 1
    <3>1. passed'[u + 1] - passed'[t] = 0 /\ u - t = 0
      BY <1>0, <1>2, <2>3
    <3> QED
      BY <1>0, <3>1
  <2> QED
    BY <1>0, <2>1, <2>2, <2>3
<1>6. WindowBounded'
  BY <1>5 DEF WindowBounded, Limiter!WindowBounded, Full
<1> QED
  BY <1>1, <1>3, <1>4, <1>6 DEF LimiterInv

\* What a call of allow does: `have' are the tokens it finds, `admits' is 1
\* if it passes.
LEMMA AllowEffect ==
  ASSUME LimiterInv, Limiter!Allow
  PROVE  \E later \in {clock, clock + 1} \cap 0..LastTick, have \in 0..Full, left \in 0..Full, admits \in {0, 1} :
           /\ clock' = later
           /\ bucket' = [tokens |-> left, last |-> later, used |-> TRUE]
           /\ left + admits * Parts = have
           /\ bucket.used => have <= bucket.tokens + (clock - bucket.last) * PerTick
           /\ passed' \in [0..(LastTick + 1) -> Nat]
           /\ \A t \in 0..(LastTick + 1) : passed'[t] = passed[t] + (IF t > clock THEN admits ELSE 0)
<1>0. /\ Limiter!TypeOK /\ clock \in Nat /\ PerTick \in Nat /\ Parts \in Nat \ {0} /\ Full \in Nat
      /\ bucket.last \in Nat /\ bucket.tokens \in Nat /\ bucket.last <= clock
      /\ bucket.tokens <= Full /\ passed \in [0..(LastTick + 1) -> Nat]
  <2>1. Limiter!TypeOK /\ bucket.last <= clock
    BY DEF LimiterInv, Earned
  <2> QED
    BY <2>1, LimiterFacts
<1> DEFINE from == IF bucket.used THEN bucket.last ELSE clock
           have == Limiter!Refilled(from, clock)
<1>1. clock - from \in Nat
  BY <1>0
<1>2. (clock - from) * PerTick \in Nat
  BY <1>0, <1>1, Products
<1>3. have \in 0..Full /\ have <= bucket.tokens + (clock - from) * PerTick
  BY <1>0, <1>2 DEF Limiter!Refilled, Full
<1>4. PICK later \in {clock, clock + 1} \cap 0..LastTick :
        /\ clock' = later
        /\ bucket' = [tokens |-> IF have < Parts THEN have ELSE have - Parts,
                      last |-> later, used |-> TRUE]
        /\ passed' = IF have < Parts THEN passed
                     ELSE [t \in DOMAIN passed |-> passed[t] + (IF t > clock THEN 1 ELSE 0)]
  BY DEF Limiter!Allow
<1>5. bucket.used => have <= bucket.tokens + (clock - bucket.last) * PerTick
  BY <1>3
<1> HIDE DEF have
<1>6. CASE have < Parts
  <2>1. have + 0 * Parts = have
    BY <1>0, <1>3
  <2>2. bucket' = [tokens |-> have, last |-> later, used |-> TRUE]
    BY <1>4, <1>6
  <2>3. \A t \in 0..(LastTick + 1) : passed'[t] = passed[t] + (IF t > clock THEN 0 ELSE 0)
    BY <1>0, <1>4, <1>6
  <2>4. passed' \in [0..(LastTick + 1) -> Nat]
    BY <1>0, <1>4, <1>6
  <2> QED
    BY <1>3, <1>4, <1>5, <2>1, <2>2, <2>3, <2>4
<1>7. CASE ~(have < Parts)
  <2>1. have - Parts \in 0..Full /\ (have - Parts) + 1 * Parts = have
    BY <1>0, <1>3, <1>7
  <2>2. bucket' = [tokens |-> have - Parts, last |-> later, used |-> TRUE]
    BY <1>4, <1>7
  <2>3. \A t \in 0..(LastTick + 1) : passed'[t] = passed[t] + (IF t > clock THEN 1 ELSE 0)
    BY <1>0, <1>4, <1>7
  <2>4. passed' \in [0..(LastTick + 1) -> Nat]
    BY <1>0, <1>4, <1>7
  <2> QED
    BY <1>3, <1>4, <1>5, <2>1, <2>2, <2>3, <2>4
<1> QED
  BY <1>6, <1>7

\* However a call ends, what was admitted and what is left fit in a full bucket and the rate.
LEMMA Spent ==
  ASSUME LimiterInv, NEW t \in 0..clock, NEW have \in 0..Full,
         bucket.used => have <= bucket.tokens + (clock - bucket.last) * PerTick
  PROVE  (passed[clock + 1] - passed[t]) * Parts + have <= Full + (clock - t) * PerTick
<1>0. /\ clock \in Nat /\ t \in Nat /\ t <= clock /\ PerTick \in Nat /\ Parts \in Nat /\ Full \in Nat
      /\ bucket.last \in Nat /\ bucket.tokens \in Nat /\ bucket.last <= clock
      /\ passed[clock + 1] \in Nat /\ passed[t] \in Nat /\ have \in Nat /\ have <= Full
  <2>1. Limiter!TypeOK /\ bucket.last <= clock
    BY DEF LimiterInv, Earned
  <2>2. clock + 1 \in 0..(LastTick + 1) /\ t \in 0..(LastTick + 1) /\ t \in Nat /\ t <= clock
    BY <2>1, LimiterFacts
  <2>3. passed[clock + 1] \in Nat /\ passed[t] \in Nat
    BY <2>1, <2>2, LimiterFacts
  <2>4. have \in Nat /\ have <= Full
    BY <2>1, LimiterFacts
  <2> QED
    BY <2>1, <2>2, <2>3, <2>4, LimiterFacts
<1> DEFINE n == passed[clock + 1] - passed[t]
           a == (bucket.last - t) * PerTick
           b == (clock - bucket.last) * PerTick
           c == (clock - t) * PerTick
<1>1. n \in Int /\ n * Parts \in Int /\ a \in Int /\ b \in Nat /\ c \in Nat /\ c = a + b
  <2>1. n \in Int /\ bucket.last - t \in Int /\ clock - bucket.last \in Nat /\ clock - t \in Nat
    BY <1>0
  <2>2. clock - t = (bucket.last - t) + (clock - bucket.last)
    BY <1>0
  <2> QED
    BY <1>0, <2>1, <2>2, Products
<1>2. CASE t <= bucket.last /\ bucket.used
  <2>1. n * Parts + bucket.tokens <= Full + a
    BY <1>2 DEF LimiterInv, Earned
  <2>2. have <= bucket.tokens + b
    BY <1>2
  <2> HIDE DEF n, a, b, c
  <2>3. n * Parts + have <= Full + c
    BY <1>0, <1>1, <2>1, <2>2
  <2> QED
    BY <2>3 DEF n, c
<1>3. CASE t <= bucket.last /\ ~bucket.used
  <2>1. bucket.last = 0 /\ passed[clock + 1] = 0
    BY <1>3 DEF LimiterInv, Earned, Limiter!NoBucket
  <2>2. n <= 0
    BY <1>0, <2>1
  <2>3. n * Parts <= 0 * Parts
    BY <1>0, <1>1, <2>2, Monotone
  <2>4. 0 * Parts = 0
    BY <1>0
  <2> HIDE DEF n, c
  <2>5. n * Parts + have <= Full + c
    BY <1>0, <1>1, <2>3, <2>4
  <2> QED
    BY <2>5 DEF n, c
<1>4. CASE ~(t <= bucket.last)
  <2>1. passed[clock + 1] = passed[t]
    BY <1>4 DEF LimiterInv, Earned
  <2>2. n = 0 /\ 0 * Parts = 0
    BY <1>0, <2>1
  <2> HIDE DEF n, c
  <2>3. n * Parts + have <= Full + c
    BY <1>0, <1>1, <2>2
  <2> QED
    BY <2>3 DEF n, c
<1> QED
  BY <1>2, <1>3, <1>4

LEMMA AllowStep == LimiterInv /\ Limiter!Allow => LimiterInv'
<1> SUFFICES ASSUME LimiterInv, Limiter!Allow PROVE LimiterInv'
  OBVIOUS
<1>0. /\ Limiter!TypeOK /\ Sealed /\ Earned /\ WindowBounded
      /\ clock \in Nat /\ clock <= LastTick
      /\ PerTick \in Nat /\ Parts \in Nat /\ LastTick \in Nat /\ Full \in Nat
      /\ \A t \in 0..(LastTick + 1) : passed[t] \in Nat
  BY LimiterAssumption, Products DEF LimiterInv, Limiter!TypeOK, Full
<1>1. PICK later \in {clock, clock + 1} \cap 0..LastTick, have \in 0..Full, left \in 0..Full, admits \in {0, 1} :
           /\ clock' = later
           /\ bucket' = [tokens |-> left, last |-> later, used |-> TRUE]
           /\ left + admits * Parts = have
           /\ bucket.used => have <= bucket.tokens + (clock - bucket.last) * PerTick
           /\ passed' \in [0..(LastTick + 1) -> Nat]
           /\ \A t \in 0..(LastTick + 1) : passed'[t] = passed[t] + (IF t > clock THEN admits ELSE 0)
  BY AllowEffect
<1>2. /\ later \in Nat /\ later \in 0..LastTick /\ later >= clock /\ later <= clock + 1
      /\ left \in Nat /\ left <= Full /\ have \in Nat /\ admits \in Nat
  BY <1>0
<1>3. Limiter!TypeOK'
  BY <1>1, <1>2 DEF Limiter!TypeOK, Full
\* The history after the call.
<1>4. /\ \A t \in (clock + 1)..(LastTick + 1) : passed'[t] = passed[clock + 1] + admits
      /\ \A t \in 0..clock : passed'[t] = passed[t]
  <2>1. ASSUME NEW t \in (clock + 1)..(LastTick + 1) PROVE passed'[t] = passed[clock + 1] + admits
    <3>1. t \in 0..(LastTick + 1) /\ t > clock
      BY <1>0
    <3>2. passed[t] = passed[clock + 1]
      BY <1>0 DEF Sealed
    <3> QED
      BY <1>1, <3>1, <3>2
  <2>2. ASSUME NEW t \in 0..clock PROVE passed'[t] = passed[t]
    <3>1. t \in 0..(LastTick + 1) /\ ~(t > clock) /\ passed[t] \in Nat
      BY <1>0
    <3> QED
      BY <1>1, <3>1
  <2> QED
    BY <2>1, <2>2
<1>5. /\ later + 1 \in (clock + 1)..(LastTick + 1) /\ passed'[later + 1] = passed[clock + 1] + admits
      /\ clock + 1 \in (clock + 1)..(LastTick + 1) /\ passed'[clock + 1] = passed[clock + 1] + admits
      /\ passed[clock + 1] \in Nat
  BY <1>0, <1>2, <1>4
<1>6. Sealed'
  <2>1. \A t \in (later + 1)..(LastTick + 1) : t \in (clock + 1)..(LastTick + 1)
    BY <1>0, <1>2
  <2> QED
    BY <1>1, <1>4, <1>5, <2>1 DEF Sealed
\* The bound of a span up to this call or up to the tick it reads last.
<1>7. ASSUME NEW t \in 0..clock, NEW u \in {clock, later}
      PROVE  /\ (passed[clock + 1] + admits - passed[t]) * Parts + left <= Full + (u - t) * PerTick
             /\ (passed[clock + 1] + admits - passed[t]) * Parts <= Full + (u - t) * PerTick
  <2> DEFINE n == passed[clock + 1] - passed[t]
             c == (clock - t) * PerTick
             d == (u - t) * PerTick
             m == (passed[clock + 1] + admits - passed[t]) * Parts
  <2>1. passed[t] \in Nat /\ n \in Int /\ clock - t \in Int /\ u - t \in Int /\ clock - t <= u - t
    BY <1>0, <1>2, <1>5
  <2>2. n * Parts + have <= Full + c
    BY <1>1, Spent
  <2>3. m = n * Parts + admits * Parts
    <3>1. passed[clock + 1] + admits - passed[t] = n + admits
      BY <1>2, <1>5, <2>1
    <3> QED
      BY <1>0, <1>2, <2>1, <3>1, Products
  <2>4. c <= d /\ c \in Int /\ d \in Int /\ n * Parts \in Int /\ admits * Parts \in Int
    BY <1>0, <1>2, <2>1, Monotone, Products
  <2>5. left + admits * Parts = have
    BY <1>1
  <2> HIDE DEF n, c, d, m
  <2>6. \A x, y, f, i, j \in Int, l \in Nat :
          x + (l + y) <= f + i /\ i <= j => (x + y) + l <= f + j /\ x + y <= f + j
    OBVIOUS
  <2>7. Full \in Int /\ left \in Nat
    BY <1>0, <1>2
  <2>8. m + left <= Full + d /\ m <= Full + d
    BY <2>2, <2>3, <2>4, <2>5, <2>6, <2>7
  <2> QED
    BY <2>8 DEF m, d
<1>8. Earned'
  <2>1. bucket'.last = later /\ bucket'.used /\ bucket'.tokens = left
    BY <1>1
  <2>2. ASSUME NEW t \in 0..later
        PROVE  (passed'[later + 1] - passed'[t]) * Parts + left <= Full + (later - t) * PerTick
    <3>1. CASE t \in 0..clock
      <4>1. passed'[later + 1] = passed[clock + 1] + admits /\ passed'[t] = passed[t]
        BY <1>4, <1>5, <3>1
      <4>2. (passed[clock + 1] + admits - passed[t]) * Parts + left <= Full + (later - t) * PerTick
        BY <1>7, <3>1
      <4>3. passed[clock + 1] \in Int /\ passed[t] \in Int /\ admits \in Int
        BY <1>0, <1>2, <1>5, <3>1
      <4>4. passed'[later + 1] - passed'[t] = passed[clock + 1] + admits - passed[t]
        BY <4>1, <4>3
      <4> QED
        BY <4>2, <4>4, Zenon
    <3>2. CASE t = clock + 1 /\ later = clock + 1
      <4>1. passed'[later + 1] - passed'[t] = 0 /\ later - t = 0
        BY <1>0, <1>2, <1>5, <3>2
      <4>2. 0 * Parts = 0 /\ 0 * PerTick = 0
        BY <1>0
      <4> QED
        BY <1>0, <1>2, <4>1, <4>2
    <3> QED
      BY <1>0, <1>2, <3>1, <3>2
  <2>3. \A t \in 0..later : t <= later
    BY <1>2
  <2> QED
    BY <1>1, <1>2, <2>1, <2>2, <2>3 DEF Earned
<1>9. ASSUME NEW t \in 0..later, NEW u \in 0..later, t <= u
      PROVE  (passed'[u + 1] - passed'[t]) * Parts <= Full + (u - t) * PerTick
  <2>1. CASE u \in 0..clock /\ u # clock
    <3>1. t \in 0..clock /\ u + 1 \in 0..clock
      BY <1>0, <1>9, <2>1
    <3> QED
      BY <1>0, <1>4, <1>9, <2>1, <3>1 DEF WindowBounded, Limiter!WindowBounded, Full
  <2>2. CASE u \in {clock, later} /\ t \in 0..clock
    <3>1. passed'[u + 1] = passed[clock + 1] + admits /\ passed'[t] = passed[t]
      BY <1>4, <1>5, <2>2
    <3>2. (passed[clock + 1] + admits - passed[t]) * Parts <= Full + (u - t) * PerTick
      BY <1>7, <2>2
    <3>3. passed[clock + 1] \in Int /\ passed[t] \in Int /\ admits \in Int
      BY <1>0, <1>2, <1>5, <2>2
    <3>4. passed'[u + 1] - passed'[t] = passed[clock + 1] + admits - passed[t]
      BY <3>1, <3>3
    <3> QED
      BY <3>2, <3>4, Zenon
  <2>3. CASE u = later /\ t = later /\ later = clock + 1
    <3>1. passed'[u + 1] - passed'[t] = 0 /\ u - t = 0
      BY <1>0, <1>2, <1>5, <2>3
    <3>2. 0 * Parts = 0 /\ 0 * PerTick = 0
      BY <1>0
    <3> QED
      BY <1>0, <3>1, <3>2
  <2> QED
    BY <1>0, <1>2, <1>9, <2>1, <2>2, <2>3
<1>10. WindowBounded'
  BY <1>1, <1>9 DEF WindowBounded, Limiter!WindowBounded, Full
<1> QED
  BY <1>3, <1>6, <1>8, <1>10 DEF LimiterInv

LEMMA LimiterStep == LimiterInv /\ [Limiter!Next]_limiterState => LimiterInv'
<1>1. LimiterInv /\ UNCHANGED limiterState => LimiterInv'
  BY DEF limiterState, LimiterInv, Limiter!TypeOK, Sealed, Earned, WindowBounded, Limiter!WindowBounded
<1> QED
  BY <1>1, TickStep, AllowStep DEF Limiter!Next

\* rateLimiter.allow: for any rate and burst, in every span of time no more requests pass
\* than the burst and what the rate brings in it, whatever the two reads of the clock see.
THEOREM RateIsBounded == Limiter!Spec => []WindowBounded
<1>1. LimiterInv => WindowBounded
  BY DEF LimiterInv
<1> QED
  BY LimiterInit, LimiterStep, <1>1, PTL DEF Limiter!Spec, Limiter!limiterVars, limiterState

-----------------------------------------------------------------------------
(* The parts side by side.                                                 *)

\* A behaviour of MCParts is one of every part: the part that runs takes its own steps, and
\* the others stutter.
LEMMA PartsAreThemselves ==
  PartsSpec => /\ Spec /\ Restore!Spec /\ Rules!Spec /\ Limiter!Spec
               /\ Pool!Spec /\ Enroll!Spec /\ Trust!Spec
<1>1. PartsInit => /\ Init /\ Restore!Init /\ Rules!Init /\ Limiter!Init
                   /\ Pool!Init /\ Enroll!Init /\ Trust!Init
  BY DEF PartsInit
<1>2. [PartsNext]_partsVars => /\ [Next]_requestVars /\ [Restore!Next]_restoreState
                               /\ [Rules!Next]_ruleState /\ [Limiter!Next]_limiterState
                               /\ [Pool!Next]_poolState /\ [Enroll!Next]_enrollState
                               /\ [Trust!Next]_trustState
  BY DEF PartsNext, partsVars
<1> QED
  BY <1>1, <1>2, PTL
  DEF PartsSpec, Spec, Restore!Spec, Rules!Spec, Limiter!Spec, Pool!Spec, Enroll!Spec, Trust!Spec,
      Restore!restoreVars, Rules!ruleVars, Limiter!limiterVars, Pool!poolVars, Enroll!enrollVars,
      Trust!trustVars, restoreState, ruleState, limiterState, poolState, enrollState, trustState

LEMMA RulesTyped == RuleInv => Rules!TypeOK
<1> SUFFICES ASSUME RuleInv PROVE Rules!TypeOK
  OBVIOUS
<1>1. Cardinality(reload) <= 1
  <2>1. CASE reload = {}
    BY <2>1, FS_EmptySet
  <2>2. ASSUME NEW l, reload = {l} PROVE Cardinality(reload) <= 1
    <3>1. Cardinality({l}) = 1
      BY FS_Singleton
    <3> QED
      BY <2>2, <3>1
  <2> QED
    BY <2>1, <2>2 DEF RuleInv, RuleType
<1>2. Rules!Cardinality(reload) <= 1
  BY <1>1 DEF Rules!Cardinality, Cardinality, Rules!IsFiniteSet, IsFiniteSet
<1>3. reload \subseteq Rules!Lists
  BY DEF RuleInv, RuleType
<1> QED
  BY <1>2, <1>3 DEF RuleInv, RuleType, Rules!TypeOK

\* Every part keeps its types, for any participants, whichever part runs: the bucket stays
\* between empty and the burst, a reload holds one list.
THEOREM PartsTyped == PartsSpec => []PartsTypeOK
<1>0. Rules!Spec => []RuleInv
  BY RuleInit, RuleStep, PTL DEF Rules!Spec, Rules!ruleVars, ruleState
<1>1. RestoreInv => Restore!TypeOK
  BY DEF RestoreInv
<1>2. LimiterInv => Limiter!TypeOK
  BY DEF LimiterInv
<1>3. PoolInv => Pool!TypeOK
  BY DEF PoolInv
<1>4. EnrollInv => Enroll!TypeOK
  BY DEF EnrollInv
<1>5. TrustInv => Trust!TypeOK
  BY DEF TrustInv
<1>6. Enroll!Spec => []EnrollInv
  <2>1. Enroll!Init => EnrollInv
    BY EnrollInit, EnrollmentsAssumption
  <2>2. EnrollInv /\ [Enroll!Next]_enrollState => EnrollInv'
    BY EnrollStep, EnrollmentsAssumption
  <2> QED
    BY <2>1, <2>2, PTL DEF Enroll!Spec, Enroll!enrollVars, enrollState
<1>7. Limiter!Spec => []LimiterInv
  BY LimiterInit, LimiterStep, PTL DEF Limiter!Spec, Limiter!limiterVars, limiterState
<1>8. Pool!Spec => []PoolInv
  BY PoolInit, PoolStep, PTL DEF Pool!Spec, Pool!poolVars, poolState
<1>9. Trust!Spec => []TrustInv
  BY TrustInit, TrustStep, PTL DEF Trust!Spec, Trust!trustVars, trustState
<1>10. /\ TypeOK /\ Restore!TypeOK /\ Rules!TypeOK /\ Limiter!TypeOK
       /\ Pool!TypeOK /\ Enroll!TypeOK /\ Trust!TypeOK
       => PartsTypeOK
  BY DEF PartsTypeOK
<1> QED
  BY PartsAreThemselves, TypeCorrect, RestoreAlways, RulesTyped, <1>0, <1>1,
     <1>2, <1>3, <1>4, <1>5, <1>6, <1>7, <1>8, <1>9, <1>10, PTL

=============================================================================
