---------------------------- MODULE KeyEnrollment ----------------------------
(***************************************************************************)
(* datavault-server key-enroll: a local account of the Server installs its *)
(* own public key for an Agent.  The daemon writes a temporary file, syncs *)
(* it, renames it over <user>.pub and syncs the Agent's directory, which   *)
(* the first one has made; enrollments run at once, the policy is          *)
(* reloaded, and the machine may lose power.                               *)
(***************************************************************************)
EXTENDS Naturals, FiniteSets

CONSTANT Enrollments  \* bound: the enrollments, each of a key of its own

VARIABLES
  permitted,  \* the policy allows this account and Agent now
  pubFile,    \* whose key <user>.pub names, as a set
  onDisk,     \* whose key it would name after a power failure
  bytes,      \* bytes[e]: e's key file: none, written, on the disk, or lost
  step,       \* step[e]: where enrollment e is
  order,      \* order[e]: history: the how-manieth rename was e's
  agentDir,   \* the Agent's directory below the keys: none, made, or its entry on the disk
  wiped       \* history: the enrolled whose key went with the Agent's directory

enrollVars == <<permitted, pubFile, onDisk, bytes, step, order, agentDir, wiped>>

Running(e) == step[e] \in {"temp", "write", "sync", "rename", "syncdir"}

TypeOK ==
  /\ permitted \in BOOLEAN
  /\ pubFile \in {{e} : e \in Enrollments} \cup {{}}
  /\ onDisk \in {{e} : e \in Enrollments} \cup {{}}
  /\ bytes \in [Enrollments -> {"none", "partial", "written", "stable", "lost"}]
  /\ step \in [Enrollments -> {"idle", "temp", "write", "sync", "rename", "syncdir",
                               "enrolled", "denied", "failed"}]
  /\ order \in [Enrollments -> 0..Cardinality(Enrollments)]
  /\ agentDir \in {"none", "made", "stable"}
  /\ wiped \subseteq Enrollments

Init ==
  /\ permitted \in BOOLEAN
  /\ pubFile = {}
  /\ onDisk = {}
  /\ bytes = [e \in Enrollments |-> "none"]
  /\ step = [e \in Enrollments |-> "idle"]
  /\ order = [e \in Enrollments |-> 0]
  /\ agentDir \in {"none", "stable"}
  /\ wiped = {}

Goto(e, s) == step' = [step EXCEPT ![e] = s]
Bytes(e, b) == bytes' = [bytes EXCEPT ![e] = b]

\* SIGHUP replaces the configuration that LocalServer holds.
Reload ==
  /\ \E e \in Enrollments : step[e] = "idle"
  /\ permitted' = ~permitted
  /\ UNCHANGED <<pubFile, onDisk, bytes, step, order, agentDir, wiped>>

\* The socket's peer has no account that may enroll, or one whose name cannot be a file's.
Unidentified(e) ==
  /\ step[e] = "idle"
  /\ Goto(e, "denied")
  /\ UNCHANGED <<permitted, pubFile, onDisk, bytes, order, agentDir, wiped>>

\* A malformed request or key, an unknown Agent.
RefuseKey(e) ==
  /\ step[e] = "idle"
  /\ Goto(e, "denied")
  /\ UNCHANGED <<permitted, pubFile, onDisk, bytes, order, agentDir, wiped>>

Authorize(e) == Goto(e, IF permitted THEN "temp" ELSE "denied")

\* A well-formed request of a local account.
Request(e) ==
  /\ step[e] = "idle"
  /\ Authorize(e)
  /\ UNCHANGED <<permitted, pubFile, onDisk, bytes, order, agentDir, wiped>>

\* MkdirAll: nothing syncs the directory that the new one has its entry in.
MadeDir == IF agentDir = "none" THEN "made" ELSE agentDir

CreateTemp(e) ==
  /\ step[e] = "temp"
  /\ agentDir' = MadeDir
  /\ Bytes(e, "partial")
  /\ Goto(e, "write")
  /\ UNCHANGED <<permitted, pubFile, onDisk, order, wiped>>

WriteKey(e) ==
  /\ step[e] = "write"
  /\ Bytes(e, "written")
  /\ Goto(e, "sync")
  /\ UNCHANGED <<permitted, pubFile, onDisk, order, agentDir, wiped>>

\* As if the file's own Sync were left out.
SyncFileSkipped(e) ==
  /\ step[e] = "sync"
  /\ Goto(e, "rename")
  /\ UNCHANGED <<permitted, pubFile, onDisk, bytes, order, agentDir, wiped>>

SyncFile(e) ==
  /\ step[e] = "sync"
  /\ Bytes(e, "stable")
  /\ Goto(e, "rename")
  /\ UNCHANGED <<permitted, pubFile, onDisk, order, agentDir, wiped>>

Rename(e) ==
  /\ step[e] = "rename"
  /\ pubFile' = {e}
  /\ order' = [order EXCEPT ![e] = 1 + Cardinality({d \in Enrollments : order[d] > 0})]
  /\ Goto(e, "syncdir")
  /\ UNCHANGED <<permitted, onDisk, bytes, agentDir, wiped>>

SyncDirectory(e) ==
  /\ step[e] = "syncdir"
  /\ onDisk' = pubFile
  /\ Goto(e, "enrolled")
  /\ UNCHANGED <<permitted, pubFile, bytes, order, agentDir, wiped>>

\* Any of the calls fails; the temporary file is removed.
Fail(e) ==
  /\ Running(e)
  /\ bytes' = IF step[e] = "syncdir" THEN bytes ELSE [bytes EXCEPT ![e] = "none"]
  /\ agentDir' \in {agentDir} \cup (IF step[e] = "temp" THEN {MadeDir} ELSE {})
  /\ Goto(e, "failed")
  /\ UNCHANGED <<permitted, pubFile, onDisk, order, wiped>>

\* The file system writes back an entry of a directory, or a file's bytes, whenever it likes.
WriteBack ==
  \/ /\ onDisk # pubFile
     /\ onDisk' = pubFile
     /\ UNCHANGED <<permitted, pubFile, bytes, step, order, agentDir, wiped>>
  \/ /\ \E e \in Enrollments : bytes[e] = "written" /\ Bytes(e, "stable")
     /\ UNCHANGED <<permitted, pubFile, onDisk, step, order, agentDir, wiped>>
  \/ /\ agentDir = "made"
     /\ agentDir' = "stable"
     /\ UNCHANGED <<permitted, pubFile, onDisk, bytes, step, order, wiped>>

PowerCut == step' = [e \in Enrollments |-> IF Running(e) THEN "failed" ELSE step[e]]

\* At any time: what is not on the disk is lost.
PowerFails ==
  /\ agentDir # "made"
  /\ pubFile' = onDisk
  /\ bytes' = [e \in Enrollments |-> IF bytes[e] = "written" THEN "lost" ELSE bytes[e]]
  /\ PowerCut
  /\ UNCHANGED <<permitted, onDisk, order, agentDir, wiped>>

\* A directory without its entry takes all the keys in it, synced or not.
PowerTakesDirectory ==
  /\ agentDir = "made"
  /\ agentDir' = "none"
  /\ pubFile' = {} /\ onDisk' = {}
  /\ bytes' = [e \in Enrollments |-> IF bytes[e] = "none" THEN "none" ELSE "lost"]
  /\ wiped' = wiped \cup {e \in Enrollments : step[e] = "enrolled"}
  /\ PowerCut
  /\ UNCHANGED <<permitted, order>>

Next ==
  \/ Reload \/ WriteBack \/ PowerFails \/ PowerTakesDirectory
  \/ \E e \in Enrollments : \/ Unidentified(e) \/ RefuseKey(e) \/ Request(e)
                            \/ CreateTemp(e) \/ WriteKey(e) \/ SyncFile(e) \/ Rename(e)
                            \/ SyncDirectory(e) \/ Fail(e)

Spec == Init /\ [][Next]_enrollVars

-----------------------------------------------------------------------------
(* Properties.                                                             *)

\* <user>.pub is the whole key of one enrollment whenever somebody reads it, also after a
\* power failure in the middle of another one.
InstalledKeyIsWhole == \A e \in pubFile : bytes[e] \in {"written", "stable"}

\* A key that the account was told is enrolled is there until a later enrollment replaces
\* it: a power failure brings no older key back and takes none away, unless it takes the
\* Agent's whole directory, which happens only before its entry was ever on the disk.
EnrolledKeyStays ==
  \A e \in Enrollments :
    step[e] = "enrolled" /\ e \notin wiped => \E d \in pubFile : order[d] >= order[e]

=============================================================================
