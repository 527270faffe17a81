------------------------------- MODULE MCParts -------------------------------
(***************************************************************************)
(* The smaller protocols side by side: a behaviour chooses one of the      *)
(* parts and runs it, the others keep their initial states.  They share    *)
(* no state in the code.                                                   *)
(***************************************************************************)
EXTENDS SignedRequests, TLC

CONSTANTS Restores, Edits, Names, Burst, PerTick, Parts, LastTick, Callers, Conns,
          Enrollments, Users, Uids, MinUids

\* newRateLimiter is given a rate and a burst that are not negative.
ASSUME LimiterAssumption ==
  Burst \in Nat /\ PerTick \in Nat /\ Parts \in Nat \ {0} /\ LastTick \in Nat
\* The enrollments of a user's key that are ever asked for.
ASSUME EnrollmentsAssumption == IsFiniteSet(Enrollments)

VARIABLES
  part,  \* the part that runs
  target, tree, tmp, got, stage, halted, cut,
  store, file, doubled, memory, edit, loaded, editAt, reload, expected, contested, torn,
  clock, bucket, passed,
  cached, mutex, open, given, callAt,
  permitted, pubFile, onDisk, bytes, step, order, agentDir, wiped,
  policy, written, call, decision

Restore == INSTANCE RestoreTarget
Rules   == INSTANCE RuleFiles
Limiter == INSTANCE RateLimiter
Pool    == INSTANCE ConnPool
Enroll  == INSTANCE KeyEnrollment
Trust   == INSTANCE TrustPolicy

restoreState == <<target, tree, tmp, got, stage, halted, cut>>
ruleState ==
  <<store, file, doubled, memory, edit, loaded, editAt, reload, expected, contested, torn>>
limiterState == <<clock, bucket, passed>>
poolState == <<cached, mutex, open, given, callAt>>
enrollState == <<permitted, pubFile, onDisk, bytes, step, order, agentDir, wiped>>
trustState == <<policy, written, call, decision>>

partsVars ==
  <<part, requestVars, restoreState, ruleState, limiterState,
    poolState, enrollState, trustState>>

\* What a part may start in has one value while another part runs.
PartsInit ==
  /\ part \in {"requests", "restore", "rules", "limiter", "pool", "enroll", "trust"}
  /\ Init /\ Restore!Init /\ Rules!Init /\ Limiter!Init /\ Pool!Init /\ Enroll!Init /\ Trust!Init
  /\ part # "requests" => vouched = {}
  /\ part # "restore" => /\ target = [r \in Restores |-> "outer"]
                         /\ \A p \in DOMAIN tree : tree[p].kind = "absent"
  /\ part # "rules" => store = "user" /\ file.state = "none"
  /\ part # "enroll" => permitted /\ agentDir = "stable"

PartsNext ==
  \/ /\ part = "requests" /\ Next
     /\ UNCHANGED <<part, restoreState, ruleState, limiterState,
                    poolState, enrollState, trustState>>
  \/ /\ part = "restore" /\ Restore!Next
     /\ UNCHANGED <<part, requestVars, ruleState, limiterState, poolState,
                    enrollState, trustState>>
  \/ /\ part = "rules" /\ Rules!Next
     /\ UNCHANGED <<part, requestVars, restoreState, limiterState,
                    poolState, enrollState, trustState>>
  \/ /\ part = "limiter" /\ Limiter!Next
     /\ UNCHANGED <<part, requestVars, restoreState, ruleState, poolState,
                    enrollState, trustState>>
  \/ /\ part = "pool" /\ Pool!Next
     /\ UNCHANGED <<part, requestVars, restoreState, ruleState,
                    limiterState, enrollState, trustState>>
  \/ /\ part = "enroll" /\ Enroll!Next
     /\ UNCHANGED <<part, requestVars, restoreState, ruleState,
                    limiterState, poolState, trustState>>
  \/ /\ part = "trust" /\ Trust!Next
     /\ UNCHANGED <<part, requestVars, restoreState, ruleState,
                    limiterState, poolState, enrollState>>

PartsSpec == PartsInit /\ [][PartsNext]_partsVars

Symmetry ==
  Permutations(Challenges) \cup Permutations(Requests) \cup Permutations(Servers)

-----------------------------------------------------------------------------
(* The parts' properties under the names they have there.                  *)

\* Every part keeps its variables within their types, the bucket between empty and the burst.
PartsTypeOK ==
  /\ TypeOK
  /\ Restore!TypeOK /\ Rules!TypeOK /\ Limiter!TypeOK /\ Pool!TypeOK /\ Enroll!TypeOK /\ Trust!TypeOK

\* RunRestore: a restored tree is whole at its target, a part of a tree is left only by a
\* removal that failed or was cut, a completed restore has left its tree there as the
\* user's, and a temporary directory outlives its restore only by a stop or a failed removal.
RestoresEndWhole ==
  /\ Restore!RestoredIsWhole /\ Restore!PartHasCause
  /\ Restore!CompletedIsOwned /\ Restore!NoTempLeft
\* restoreFromStream: a directory of the user goes only for a whole new tree beside it.
OldGoesForWhole == Restore!OldGoesForWhole
\* UserRuleStore and the machine rules: acknowledged edits without overlap add up, of the
\* machine's also per name; overlaps bring no user's rule of another name back; only a cut or
\* doubled write leaves an unreadable file; the Agent's memory is what the file says.
RulesAgree == Rules!EditsAddUp /\ Rules!UnreadableHasCause /\ Rules!MemoryIsDisk
\* rateLimiter.allow: burst and rate bound every span of time.
WindowBounded == Limiter!WindowBounded
\* ConnPool: every open connection is cached, every client handed out works.
NoStrayConnection == Pool!NoStrayConnection
\* Enroll: <user>.pub is one whole key, and an enrolled one stays until a later one
\* replaces it or a power failure takes the Agent's directory before it is on the disk.
EnrolledKeySurvives == Enroll!InstalledKeyIsWhole /\ Enroll!EnrolledKeyStays
\* DecideAuth: an unsigned call passes only for whom an accepted policy trusts.
VouchingIsConfined == Trust!VouchingIsConfined

=============================================================================
