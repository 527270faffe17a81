----------------------------- MODULE TrustPolicy -----------------------------
(***************************************************************************)
(* Whether a Server lets an Agent vouch for a user: the user_auth section  *)
(* as LoadServerConfig accepts and completes it, reloads, and what the     *)
(* interceptor and DecideAuth make of a call.                              *)
(***************************************************************************)
EXTENDS Integers, FiniteSets

CONSTANTS
  Users,
  Uids,    \* user ids; a call without x-caller-uid counts as 0
  MinUids  \* what a configuration may write for min_uid, any int32, besides -1, 0 (left out) and 1000

VARIABLES
  policy,   \* the policy in force: allowed hosts and the entry of this Agent
  written,  \* history: the configuration that was accepted last, as it was written
  call,     \* the last call
  decision  \* what was decided for it

trustVars == <<policy, written, call, decision>>

Modes == {"none", "per_user_key", "host_vouched"}
Capabilities == {"backup", "delegation"}
\* GetChallenge stands for the methods without a capability.
Methods == {"PushBackup", "RegisterTaskGrant", "GetChallenge"}

DefaultMinUid == 1000
Policies ==
  [host : BOOLEAN, mode : Modes, minUid : MinUids \cup {-1, 0, DefaultMinUid}, groups : SUBSET {"staff"},
   include : SUBSET Users, exclude : SUBSET Users, caps : SUBSET Capabilities]
Calls == [user : Users, uid : Uids, groups : SUBSET {"staff"}, method : Methods]
NoCall == [user |-> "nobody"]

TypeOK ==
  /\ policy \in Policies /\ written \in Policies
  /\ call \in Calls \cup {NoCall}
  /\ decision \in {"none", "denied", "signature", "allow", "unknown host"}

\* validateUserAuth: at least one positive condition, a capability, a known Agent.
Accepted(p) ==
  /\ p.mode # "none" => p.host
  /\ p.mode = "host_vouched" => p.caps # {} /\ (p.minUid # 0 \/ p.groups # {} \/ p.include # {})

\* As if a min_uid that is left out stayed 0.
CompletedAsWritten(p) == p

Completed(p) ==
  IF p.mode = "host_vouched" /\ p.minUid = 0 THEN [p EXCEPT !.minUid = DefaultMinUid] ELSE p

\* An allowed host and no entry under user_auth.
NoEntry == [host |-> TRUE, mode |-> "none", minUid |-> 0, groups |-> {}, include |-> {},
            exclude |-> {}, caps |-> {}]

Init ==
  /\ policy = NoEntry /\ written = NoEntry
  /\ call = NoCall
  /\ decision = "none"

\* The start, or SIGHUP: a refused configuration leaves the old one in force.  (Bound: every
\* second configuration is NoEntry.)
Reload ==
  \E p \in IF policy = NoEntry THEN Policies ELSE {NoEntry} :
    /\ policy' = IF Accepted(p) THEN Completed(p) ELSE policy
    /\ written' = IF Accepted(p) THEN p ELSE written
    /\ call' = NoCall
    /\ decision' = "none"

CapabilityOf(method) ==
  CASE method = "PushBackup"        -> {"backup"}
    [] method = "RegisterTaskGrant" -> {"delegation"}
    [] OTHER                        -> {}

Trusted(c) ==
  /\ c.user \notin policy.exclude
  /\ \/ c.user \in policy.include
     \/ /\ c.uid >= policy.minUid
        /\ policy.groups = {} \/ policy.groups \cap c.groups # {}

DecideAuth(c) ==
  IF policy.mode # "host_vouched" \/ CapabilityOf(c.method) \cap policy.caps = {}
  THEN "signature"
  ELSE IF Trusted(c) THEN "allow" ELSE "denied"

Call ==
  /\ decision = "none"
  /\ \E c \in Calls :
       /\ call' = c
       /\ decision' = IF policy.host THEN DecideAuth(c) ELSE "unknown host"
  /\ UNCHANGED <<policy, written>>

Next == Reload \/ Call

Spec == Init /\ [][Next]_trustVars

-----------------------------------------------------------------------------
(* Properties.                                                             *)

\* A configuration's threshold: what it writes, 1000 where it leaves min_uid out.
Threshold(p) == IF p.minUid = 0 THEN DefaultMinUid ELSE p.minUid

\* Whatever a call claims or leaves out, it passes unsigned only where the configuration, read
\* as it was written, trusts this Agent with the method's capability and says at least one
\* thing of whom: never for a user it excludes, and else only for one it includes by name, or
\* whose uid reaches its min_uid (1000 where it writes none) and who is in one of its groups.
\* A uid that is left out never passes for want of a min_uid.
VouchingIsConfined ==
  decision = "allow" =>
    /\ written.host /\ written.mode = "host_vouched"
    /\ CapabilityOf(call.method) # {} /\ CapabilityOf(call.method) \subseteq written.caps
    /\ written.minUid # 0 \/ written.groups # {} \/ written.include # {}
    /\ call.user \notin written.exclude
    /\ \/ call.user \in written.include
       \/ /\ call.uid >= Threshold(written)
          /\ written.groups = {} \/ written.groups \cap call.groups # {}

=============================================================================
