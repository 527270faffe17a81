---------------------------- MODULE DelegatedKeys ----------------------------
(***************************************************************************)
(* The delegation of one user to one web gateway: a row of web_delegations *)
(* at the Agent, and per Server a key file and its meta file with the      *)
(* expiry.  A ceremony enrolls a gateway key, or revokes the enrolled one: *)
(* dvault signs a statement over a Server's nonce, the Agent forwards it   *)
(* to one Server and then writes its row.  The RPC has a deadline, the     *)
(* Server's handler goes on after it; the Agent may stop at any point.     *)
(***************************************************************************)
EXTENDS Naturals, FiniteSets

CONSTANTS
  Keys,        \* public keys of the gateway
  Servers,
  MaxCalls,    \* bound: runs of dvault web enroll / revoke, and DELETE requests of the gateway
  TTL,         \* lifetime of a delegation
  NonceTTL,    \* lifetime of a challenge
  MaxOpen,     \* bound: ceremonies open at once, at the Agent or at a Server
  MaxTime      \* bound: seconds that pass

ASSUME TimesAssumption ==
  MaxCalls \in Nat /\ TTL \in Nat \ {0} /\ NonceTTL \in Nat \ {0} /\ MaxTime \in Nat /\ MaxOpen \in Nat

\* Ceremonies in the order in which they begin.
Ceremonies == 1..MaxCalls

VARIABLES
  now,         \* whole seconds
  row,         \* the row of web_delegations
  pub,         \* pub[s]: keys with a .pub file on Server s
  meta,        \* meta[s][k]: the expiry in the .meta file of key k, 0 without the file
  pc,          \* pc[c]: where ceremony c is, on the Agent's side
  call,        \* call[c]: what was signed, and what the Agent forwards (sentKey, sentExp)
  handler,     \* handler[c]: where the Server's handler of c's RPC is
  vouched,     \* Servers whose DecideAuth allows this user's delegation calls unsigned
  signed,      \* history: <<key, expiry>> pairs the user has signed a consent for
  asked,       \* history: enrolled keys whose revocation has been asked for
  overlapped   \* history: a ceremony began beside another one or a handler left behind

files  == <<pub, meta>>
ghosts == <<signed, asked, overlapped>>
vars   == <<now, row, files, pc, call, handler, vouched, ghosts>>

Times  == 0..MaxTime + TTL
NoRow  == [revoked |-> TRUE]
NoCall == [kind |-> "none"]
Rows   == [key : Keys, exp : Times, revoked : BOOLEAN]
Calls  == [kind : {"enroll", "revoke", "delete"}, key : Keys, exp : Times,
           born : 0..MaxTime, server : Servers, sentKey : Keys, sentExp : Times]

Stages   == {"idle", "signed", "rpc", "row", "done", "failed"}
Handlers == {"none", "check", "pub", "meta", "ok", "error"}

Running(c) == pc[c] \in {"signed", "rpc", "row"}
Serving(c) == handler[c] \in {"check", "pub", "meta"}
Removing(c) == call[c].kind # "enroll"

TypeOK ==
  /\ now \in 0..MaxTime
  /\ row \in Rows \cup {NoRow}
  /\ pub \in [Servers -> SUBSET Keys]
  /\ meta \in [Servers -> [Keys -> Times]]
  /\ pc \in [Ceremonies -> Stages]
  /\ call \in [Ceremonies -> Calls \cup {NoCall}]
  /\ handler \in [Ceremonies -> Handlers]
  /\ vouched \subseteq Servers
  /\ signed \subseteq Keys \X Times
  /\ asked \subseteq Keys
  /\ overlapped \in BOOLEAN
  /\ \A c \in Ceremonies :
       /\ call[c] = NoCall <=> pc[c] = "idle"
       /\ pc[c] \in {"idle", "signed"} => handler[c] = "none"

Init ==
  /\ now = 0
  /\ row = NoRow
  /\ pub = [s \in Servers |-> {}]
  /\ meta = [s \in Servers |-> [k \in Keys |-> 0]]
  /\ pc = [c \in Ceremonies |-> "idle"]
  /\ call = [c \in Ceremonies |-> NoCall]
  /\ handler = [c \in Ceremonies |-> "none"]
  /\ vouched \in SUBSET Servers
  /\ signed = {}
  /\ asked = {}
  /\ overlapped = FALSE

Goto(c, s) == pc' = [pc EXCEPT ![c] = s]

Tick ==
  /\ now < MaxTime
  /\ now' = now + 1
  /\ UNCHANGED <<row, files, pc, call, handler, vouched, ghosts>>

\* LoadDelegationKeys reads the meta files and takes an unexpired one's key.
Loadable(s, k) == k \in pub[s] /\ meta[s][k] > now

RowActive == row # NoRow /\ ~row.revoked /\ now < row.exp

-----------------------------------------------------------------------------
(* dvault and the gateway: a nonce of one Server, a signed statement.      *)

Begin(c, record) ==
  /\ pc[c] = "idle" /\ \A d \in 1..c - 1 : pc[d] # "idle"
  /\ Goto(c, "signed")
  /\ call' = [call EXCEPT ![c] = record]
  /\ Cardinality({d \in Ceremonies : Running(d) \/ Serving(d)}) < MaxOpen
  /\ overlapped' = (overlapped \/ \E d \in Ceremonies : Running(d) \/ Serving(d))
  /\ UNCHANGED <<now, row, files, handler, vouched>>

\* dvault web enroll: the consent names the expiry, not the lifetime.
SignConsent(c) ==
  \E k \in Keys, s \in Servers :
    /\ Begin(c, [kind |-> "enroll", key |-> k, exp |-> now + TTL, born |-> now,
                 server |-> s, sentKey |-> k, sentExp |-> 0])
    /\ signed' = signed \cup {<<k, now + TTL>>}
    /\ UNCHANGED asked

\* dvault web revoke signs the key of a row that is not revoked, expired or not.
SignRemoval(c) ==
  /\ row # NoRow /\ ~row.revoked
  /\ \E n \in Servers :
       Begin(c, [kind |-> "revoke", key |-> row.key, exp |-> 0, born |-> now,
                 server |-> n, sentKey |-> row.key, sentExp |-> 0])
  /\ asked' = asked \cup {row.key}
  /\ UNCHANGED signed

\* The gateway's own DELETE, past the gate and the challenge: it signs with its key.
SignDelete(c) ==
  /\ RowActive
  /\ \E n \in Servers :
       Begin(c, [kind |-> "delete", key |-> row.key, exp |-> 0, born |-> now,
                 server |-> n, sentKey |-> row.key, sentExp |-> 0])
  /\ asked' = asked \cup {row.key}
  /\ UNCHANGED signed

-----------------------------------------------------------------------------
(* The Agent.                                                              *)

\* EnrollWebDelegation computes the expiry again, from its own clock.
ForwardConsent(c) ==
  /\ pc[c] = "signed"
  /\ call[c].kind = "enroll"
  /\ Goto(c, "rpc")
  /\ call' = [call EXCEPT ![c].sentExp = now + TTL]
  /\ handler' = [handler EXCEPT ![c] = "check"]
  /\ UNCHANGED <<now, row, files, vouched, ghosts>>

\* RevokeWebDelegation reads the row again and forwards the key it finds now.
ForwardRemoval(c) ==
  /\ pc[c] = "signed"
  /\ call[c].kind = "revoke"
  /\ row # NoRow /\ ~row.revoked
  /\ Goto(c, "rpc")
  /\ call' = [call EXCEPT ![c].sentKey = row.key]
  /\ handler' = [handler EXCEPT ![c] = "check"]
  /\ UNCHANGED <<now, row, files, vouched, ghosts>>

\* handleDeleteDelegation checks the row and the signature and names no Server, which
\* ResolveServer refuses; the error is logged and the row revoked.
ForwardDelete(c) ==
  /\ pc[c] = "signed"
  /\ call[c].kind = "delete"
  /\ RowActive /\ row.key = call[c].key
  /\ Goto(c, "row")
  /\ UNCHANGED <<now, row, files, call, handler, vouched, ghosts>>

\* No active row, another key's row, or no connection for an enrollment.
Refuse(c) ==
  /\ pc[c] = "signed"
  /\ CASE call[c].kind = "enroll" -> TRUE
       [] call[c].kind = "revoke" -> row = NoRow \/ row.revoked
       [] OTHER -> ~RowActive \/ row.key # call[c].key
  /\ Goto(c, "failed")
  /\ UNCHANGED <<now, row, files, call, handler, vouched, ghosts>>

\* As if the row were written whatever the Server said.
AnswerIgnored(c) ==
  /\ pc[c] = "rpc"
  /\ Goto(c, "row")
  /\ UNCHANGED <<now, row, files, call, handler, vouched, ghosts>>

\* The answer of the RPC, or its error, which comes after 30 s at the latest, whatever
\* the handler does then: an enrollment needs success, a removal goes on with the row.
Answer(c) ==
  /\ pc[c] = "rpc"
  /\ IF handler[c] = "ok" \/ Removing(c) THEN Goto(c, "row") ELSE Goto(c, "failed")
  /\ UNCHANGED <<now, row, files, call, handler, vouched, ghosts>>

\* UpsertWebDelegation replaces the row, whatever key it held.
UpsertRow(c) ==
  /\ pc[c] = "row"
  /\ ~Removing(c)
  /\ Goto(c, "done")
  /\ row' = [key |-> call[c].sentKey, exp |-> call[c].sentExp, revoked |-> FALSE]
  /\ asked' = asked \ {call[c].sentKey}
  /\ UNCHANGED <<now, files, call, handler, vouched, signed, overlapped>>

\* RevokeWebDelegation of the store goes by user and gateway, not by key.
RevokeRow(c) ==
  /\ pc[c] = "row"
  /\ Removing(c)
  /\ Goto(c, "done")
  /\ row' = IF row = NoRow THEN NoRow ELSE [row EXCEPT !.revoked = TRUE]
  /\ UNCHANGED <<now, files, call, handler, vouched, ghosts>>

RowFails(c) ==
  /\ pc[c] = "row"
  /\ Goto(c, "failed")
  /\ UNCHANGED <<now, row, files, call, handler, vouched, ghosts>>

\* As if the calls of before were taken up again after a restart.
AgentStopsResumes ==
  /\ \E c \in Ceremonies : Running(c)
  /\ pc' = [c \in Ceremonies |-> IF Running(c) THEN "signed" ELSE pc[c]]
  /\ UNCHANGED <<now, row, files, call, handler, vouched, ghosts>>

\* Nothing is resumed after a restart: every call of the Agent has failed.
AgentStops ==
  /\ \E c \in Ceremonies : Running(c)
  /\ pc' = [c \in Ceremonies |-> IF Running(c) THEN "failed" ELSE pc[c]]
  /\ UNCHANGED <<now, row, files, call, handler, vouched, ghosts>>

-----------------------------------------------------------------------------
(* The Server's handlers.                                                  *)

HandlerGoto(c, h) == handler' = [handler EXCEPT ![c] = h]

\* As if the expiry were not part of the statement that is verified.
ConsentIgnoresExpiry(c) ==
  /\ now < call[c].born + NonceTTL
  /\ call[c].sentKey = call[c].key

\* The signature over the request as it was forwarded, with a live nonce of this Server.
StatementHolds(c) ==
  /\ now < call[c].born + NonceTTL
  /\ call[c].sentKey = call[c].key
  /\ call[c].sentExp = call[c].exp

\* RegisterDelegationKey and RemoveDelegationKey up to the files.
Check(c) ==
  /\ handler[c] = "check"
  /\ IF /\ call[c].server \in vouched \/ StatementHolds(c)
        /\ Removing(c) \/ call[c].sentExp > now
       THEN HandlerGoto(c, "pub") ELSE HandlerGoto(c, "error")
  /\ UNCHANGED <<now, row, files, pc, call, vouched, ghosts>>

\* The .pub file is written or removed first.
WritePub(c) ==
  /\ handler[c] = "pub"
  /\ pub' = [pub EXCEPT ![call[c].server] =
               IF Removing(c) THEN @ \ {call[c].sentKey} ELSE @ \cup {call[c].sentKey}]
  /\ HandlerGoto(c, "meta")
  /\ UNCHANGED <<now, row, meta, pc, call, vouched, ghosts>>

WriteMeta(c) ==
  /\ handler[c] = "meta"
  /\ meta' = [meta EXCEPT ![call[c].server][call[c].sentKey] =
                IF Removing(c) THEN 0 ELSE call[c].sentExp]
  /\ HandlerGoto(c, "ok")
  /\ UNCHANGED <<now, row, pub, pc, call, vouched, ghosts>>

\* As if the error of a removal or a write were dropped.
HandlerFailureDropped(c) ==
  /\ Serving(c)
  /\ HandlerGoto(c, "ok")
  /\ UNCHANGED <<now, row, files, pc, call, vouched, ghosts>>

\* A nonce of another Server, a refusal of DecideAuth, an unreadable key, a failing write, or
\* the Server stops.
HandlerFails(c) ==
  /\ Serving(c)
  /\ HandlerGoto(c, "error")
  /\ UNCHANGED <<now, row, files, pc, call, vouched, ghosts>>

-----------------------------------------------------------------------------

AgentStep(c) ==
  \/ ForwardConsent(c) \/ ForwardRemoval(c) \/ ForwardDelete(c) \/ Refuse(c)
  \/ Answer(c) \/ UpsertRow(c) \/ RevokeRow(c) \/ RowFails(c)

ServerStep(c) == Check(c) \/ WritePub(c) \/ WriteMeta(c) \/ HandlerFails(c)

Next ==
  \/ Tick
  \/ AgentStops
  \/ \E c \in Ceremonies : \/ SignConsent(c) \/ SignRemoval(c) \/ SignDelete(c)
                           \/ AgentStep(c) \/ ServerStep(c)

Spec == Init /\ [][Next]_vars

-----------------------------------------------------------------------------
(* Properties.                                                             *)

\* A Server that verifies signatures never holds a usable gateway key, with an expiry,
\* that the user has not signed exactly so: whatever the Agent forwards, late or twice.
KeysAreConsented ==
  \A s \in Servers \ vouched, k \in Keys : Loadable(s, k) => <<k, meta[s][k]>> \in signed

\* While ceremonies do not overlap, an active row whose key nobody has asked to revoke is
\* backed by a Server that accepts that key for as long: the web request it admits is not
\* refused later by every Server.
ActiveRowIsBacked ==
  ~overlapped /\ RowActive /\ row.key \notin asked =>
    \E s \in Servers : row.key \in pub[s] /\ meta[s][row.key] >= row.exp

\* While ceremonies do not overlap, a revocation that a Server has answered leaves no usable
\* copy of the key on that Server, until a later ceremony enrolls it again: files half
\* written by a failed enrollment, or left by an earlier one, do not come back.
AnsweredRevocationHolds ==
  \A c \in Ceremonies :
    /\ ~overlapped /\ pc[c] = "done" /\ call[c].kind = "revoke" /\ handler[c] = "ok"
    /\ \A d \in Ceremonies : d > c => pc[d] = "idle"
    => ~Loadable(call[c].server, call[c].sentKey)

=============================================================================
