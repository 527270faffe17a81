---------------------------- MODULE SignedRequests ----------------------------
(***************************************************************************)
(* Calls of one user that a Server answers for a signature: dvault's, with *)
(* the user's key, and a web gateway's through the Agent's HTTPS API, with *)
(* its delegation key.  A challenge is a nonce of one Server, bound to no  *)
(* method and to nobody; the caller signs it with a call, the Server       *)
(* verifies the signature and then consumes the nonce.  A web sync signs a *)
(* grant for a task key that the Agent made with the challenge, and pushes *)
(* with that key.                                                          *)
(***************************************************************************)
EXTENDS Naturals, FiniteSets

CONSTANTS
  Challenges,    \* bound: the challenges that are asked for
  Requests,      \* bound: the requests that present one
  Servers,
  GateSeesUser   \* whether the gate finds the {user} of the path (ServeMux sets it later)

VARIABLES
  challenge,  \* challenge[c]: the Server of the nonce, and whether a task key was made with it
  nonce,      \* nonce[c]: its row at that Server
  pending,    \* challenges whose task key the Agent holds (ephemeralKeys)
  delegated,  \* the Agent's row of this user and gateway is active
  keyed,      \* Servers with an unexpired key of the gateway; the user's is always there
  vouched,    \* Servers whose DecideAuth allows this user unsigned
  grants,     \* grants[s]: challenges whose task key Server s has a live grant for
  request,    \* request[r]: the challenge presented, the Server, the method and who signed
  at,         \* at[r]: where request r is
  accepted    \* history: accepted[s]: task keys with which Server s took a batch

requestVars ==
  <<challenge, nonce, pending, delegated, keyed, vouched, grants, request, at, accepted>>

None == [kind |-> "none"]
\* What is asked and who signed: dvault's own syncs present no challenge.
Presentations ==
  [kind : {"call", "sync"}, signer : {"user", "gateway"}, chal : Challenges, server : Servers]
Presentable == {p \in Presentations : p.kind = "sync" => p.signer = "gateway"}
Stages == {"none", "shown", "gate", "forbidden", "extract", "verify", "consume", "act",
           "push", "over", "refused"}

TypeOK ==
  /\ challenge \in [Challenges ->
       {None} \cup [issuer : Servers, task : BOOLEAN]]
  /\ nonce \in [Challenges -> {"none", "live", "used", "expired"}]
  /\ pending \subseteq Challenges
  /\ delegated \in BOOLEAN
  /\ keyed \subseteq Servers
  /\ vouched \subseteq Servers
  /\ grants \in [Servers -> SUBSET Challenges]
  /\ request \in [Requests -> {None} \cup Presentations]
  /\ at \in [Requests -> Stages]
  /\ accepted \in [Servers -> SUBSET Challenges]
  /\ \A c \in Challenges : challenge[c] = None <=> nonce[c] = "none"
  /\ \A r \in Requests : /\ request[r] = None <=> at[r] \in {"none", "shown", "forbidden", "refused"}
                         /\ request[r] # None => challenge[request[r].chal] # None

Init ==
  /\ challenge = [c \in Challenges |-> None]
  /\ nonce = [c \in Challenges |-> "none"]
  /\ pending = {}
  /\ delegated = TRUE
  /\ keyed = Servers
  /\ vouched \in SUBSET Servers
  /\ grants = [s \in Servers |-> {}]
  /\ request = [r \in Requests |-> None]
  /\ at = [r \in Requests |-> "none"]
  /\ accepted = [s \in Servers |-> {}]

Goto(r, s) == at' = [at EXCEPT ![r] = s]

\* A refused request leaves nothing behind.
Refuse(r, s) == Goto(r, s) /\ request' = [request EXCEPT ![r] = None]

IsSync(r) == request[r].kind = "sync"
Issuer(r) == challenge[request[r].chal].issuer
At(r) == request[r].server

\* The gate's answer to a gateway that acts for this user.
Admitted == delegated /\ GateSeesUser

\* ephemeralKeys.take: whoever takes the key first has it.
TakeKey(c) == pending' = pending \ {c}

-----------------------------------------------------------------------------
(* Challenges.                                                             *)

InsertNonce(c) == nonce' = [nonce EXCEPT ![c] = "live"]

\* The nonce is of the first Server that answers.
GetAuthChallenge(c, s, task) ==
  /\ challenge' = [challenge EXCEPT ![c] = [issuer |-> s, task |-> task]]
  /\ InsertNonce(c)

\* For a gateway's sync the Agent makes a task key and keeps it with the nonce; the nonce
\* itself is as good for any other method.
Challenge(c) ==
  /\ challenge[c] = None
  /\ \E s \in Servers, task \in BOOLEAN :
       /\ task => Admitted
       /\ GetAuthChallenge(c, s, task)
       /\ pending' = IF task THEN pending \cup {c} ELSE pending
  /\ UNCHANGED <<delegated, keyed, vouched, grants, request, at, accepted>>

\* The nonce and the task key expire together, five minutes later.
Expire(c) ==
  /\ nonce[c] \in {"live", "used"}
  /\ nonce' = [nonce EXCEPT ![c] = IF @ = "live" THEN "expired" ELSE @]
  /\ TakeKey(c)
  /\ UNCHANGED <<challenge, delegated, keyed, vouched, grants, request, at, accepted>>

\* The user, an administrator or time takes away what a signature rests on.
Withdraw ==
  /\ \/ delegated /\ delegated' = FALSE /\ UNCHANGED <<keyed, grants>>
     \/ \E s \in keyed : keyed' = keyed \ {s} /\ UNCHANGED <<delegated, grants>>
     \/ \E s \in Servers, c \in Challenges :
          c \in grants[s] /\ grants' = [grants EXCEPT ![s] = @ \ {c}] /\ UNCHANGED <<delegated, keyed>>
  /\ UNCHANGED <<challenge, nonce, pending, vouched, request, at, accepted>>

-----------------------------------------------------------------------------
(* The Agent.                                                              *)

\* A request may present any challenge, whatever it was asked for, also one that another
\* request presents, and name any Server.  dvault's come over the Unix socket, past gate
\* and delegation.
Arrive(r) ==
  /\ at[r] = "none"
  /\ \E p \in Presentable :
       /\ challenge[p.chal] # None
       /\ request' = [request EXCEPT ![r] = p]
       /\ Goto(r, IF p.signer = "gateway" THEN "gate" ELSE "verify")
  /\ UNCHANGED <<challenge, nonce, pending, delegated, keyed, vouched, grants, accepted>>

\* A gateway's request that needs no challenge is gated as well.
ArriveUnsigned(r) ==
  /\ at[r] = "none"
  /\ Goto(r, IF Admitted THEN "shown" ELSE "forbidden")
  /\ UNCHANGED <<challenge, nonce, pending, delegated, keyed, vouched, grants, request, accepted>>

Gate(r) ==
  /\ at[r] = "gate"
  /\ IF Admitted THEN Goto(r, "extract") /\ UNCHANGED request
                                  ELSE Refuse(r, "forbidden")
  /\ UNCHANGED <<challenge, nonce, pending, delegated, keyed, vouched, grants, accepted>>

\* extractSigned: a sync takes the task key even when the request is then refused.
Extract(r) ==
  /\ at[r] = "extract"
  /\ IF delegated /\ (IsSync(r) => request[r].chal \in pending)
     THEN Goto(r, "verify") /\ UNCHANGED request
     ELSE Refuse(r, "refused")
  /\ IF IsSync(r) THEN TakeKey(request[r].chal) ELSE UNCHANGED pending
  /\ UNCHANGED <<challenge, nonce, delegated, keyed, vouched, grants, accepted>>

\* A wrong signature, with which a sync takes the task key all the same, or malformed headers.
ExtractFails(r) ==
  /\ at[r] = "extract"
  /\ Refuse(r, "refused")
  /\ (IsSync(r) /\ TakeKey(request[r].chal)) \/ UNCHANGED pending
  /\ UNCHANGED <<challenge, nonce, delegated, keyed, vouched, grants, accepted>>

-----------------------------------------------------------------------------
(* A Server.                                                               *)

\* The user's own key, or a delegation key that has not expired.
SignatureHolds(r) == request[r].signer = "user" \/ At(r) \in keyed

\* DecideAuth, then the signature; a grant is verified with delegation keys only.
Verify(r) ==
  /\ at[r] = "verify"
  /\ IF At(r) \in vouched \/ SignatureHolds(r)
     THEN Goto(r, IF At(r) \in vouched THEN "act" ELSE "consume") /\ UNCHANGED request
     ELSE Refuse(r, "refused")
  /\ UNCHANGED <<challenge, nonce, pending, delegated, keyed, vouched, grants, accepted>>

\* The user's limiter, no such Server, no connection or the deadline; the interceptor,
\* DecideAuth or a broken signature.
VerifyFails(r) ==
  /\ at[r] = "verify"
  /\ Refuse(r, "refused")
  /\ UNCHANGED <<challenge, nonce, pending, delegated, keyed, vouched, grants, accepted>>

\* As if the row's mark were not looked at.
ConsumeUsedNonce(r) ==
  /\ at[r] = "consume"
  /\ IF At(r) = Issuer(r) /\ nonce[request[r].chal] \in {"live", "used"}
     THEN Goto(r, "act") /\ UNCHANGED request /\ nonce' = [nonce EXCEPT ![request[r].chal] = "used"]
     ELSE Refuse(r, "refused") /\ UNCHANGED nonce
  /\ UNCHANGED <<challenge, pending, delegated, keyed, vouched, grants, accepted>>

\* One transaction, on the only connection of the database; the issuing Server has the row.
ConsumeNonce(r) ==
  /\ at[r] = "consume"
  /\ IF At(r) = Issuer(r) /\ nonce[request[r].chal] = "live"
     THEN Goto(r, "act") /\ UNCHANGED request /\ nonce' = [nonce EXCEPT ![request[r].chal] = "used"]
     ELSE Refuse(r, "refused") /\ UNCHANGED nonce
  /\ UNCHANGED <<challenge, pending, delegated, keyed, vouched, grants, accepted>>

\* GetQuotaUsage or PullRestore goes on.
ActCall(r) ==
  /\ at[r] = "act" /\ ~IsSync(r)
  /\ Goto(r, "over")
  /\ UNCHANGED <<challenge, nonce, pending, delegated, keyed, vouched, grants, request, accepted>>

InsertTaskGrant(s, c) == grants' = [grants EXCEPT ![s] = @ \cup {c}]

\* RegisterTaskGrant, then RunSyncWithTaskKey starts the task; when the answer is lost it
\* does not, and the grant stays.
ActGrant(r) ==
  /\ at[r] = "act" /\ IsSync(r)
  /\ InsertTaskGrant(At(r), request[r].chal)
  /\ \E next \in {"push", "over"} : Goto(r, next)
  /\ UNCHANGED <<challenge, nonce, pending, delegated, keyed, vouched, request, accepted>>

-----------------------------------------------------------------------------
(* The sync with the task key.                                             *)

\* As if a grant of one Server were one of all.
GrantHoldsAnywhere(s, c) == \E t \in Servers : c \in grants[t]

\* verifyTaskKeySignature: a live grant of this Server, nothing else.
GrantHolds(s, c) == c \in grants[s]

\* The Server decides once per stream, and verifies per batch.
BatchHolds(s, c) == s \in vouched \/ GrantHolds(s, c)

\* The task pushes to every Server.
PushBatch(r, s) ==
  /\ at[r] = "push"
  /\ BatchHolds(s, request[r].chal)
  /\ accepted' = [accepted EXCEPT ![s] = @ \cup {request[r].chal}]
  /\ UNCHANGED <<challenge, nonce, pending, delegated, keyed, vouched, grants, request, at>>

PushEnds(r) ==
  /\ at[r] = "push"
  /\ Goto(r, "over")
  /\ UNCHANGED <<challenge, nonce, pending, delegated, keyed, vouched, grants, request, accepted>>

RequestStep(r) ==
  \/ Arrive(r) \/ ArriveUnsigned(r) \/ Gate(r) \/ Extract(r) \/ ExtractFails(r)
  \/ Verify(r) \/ VerifyFails(r)
  \/ ConsumeNonce(r) \/ ActCall(r) \/ ActGrant(r)
  \/ PushEnds(r) \/ \E s \in Servers : PushBatch(r, s)

Next ==
  \/ Withdraw
  \/ \E c \in Challenges : Challenge(c) \/ Expire(c)
  \/ \E r \in Requests : RequestStep(r)

Spec == Init /\ [][Next]_requestVars

-----------------------------------------------------------------------------
(* Properties.                                                             *)

PastNonce(r) == at[r] \in {"act", "push", "over"}

\* A Server that verifies signatures acts at most once for a nonce, however many requests
\* present it at once and for whatever methods, and only for a nonce of its own.
NonceOnce ==
  \A r, q \in Requests :
    /\ PastNonce(r) /\ PastNonce(q) /\ request[r].chal = request[q].chal
    /\ At(r) \notin vouched /\ At(q) \notin vouched
    => r = q /\ At(r) = Issuer(r)

WithTaskKey(r) ==
  IsSync(r) /\ at[r] \in {"verify", "consume", "act", "push"}

\* One challenge starts at most one task: a task key that a request has taken cannot be
\* taken once more, and no two requests have it.
TaskKeyTakenOnce ==
  \A r \in Requests : WithTaskKey(r) =>
    /\ request[r].chal \notin pending
    /\ \A q \in Requests \ {r} : WithTaskKey(q) => request[q].chal # request[r].chal

\* The promise to the user who signed: a challenge is acted on once and starts one task.
ChallengeServesOnce == NonceOnce /\ TaskKeyTakenOnce

\* Outside of vouched hosts a Server takes batches of a task key only when it is the one
\* that issued the nonce the Agent made the key with, and that nonce is used up.
TaskKeyConfined ==
  \A s \in Servers \ vouched : \A c \in accepted[s] \cup grants[s] :
    challenge[c].task /\ challenge[c].issuer = s /\ nonce[c] = "used"

\* The documented promise: the gate refuses a gateway only without an active delegation.
GateAdmitsEnrolled ==
  [][\A r \in Requests : at[r] # "forbidden" /\ at'[r] = "forbidden" => ~delegated]_requestVars

=============================================================================
