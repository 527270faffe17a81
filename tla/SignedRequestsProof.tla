------------------------- MODULE SignedRequestsProof -------------------------
(***************************************************************************)
(* Proofs about SignedRequests, for any challenges, requests and Servers:  *)
(* a challenge is acted on once and starts one task, and a Server takes a  *)
(* task key's batches only on a grant of its own.                          *)
(***************************************************************************)
EXTENDS SignedRequests, TLAPS

Issued  == [issuer : Servers, task : BOOLEAN]
AtRest  == {"none", "shown", "forbidden", "refused"}
WithKey == {"verify", "consume", "act", "push"}

\* Only a gateway presents a challenge for a sync.
SyncsAreGateways ==
  \A r \in Requests : request[r] # None /\ IsSync(r) => request[r].signer = "gateway"

\* A task key is one that the Agent made with the challenge.
KeysWereMade ==
  /\ \A c \in pending : challenge[c] # None /\ challenge[c].task
  /\ \A r \in Requests : WithTaskKey(r) => challenge[request[r].chal].task

\* Past the nonce, a request has used up one of the Server it is at.
NonceUsed ==
  \A r \in Requests : PastNonce(r) /\ At(r) \notin vouched =>
    At(r) = Issuer(r) /\ nonce[request[r].chal] = "used"

\* Only a sync pushes.
PushersSync == \A r \in Requests : at[r] = "push" => IsSync(r)

IInv ==
  /\ TypeOK /\ SyncsAreGateways /\ KeysWereMade /\ NonceUsed /\ PushersSync
  /\ NonceOnce /\ TaskKeyTakenOnce /\ TaskKeyConfined

-----------------------------------------------------------------------------
(* Types.                                                                  *)

LEMMA NoneIsNothing == None \notin Issued /\ None \notin Presentations
<1>1. None \notin Issued
  BY DEF None, Issued
<1>2. None \notin Presentations
  BY DEF None, Presentations
<1> QED
  BY <1>1, <1>2

\* A request that is under way presents a challenge that was asked for.
LEMMA UnderWay ==
  ASSUME TypeOK, NEW r \in Requests, at[r] \notin AtRest
  PROVE  /\ request[r] \in Presentations /\ request[r] # None
         /\ request[r].chal \in Challenges /\ At(r) \in Servers
         /\ challenge[request[r].chal] \in Issued
BY DEF TypeOK, AtRest, Presentations, Issued, At

\* A request goes on, and with it nonces, keys, grants and batches change.
LEMMA GoesOn ==
  ASSUME TypeOK, NEW r \in Requests, at[r] \notin AtRest, NEW s \in Stages \ AtRest,
         Goto(r, s), UNCHANGED <<challenge, request, delegated, keyed, vouched>>,
         pending' \subseteq Challenges, grants' \in [Servers -> SUBSET Challenges],
         accepted' \in [Servers -> SUBSET Challenges],
         nonce' \in [Challenges -> {"none", "live", "used", "expired"}],
         \A c \in Challenges : nonce'[c] = "none" <=> nonce[c] = "none"
  PROVE  TypeOK'
BY DEF TypeOK, AtRest, Goto, Stages

\* A request is refused.
LEMMA IsRefused ==
  ASSUME TypeOK, NEW r \in Requests, NEW s \in AtRest, Refuse(r, s),
         UNCHANGED <<challenge, nonce, delegated, keyed, vouched, grants, accepted>>,
         pending' \subseteq Challenges
  PROVE  TypeOK'
<1>1. request' = [request EXCEPT ![r] = None] /\ at' = [at EXCEPT ![r] = s]
  BY DEF Refuse, Goto
<1>2. \A q \in Requests : (request[q] = None <=> at[q] \in AtRest)'
  BY <1>1 DEF TypeOK, AtRest, Stages
<1> QED
  BY <1>1, <1>2 DEF TypeOK, AtRest, Stages

LEMMA TypeStep == TypeOK /\ [Next]_requestVars => TypeOK'
<1> SUFFICES ASSUME TypeOK, [Next]_requestVars PROVE TypeOK'
  OBVIOUS
<1> USE DEF Stages
<1>1. CASE Withdraw
  <2>1. delegated' \in BOOLEAN /\ keyed' \subseteq Servers /\ grants' \in [Servers -> SUBSET Challenges]
    <3>1. CASE delegated' = FALSE /\ UNCHANGED <<keyed, grants>>
      BY <3>1 DEF TypeOK
    <3>2. CASE \E s \in keyed : keyed' = keyed \ {s} /\ UNCHANGED <<delegated, grants>>
      BY <3>2 DEF TypeOK
    <3>3. CASE \E s \in Servers, c \in Challenges :
                 grants' = [grants EXCEPT ![s] = @ \ {c}] /\ UNCHANGED <<delegated, keyed>>
      BY <3>3 DEF TypeOK
    <3> QED
      BY <1>1, <3>1, <3>2, <3>3 DEF Withdraw
  <2> QED
    BY <1>1, <2>1 DEF Withdraw, TypeOK
<1>2. ASSUME NEW c \in Challenges, Challenge(c) PROVE TypeOK'
  <2>1. PICK s \in Servers, task \in BOOLEAN :
          challenge' = [challenge EXCEPT ![c] = [issuer |-> s, task |-> task]]
    BY <1>2 DEF Challenge, GetAuthChallenge
  <2>2. [issuer |-> s, task |-> task] \in Issued
    BY DEF Issued
  <2>3. nonce' = [nonce EXCEPT ![c] = "live"] /\ pending' \subseteq Challenges
    BY <1>2 DEF Challenge, GetAuthChallenge, InsertNonce, TypeOK
  <2>4. challenge' \in [Challenges -> {None} \cup Issued]
    BY <2>1, <2>2 DEF TypeOK, Issued
  <2>5. \A d \in Challenges : (challenge[d] = None <=> nonce[d] = "none")'
    BY <2>1, <2>2, <2>3, NoneIsNothing DEF TypeOK
  <2>6. \A d \in Challenges : challenge[d] # None => challenge'[d] # None
    BY <2>1, <2>2, NoneIsNothing DEF TypeOK
  <2>7. \A r \in Requests : (request[r] # None => challenge[request[r].chal] # None)'
    <3>1. \A r \in Requests : request[r] # None => request[r].chal \in Challenges
      BY DEF TypeOK, Presentations
    <3> QED
      BY <1>2, <2>6, <3>1 DEF Challenge, TypeOK
  <2> QED
    BY <1>2, <2>3, <2>4, <2>5, <2>7 DEF Challenge, TypeOK, Issued
<1>3. ASSUME NEW c \in Challenges, Expire(c) PROVE TypeOK'
  BY <1>3 DEF Expire, TakeKey, TypeOK
<1>4. ASSUME NEW r \in Requests, RequestStep(r) PROVE TypeOK'
  <2>1. CASE Arrive(r)
    <3>1. PICK p \in Presentable :
            /\ challenge[p.chal] # None
            /\ request' = [request EXCEPT ![r] = p]
            /\ Goto(r, IF p.signer = "gateway" THEN "gate" ELSE "verify")
      BY <2>1 DEF Arrive
    <3>2. p \in Presentations /\ p # None
      BY NoneIsNothing DEF Presentable
    <3>3. at' \in [Requests -> Stages] /\ at'[r] \in {"gate", "verify"}
      BY <3>1 DEF Goto, TypeOK
    <3>4. request' \in [Requests -> {None} \cup Presentations]
      BY <3>1, <3>2 DEF TypeOK
    <3>5. \A q \in Requests : /\ (request[q] = None <=> at[q] \in AtRest)'
                              /\ (request[q] # None => challenge[request[q].chal] # None)'
      BY <2>1, <3>1, <3>2, <3>3 DEF Arrive, Goto, TypeOK, AtRest
    <3> QED
      BY <2>1, <3>3, <3>4, <3>5 DEF Arrive, TypeOK, AtRest
  <2>2. CASE ArriveUnsigned(r)
    BY <2>2 DEF ArriveUnsigned, Goto, TypeOK
  <2>3. CASE Gate(r) \/ Extract(r) \/ ExtractFails(r) \/ Verify(r) \/ VerifyFails(r)
    <3>1. at[r] \notin AtRest /\ UNCHANGED <<challenge, nonce, delegated, keyed, vouched, grants, accepted>>
      BY <2>3 DEF Gate, Extract, ExtractFails, Verify, VerifyFails, AtRest
    <3>2. pending' \subseteq Challenges
      BY <2>3 DEF Gate, Extract, ExtractFails, Verify, VerifyFails, TakeKey, TypeOK
    <3>3. \/ \E s \in AtRest : Refuse(r, s)
          \/ \E s \in Stages \ AtRest : Goto(r, s) /\ UNCHANGED request
      BY <2>3 DEF Gate, Extract, ExtractFails, Verify, VerifyFails, AtRest
    <3>4. CASE \E s \in AtRest : Refuse(r, s)
      BY <3>1, <3>2, <3>4, IsRefused
    <3>5. CASE \E s \in Stages \ AtRest : Goto(r, s) /\ UNCHANGED request
      <4>1. nonce' \in [Challenges -> {"none", "live", "used", "expired"}]
            /\ grants' \in [Servers -> SUBSET Challenges] /\ accepted' \in [Servers -> SUBSET Challenges]
        BY <3>1 DEF TypeOK
      <4> QED
        BY <3>1, <3>2, <3>5, <4>1, GoesOn
    <3> QED
      BY <3>3, <3>4, <3>5
  <2>4. CASE ConsumeNonce(r)
    <3>1. at[r] \notin AtRest /\ pending' \subseteq Challenges
      BY <2>4 DEF ConsumeNonce, AtRest, TypeOK
    <3>2. CASE At(r) = Issuer(r) /\ nonce[request[r].chal] = "live"
      <4>1. Goto(r, "act") /\ UNCHANGED request /\ nonce' = [nonce EXCEPT ![request[r].chal] = "used"]
        BY <2>4, <3>2 DEF ConsumeNonce
      <4>2. nonce' \in [Challenges -> {"none", "live", "used", "expired"}]
            /\ \A c \in Challenges : nonce'[c] = "none" <=> nonce[c] = "none"
        BY <3>2, <4>1 DEF TypeOK
      <4>3. grants' \in [Servers -> SUBSET Challenges] /\ accepted' \in [Servers -> SUBSET Challenges]
        BY <2>4 DEF ConsumeNonce, TypeOK
      <4>4. "act" \in Stages \ AtRest
        BY DEF AtRest
      <4> QED
        BY <2>4, <3>1, <4>1, <4>2, <4>3, <4>4, GoesOn DEF ConsumeNonce
    <3>3. CASE ~(At(r) = Issuer(r) /\ nonce[request[r].chal] = "live")
      BY <2>4, <3>1, <3>3, IsRefused DEF ConsumeNonce, AtRest
    <3> QED
      BY <3>2, <3>3
  <2>5. CASE \/ ActCall(r) \/ ActGrant(r) \/ PushEnds(r)
             \/ \E s \in Servers : PushBatch(r, s)
    <3>1. at[r] \notin AtRest
      BY <2>5 DEF ActCall, ActGrant, PushEnds, PushBatch, AtRest
    <3>2. request[r].chal \in Challenges
      BY <3>1, UnderWay
    <3>3. UNCHANGED <<challenge, nonce, pending, delegated, keyed, vouched, request>>
      BY <2>5 DEF ActCall, ActGrant, PushEnds, PushBatch
    <3>4. grants' \in [Servers -> SUBSET Challenges] /\ accepted' \in [Servers -> SUBSET Challenges]
      BY <2>5, <3>2 DEF ActCall, ActGrant, InsertTaskGrant, PushEnds, PushBatch, TypeOK
    <3>5. \E s \in Stages \ AtRest : at' = [at EXCEPT ![r] = s]
      BY <2>5, <3>1 DEF ActCall, ActGrant, PushEnds, PushBatch, Goto, AtRest, TypeOK
    <3>6. pending' \subseteq Challenges /\ nonce' \in [Challenges -> {"none", "live", "used", "expired"}]
      BY <3>3 DEF TypeOK
    <3> QED
      BY <3>1, <3>3, <3>4, <3>5, <3>6, GoesOn DEF Goto
  <2> QED
    BY <1>4, <2>1, <2>2, <2>3, <2>4, <2>5 DEF RequestStep
<1>5. CASE UNCHANGED requestVars
  BY <1>5 DEF requestVars, TypeOK
<1> QED
  BY <1>1, <1>2, <1>3, <1>4, <1>5 DEF Next

-----------------------------------------------------------------------------
(* Safety.                                                                 *)

Safe == /\ SyncsAreGateways /\ KeysWereMade /\ NonceUsed /\ PushersSync
        /\ NonceOnce /\ TaskKeyTakenOnce /\ TaskKeyConfined

\* A used nonce stays used, a taken task key taken; what a Server holds of a task key it
\* held before, or it is the issuer and the nonce is used.
Keeps ==
  /\ vouched' = vouched /\ pending' \subseteq pending
  /\ \A c \in Challenges : nonce[c] = "used" => nonce'[c] = "used"
  /\ \A s \in Servers \ vouched : \A c \in accepted'[s] \cup grants'[s] :
       \/ c \in accepted[s] \cup grants[s]
       \/ challenge[c].task /\ challenge[c].issuer = s /\ nonce'[c] = "used"

LEMMA ConfinedKept ==
  ASSUME TypeOK, TypeOK', TaskKeyConfined, Keeps, UNCHANGED challenge
  PROVE  TaskKeyConfined'
<1> SUFFICES ASSUME NEW s \in Servers \ vouched, NEW c \in accepted'[s] \cup grants'[s]
             PROVE  challenge[c].task /\ challenge[c].issuer = s /\ nonce'[c] = "used"
  BY DEF TaskKeyConfined, Keeps
<1>1. c \in Challenges
  BY DEF TypeOK
<1>2. CASE c \in accepted[s] \cup grants[s]
  BY <1>1, <1>2 DEF TaskKeyConfined, Keeps
<1>3. CASE challenge[c].task /\ challenge[c].issuer = s /\ nonce'[c] = "used"
  BY <1>3
<1> QED
  BY <1>2, <1>3 DEF Keeps

\* Challenges, keys and grants come to an end; no request moves.
LEMMA NoneMoves ==
  ASSUME TypeOK, TypeOK', Safe, Keeps, UNCHANGED <<challenge, request, at>>
  PROVE  Safe'
<1>1. TaskKeyConfined'
  BY ConfinedKept DEF Safe
<1>2. \A r \in Requests : PastNonce(r) => request[r].chal \in Challenges
  BY UnderWay DEF PastNonce, AtRest
<1>3. NonceUsed'
  BY <1>2 DEF Safe, NonceUsed, Keeps, PastNonce, At, Issuer
<1>4. NonceOnce' /\ SyncsAreGateways' /\ PushersSync'
  BY DEF Safe, NonceOnce, SyncsAreGateways, PushersSync, Keeps, PastNonce, At, Issuer, IsSync
<1>5. TaskKeyTakenOnce' /\ KeysWereMade'
  BY DEF Safe, TaskKeyTakenOnce, KeysWereMade, Keeps, WithTaskKey, IsSync
<1> QED
  BY <1>1, <1>3, <1>4, <1>5 DEF Safe

\* One request moves to s: it gets past the nonce only on a vouched host or by using the
\* nonce up, and has a task key only when it took it.
LEMMA OneMoves ==
  ASSUME TypeOK, TypeOK', Safe, Keeps, UNCHANGED challenge, NEW r \in Requests, NEW s \in Stages,
         at' = [at EXCEPT ![r] = s],
         \A q \in Requests \ {r} : request'[q] = request[q],
         s \in {"act", "push", "over"} =>
           /\ request'[r] = request[r] /\ at[r] \notin AtRest
           /\ \/ PastNonce(r) \/ At(r) \in vouched
              \/ At(r) = Issuer(r) /\ nonce[request[r].chal] = "live"
                                      /\ nonce'[request[r].chal] = "used",
         s \in WithKey /\ IsSync(r)' =>
           /\ request'[r] = request[r]
           /\ at[r] \in WithKey \/ request[r].chal \in pending \ pending',
         s = "push" => IsSync(r),
         request'[r] = request[r] \/ (request'[r] # None /\ IsSync(r)' => request'[r].signer = "gateway")
  PROVE  Safe'
<1>1. TaskKeyConfined'
  BY ConfinedKept DEF Safe
<1>2. \A q \in Requests : at'[q] = IF q = r THEN s ELSE at[q]
  BY DEF TypeOK
<1>3. \A q \in Requests : PastNonce(q)' => request'[q] = request[q] /\ request[q].chal \in Challenges
  BY <1>2, UnderWay DEF PastNonce, AtRest
<1>4. \A q \in Requests \ {r} : PastNonce(q)' => PastNonce(q)
  BY <1>2 DEF PastNonce
<1>5. NonceUsed'
  <2> SUFFICES ASSUME NEW q \in Requests, PastNonce(q)', At(q)' \notin vouched
               PROVE  (At(q) = Issuer(q) /\ nonce[request[q].chal] = "used")'
    BY DEF NonceUsed, Keeps
  <2>1. At(q)' = At(q) /\ Issuer(q)' = Issuer(q) /\ request'[q].chal = request[q].chal /\ request[q].chal \in Challenges
    BY <1>3 DEF At, Issuer
  <2>2. CASE PastNonce(q)
    BY <2>1, <2>2 DEF Safe, NonceUsed, Keeps
  <2>3. CASE ~PastNonce(q)
    <3>1. q = r /\ s \in {"act", "push", "over"}
      BY <1>2, <1>4, <2>3 DEF PastNonce
    <3> QED
      BY <2>1, <2>3, <3>1
  <2> QED
    BY <2>2, <2>3
<1>6. NonceOnce'
  <2> SUFFICES ASSUME NEW p \in Requests, NEW q \in Requests, PastNonce(p)', PastNonce(q)',
                      request'[p].chal = request'[q].chal, At(p)' \notin vouched, At(q)' \notin vouched
               PROVE  p = q /\ At(p)' = Issuer(p)'
    BY DEF NonceOnce, Keeps
  <2>1. At(p)' = At(p) /\ At(q)' = At(q) /\ request[p].chal = request[q].chal
    BY <1>3 DEF At
  <2>2. At(p)' = Issuer(p)'
    BY <1>5 DEF NonceUsed, Keeps
  <2>3. ASSUME NEW a \in Requests, NEW b \in Requests \ {a}, PastNonce(a)', PastNonce(b)', ~PastNonce(a),
               request[a].chal = request[b].chal, At(a) \notin vouched, At(b) \notin vouched
        PROVE  FALSE
    <3>1. a = r /\ PastNonce(b)
      BY <1>4, <2>3
    <3>2. s \in {"act", "push", "over"}
      BY <1>2, <2>3, <3>1 DEF PastNonce
    <3>3. nonce[request[a].chal] = "live"
      BY <2>3, <3>1, <3>2
    <3>4. nonce[request[b].chal] = "used"
      BY <2>3, <3>1 DEF Safe, NonceUsed
    <3> QED
      BY <2>3, <3>3, <3>4
  <2>4. CASE PastNonce(p) /\ PastNonce(q)
    BY <2>1, <2>2, <2>4 DEF Safe, NonceOnce
  <2>5. CASE ~(PastNonce(p) /\ PastNonce(q))
    <3>1. CASE p = q
      BY <2>2, <3>1
    <3>2. CASE p # q
      BY <2>1, <2>3, <2>5, <3>2
    <3> QED
      BY <3>1, <3>2
  <2> QED
    BY <2>4, <2>5
<1>7. ASSUME NEW p \in Requests, WithTaskKey(p)'
      PROVE  /\ request'[p] = request[p] /\ IsSync(p)
             /\ WithTaskKey(p) \/ (p = r /\ request[p].chal \in pending \ pending')
  <2>1. CASE p = r
    BY <1>2, <1>7, <2>1 DEF WithTaskKey, WithKey, IsSync
  <2>2. CASE p # r
    BY <1>2, <1>7, <2>2 DEF WithTaskKey, IsSync
  <2> QED
    BY <2>1, <2>2
<1>8. TaskKeyTakenOnce'
  <2>1. ASSUME NEW p \in Requests, WithTaskKey(p)' PROVE request'[p].chal \notin pending'
    <3>1. CASE WithTaskKey(p)
      BY <1>7, <2>1, <3>1 DEF Safe, TaskKeyTakenOnce, Keeps
    <3> QED
      BY <1>7, <2>1, <3>1
  <2>2. ASSUME NEW p \in Requests, NEW q \in Requests \ {p}, WithTaskKey(p)', WithTaskKey(q)',
               request'[q].chal = request'[p].chal
        PROVE  FALSE
    <3>1. request'[p] = request[p] /\ request'[q] = request[q]
      BY <1>7, <2>2
    <3>2. CASE WithTaskKey(p) /\ WithTaskKey(q)
      BY <2>2, <3>1, <3>2 DEF Safe, TaskKeyTakenOnce
    <3>3. CASE ~WithTaskKey(p)
      <4>1. request[p].chal \in pending /\ p = r /\ WithTaskKey(q)
        BY <1>7, <2>2, <3>3
      <4> QED
        BY <2>2, <3>1, <4>1 DEF Safe, TaskKeyTakenOnce
    <3>4. CASE ~WithTaskKey(q)
      <4>1. request[q].chal \in pending /\ q = r /\ WithTaskKey(p)
        BY <1>7, <2>2, <3>4
      <4> QED
        BY <2>2, <3>1, <4>1 DEF Safe, TaskKeyTakenOnce
    <3> QED
      BY <3>2, <3>3, <3>4
  <2> QED
    BY <2>1, <2>2 DEF TaskKeyTakenOnce
<1>9. PushersSync'
  <2> SUFFICES ASSUME NEW q \in Requests, at'[q] = "push" PROVE IsSync(q)'
    BY DEF PushersSync
  <2>1. request'[q] = request[q]
    BY <1>3 DEF PastNonce
  <2>2. IsSync(q)
    BY <1>2 DEF Safe, PushersSync
  <2> QED
    BY <2>1, <2>2 DEF IsSync
<1>10. SyncsAreGateways'
  BY DEF Safe, SyncsAreGateways, IsSync
<1>11. KeysWereMade'
  BY <1>7 DEF Safe, KeysWereMade, Keeps
<1> QED
  BY <1>1, <1>5, <1>6, <1>8, <1>9, <1>10, <1>11 DEF Safe

\* A challenge that is asked for for the first time is in nobody's request, grant or batch.
LEMMA ChallengeSafe ==
  ASSUME TypeOK, TypeOK', Safe, NEW c \in Challenges, Challenge(c)
  PROVE  Safe'
<1>1. PICK s \in Servers, task \in BOOLEAN :
        /\ challenge' = [challenge EXCEPT ![c] = [issuer |-> s, task |-> task]]
        /\ pending' = IF task THEN pending \cup {c} ELSE pending
  BY DEF Challenge, GetAuthChallenge
<1>2. challenge[c] = None /\ nonce[c] = "none" /\ nonce' = [nonce EXCEPT ![c] = "live"]
  BY DEF Challenge, GetAuthChallenge, InsertNonce, TypeOK
<1>3. /\ UNCHANGED <<vouched, grants, request, at, accepted>>
      /\ pending' \subseteq pending \cup {c}
  BY DEF Challenge
<1>4. \A d \in Challenges \ {c} : challenge'[d] = challenge[d] /\ nonce'[d] = nonce[d]
  BY <1>1, <1>2 DEF TypeOK
<1>5. \A r \in Requests : at[r] \notin AtRest => request[r].chal \in Challenges \ {c} /\ Issuer(r)' = Issuer(r)
  <2> SUFFICES ASSUME NEW r \in Requests, at[r] \notin AtRest
               PROVE  request[r].chal \in Challenges \ {c} /\ Issuer(r)' = Issuer(r)
    OBVIOUS
  <2>1. request[r].chal \in Challenges /\ challenge[request[r].chal] # None
    BY UnderWay DEF TypeOK
  <2> QED
    BY <1>2, <1>3, <1>4, <2>1 DEF Issuer
<1>6. SyncsAreGateways' /\ KeysWereMade'
  <2>1. SyncsAreGateways'
    BY <1>3 DEF Safe, SyncsAreGateways, IsSync
  <2>2. challenge'[c] = [issuer |-> s, task |-> task] /\ challenge'[c] # None
    <3>1. challenge'[c] = [issuer |-> s, task |-> task] /\ challenge'[c] \in Issued
      BY <1>1 DEF TypeOK, Issued
    <3> QED
      BY <3>1, NoneIsNothing
  <2>3. \A d \in pending' : challenge'[d] # None /\ challenge'[d].task
    <3> SUFFICES ASSUME NEW d \in pending' PROVE challenge'[d] # None /\ challenge'[d].task
      OBVIOUS
    <3>1. CASE d = c
      <4>1. d \notin pending
        BY <1>2, <3>1 DEF Safe, KeysWereMade
      <4> QED
        BY <1>1, <2>2, <3>1, <4>1
    <3>2. CASE d # c
      <4>1. d \in pending /\ d \in Challenges
        BY <1>1, <3>2 DEF TypeOK
      <4> QED
        BY <1>4, <3>2, <4>1 DEF Safe, KeysWereMade
    <3> QED
      BY <3>1, <3>2
  <2>4. \A r \in Requests : WithTaskKey(r) => challenge'[request[r].chal].task
    BY <1>4, <1>5 DEF Safe, KeysWereMade, WithTaskKey, AtRest
  <2> QED
    BY <1>3, <2>1, <2>3, <2>4 DEF KeysWereMade, WithTaskKey, IsSync
<1>7. NonceUsed'
  <2> SUFFICES ASSUME NEW r \in Requests, PastNonce(r), At(r) \notin vouched
               PROVE  (At(r) = Issuer(r) /\ nonce[request[r].chal] = "used")'
    BY <1>3 DEF NonceUsed, PastNonce, At
  <2>1. At(r) = Issuer(r) /\ nonce[request[r].chal] = "used"
    BY DEF Safe, NonceUsed
  <2>2. at[r] \notin AtRest
    BY DEF PastNonce, AtRest
  <2> QED
    BY <1>3, <1>4, <1>5, <2>1, <2>2 DEF At
<1>8. PushersSync'
  BY <1>3 DEF Safe, PushersSync, IsSync
<1>9. NonceOnce'
  BY <1>3, <1>5 DEF Safe, NonceOnce, PastNonce, AtRest, At
<1>10. TaskKeyTakenOnce'
  BY <1>3, <1>5 DEF Safe, TaskKeyTakenOnce, WithTaskKey, IsSync, AtRest
<1>11. TaskKeyConfined'
  <2> SUFFICES ASSUME NEW t \in Servers \ vouched, NEW d \in accepted[t] \cup grants[t]
               PROVE  challenge'[d].task /\ challenge'[d].issuer = t /\ nonce'[d] = "used"
    BY <1>3 DEF TaskKeyConfined
  <2>1. d \in Challenges /\ challenge[d].task /\ challenge[d].issuer = t /\ nonce[d] = "used"
    BY DEF TypeOK, Safe, TaskKeyConfined
  <2>2. d # c
    BY <1>2, <2>1
  <2> QED
    BY <1>4, <2>1, <2>2
<1> QED
  BY <1>6, <1>7, <1>8, <1>9, <1>10, <1>11 DEF Safe

\* What a request does on its way.
LEMMA RequestSafe ==
  ASSUME TypeOK, TypeOK', Safe, NEW r \in Requests, RequestStep(r)
  PROVE  Safe'
<1> USE DEF Stages
<1>1. CASE Arrive(r)
  <2>1. PICK p \in Presentable :
          /\ request' = [request EXCEPT ![r] = p]
          /\ Goto(r, IF p.signer = "gateway" THEN "gate" ELSE "verify")
    BY <1>1 DEF Arrive
  <2>2. PICK st \in {"gate", "verify"} :
          at' = [at EXCEPT ![r] = st] /\ (st = "verify" => p.signer # "gateway")
    BY <2>1 DEF Goto
  <2>3. Keeps /\ UNCHANGED challenge
    BY <1>1 DEF Arrive, Keeps
  <2>4. request'[r] = p /\ \A q \in Requests \ {r} : request'[q] = request[q]
    BY <2>1 DEF TypeOK
  <2>5. IsSync(r)' => p.signer = "gateway"
    BY <2>4 DEF IsSync, Presentable
  <2>6. ~(st \in WithKey /\ IsSync(r)')
    BY <2>2, <2>5 DEF WithKey
  <2> QED
    BY <2>2, <2>3, <2>4, <2>5, <2>6, OneMoves
<1>2. CASE \E s \in AtRest \cup {"gate", "extract"} :
              /\ at' = [at EXCEPT ![r] = s] /\ UNCHANGED <<challenge, vouched, nonce, grants, accepted>>
              /\ pending' \subseteq pending /\ \A q \in Requests \ {r} : request'[q] = request[q]
              /\ request'[r] \in {request[r], None}
  <2>1. Keeps
    BY <1>2 DEF Keeps
  <2> QED
    BY <1>2, <2>1, OneMoves DEF AtRest, WithKey
<1>3. CASE ArriveUnsigned(r)
  BY <1>2, <1>3 DEF ArriveUnsigned, Goto, AtRest
<1>4. CASE \E s \in AtRest : Refuse(r, s) /\ UNCHANGED <<challenge, vouched, nonce, grants, accepted>>
                             /\ pending' \subseteq pending
  <2>1. request'[r] = None /\ \A q \in Requests \ {r} : request'[q] = request[q]
    BY <1>4 DEF Refuse, TypeOK
  <2> QED
    BY <1>2, <1>4, <2>1 DEF Refuse, Goto
<1>5. CASE Gate(r) \/ ExtractFails(r) \/ VerifyFails(r)
  BY <1>2, <1>4, <1>5 DEF Gate, ExtractFails, VerifyFails, TakeKey, Goto, AtRest
<1>6. CASE Extract(r)
  <2>1. CASE Goto(r, "verify") /\ UNCHANGED request /\ (IsSync(r) => request[r].chal \in pending)
    <3>1. Keeps /\ UNCHANGED challenge
      BY <1>6 DEF Extract, TakeKey, Keeps
    <3>2. IsSync(r)' => request[r].chal \in pending \ pending'
      BY <1>6, <2>1, <3>1 DEF Extract, TakeKey, IsSync
    <3> QED
      BY <2>1, <3>1, <3>2, OneMoves DEF Goto, Stages
  <2>2. CASE Refuse(r, "refused")
    BY <1>4, <1>6, <2>2 DEF Extract, TakeKey, AtRest
  <2> QED
    BY <1>6, <2>1, <2>2 DEF Extract
<1>8. CASE Verify(r)
  <2>1. CASE Refuse(r, "refused")
    BY <1>4, <1>8, <2>1 DEF Verify, AtRest
  <2>2. CASE Goto(r, IF At(r) \in vouched THEN "act" ELSE "consume") /\ UNCHANGED request
    <3>1. Keeps /\ at[r] \in WithKey /\ at[r] \notin AtRest /\ UNCHANGED <<challenge, request>>
      BY <1>8, <2>2 DEF Verify, Keeps, WithKey, AtRest
    <3>2. PICK st \in {"act", "consume"} : at' = [at EXCEPT ![r] = st] /\ (st = "act" => At(r) \in vouched)
      BY <2>2 DEF Goto
    <3> QED
      BY <3>1, <3>2, OneMoves
  <2> QED
    BY <1>8, <2>1, <2>2 DEF Verify
<1>9. CASE ConsumeNonce(r)
  <2>1. CASE At(r) = Issuer(r) /\ nonce[request[r].chal] = "live"
    <3>1. at' = [at EXCEPT ![r] = "act"] /\ nonce' = [nonce EXCEPT ![request[r].chal] = "used"]
          /\ UNCHANGED <<request, challenge, vouched, pending, grants, accepted>>
      BY <1>9, <2>1 DEF ConsumeNonce, Goto
    <3>2. at[r] \in WithKey /\ at[r] \notin AtRest
      BY <1>9 DEF ConsumeNonce, WithKey, AtRest
    <3>3. nonce'[request[r].chal] = "used" /\ \A c \in Challenges : nonce[c] = "used" => nonce'[c] = "used"
      BY <3>1, <3>2, UnderWay DEF TypeOK
    <3>4. Keeps
      BY <3>1, <3>3 DEF Keeps
    <3> QED
      BY <2>1, <3>1, <3>2, <3>3, <3>4, OneMoves
  <2>2. CASE ~(At(r) = Issuer(r) /\ nonce[request[r].chal] = "live")
    BY <1>4, <1>9, <2>2 DEF ConsumeNonce, AtRest
  <2> QED
    BY <2>1, <2>2
<1>10. CASE ActGrant(r)
  <2>1. /\ at[r] = "act" /\ IsSync(r)
        /\ grants' = [grants EXCEPT ![At(r)] = @ \cup {request[r].chal}]
        /\ UNCHANGED <<challenge, nonce, pending, vouched, request, accepted>>
    BY <1>10 DEF ActGrant, InsertTaskGrant, Goto
  <2>2. PastNonce(r) /\ WithTaskKey(r) /\ at[r] \in WithKey /\ at[r] \notin AtRest
    BY <2>1 DEF PastNonce, WithTaskKey, WithKey, AtRest
  <2>3. At(r) \notin vouched =>
          /\ challenge[request[r].chal].task /\ challenge[request[r].chal].issuer = At(r)
          /\ nonce[request[r].chal] = "used"
    BY <2>2 DEF Safe, NonceUsed, KeysWereMade, Issuer
  <2>4. \A s \in Servers \ vouched : \A c \in grants'[s] :
          c \in grants[s] \/ (s = At(r) /\ c = request[r].chal)
    BY <2>1 DEF TypeOK
  <2>5. Keeps
    BY <2>1, <2>3, <2>4 DEF Keeps
  <2>6. PICK st \in {"push", "over"} : at' = [at EXCEPT ![r] = st]
    BY <1>10 DEF ActGrant, Goto
  <2> QED
    BY <2>1, <2>2, <2>5, <2>6, OneMoves
<1>11. ASSUME NEW s \in Servers, PushBatch(r, s) PROVE Safe'
  <2>1. \A t \in Servers \ vouched : \A c \in accepted'[t] :
          c \in accepted[t] \/ c \in grants[t]
    BY <1>11 DEF PushBatch, BatchHolds, GrantHolds, TypeOK
  <2>2. Keeps /\ UNCHANGED <<challenge, request, at>>
    BY <1>11, <2>1 DEF PushBatch, Keeps
  <2> QED
    BY <2>2, NoneMoves
<1>12. CASE ActCall(r) \/ PushEnds(r)
  <2>1. /\ at[r] \in {"act", "push"} /\ at' = [at EXCEPT ![r] = "over"]
        /\ UNCHANGED <<challenge, nonce, pending, vouched, grants, request, accepted>>
    BY <1>12 DEF ActCall, PushEnds, Goto
  <2>2. PastNonce(r) /\ at[r] \in WithKey /\ at[r] \notin AtRest /\ Keeps
    BY <2>1 DEF PastNonce, WithKey, AtRest, Keeps
  <2> QED
    BY <2>1, <2>2, OneMoves
<1> QED
  BY <1>1, <1>3, <1>5, <1>6, <1>8, <1>9, <1>10, <1>11, <1>12 DEF RequestStep

LEMMA InitInv == Init => IInv
<1> SUFFICES ASSUME Init PROVE IInv
  OBVIOUS
<1>1. TypeOK
  BY DEF Init, TypeOK, Stages, None
<1>2. SyncsAreGateways /\ KeysWereMade /\ NonceUsed /\ PushersSync
  BY DEF Init, SyncsAreGateways, KeysWereMade, WithTaskKey, NonceUsed, PushersSync, PastNonce
<1>3. NonceOnce /\ TaskKeyTakenOnce /\ TaskKeyConfined
  BY DEF Init, NonceOnce, TaskKeyTakenOnce, WithTaskKey, TaskKeyConfined, PastNonce
<1> QED
  BY <1>1, <1>2, <1>3 DEF IInv

LEMMA SafeStep == IInv /\ [Next]_requestVars => IInv'
<1> SUFFICES ASSUME IInv, [Next]_requestVars PROVE Safe' /\ TypeOK'
  BY DEF IInv, Safe
<1>1. TypeOK /\ TypeOK' /\ Safe
  BY TypeStep DEF IInv, Safe
<1>2. CASE Withdraw
  <2>1. \A s \in Servers : grants'[s] \subseteq grants[s]
    BY <1>1, <1>2 DEF Withdraw, TypeOK
  <2>2. Keeps /\ UNCHANGED <<challenge, request, at>>
    BY <1>2, <2>1 DEF Withdraw, Keeps
  <2> QED
    BY <1>1, <2>2, NoneMoves
<1>3. ASSUME NEW c \in Challenges, Expire(c) PROVE Safe'
  <2>1. Keeps /\ UNCHANGED <<challenge, request, at>>
    BY <1>1, <1>3 DEF Expire, TakeKey, Keeps, TypeOK
  <2> QED
    BY <1>1, <2>1, NoneMoves
<1>4. CASE UNCHANGED requestVars
  <2>1. Keeps /\ UNCHANGED <<challenge, request, at>>
    BY <1>4 DEF requestVars, Keeps
  <2> QED
    BY <1>1, <2>1, NoneMoves
<1> QED
  BY <1>1, <1>2, <1>3, <1>4, ChallengeSafe, RequestSafe DEF Next

LEMMA Invariance == Spec => []IInv
  BY InitInv, SafeStep, PTL DEF Spec

\* The types hold for any number of challenges, requests and Servers.
THEOREM TypeCorrect == Spec => []TypeOK
<1>1. IInv => TypeOK
  BY DEF IInv
<1> QED
  BY Invariance, <1>1, PTL

\* extractSigned and ConsumeNonce: of all requests that present one challenge, at once or in
\* turn, to one Server or to many, one is acted on for its signature, and one has its task key.
THEOREM ChallengeOnce == Spec => []ChallengeServesOnce
<1>1. IInv => ChallengeServesOnce
  BY DEF IInv, ChallengeServesOnce
<1> QED
  BY Invariance, <1>1, PTL

\* RegisterTaskGrant and verifyTaskKeySignature: a Server that verifies takes a task key's
\* batches only when it issued the nonce of the key's challenge, and that nonce is used.
THEOREM TaskKeyStaysConfined == Spec => []TaskKeyConfined
<1>1. IInv => TaskKeyConfined
  BY DEF IInv
<1> QED
  BY Invariance, <1>1, PTL

=============================================================================
