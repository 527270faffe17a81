------------------------- MODULE DelegatedKeysProof -------------------------
(***************************************************************************)
(* Proofs about DelegatedKeys, for any keys, Servers, ceremonies, times    *)
(* and any number of ceremonies at once: types; that a Server which        *)
(* verifies signatures holds only what the user has signed; and, while     *)
(* ceremonies do not overlap, that rows are backed and revocations hold.   *)
(* One invariant follows a consent from the signature through the          *)
(* forwarded call and the handler that has verified it to the meta file;   *)
(* the other what the latest ceremony has done to the row and the files.   *)
(***************************************************************************)
EXTENDS DelegatedKeys, TLAPS

Enrolls(c) == call[c].kind = "enroll"

\* What was signed is recorded.
ConsentRecorded(c) == pc[c] # "idle" /\ Enrolls(c) => <<call[c].key, call[c].exp>> \in signed

\* A handler past its check holds a statement that the user has signed as it is.
HandlerVerified(c) ==
  handler[c] \in {"pub", "meta"} /\ Enrolls(c) /\ call[c].server \notin vouched
    => <<call[c].sentKey, call[c].sentExp>> \in signed

\* So do the files.
FileConsented(s, k) == meta[s][k] > 0 => <<k, meta[s][k]>> \in signed

Consents == /\ \A c \in Ceremonies : ConsentRecorded(c) /\ HandlerVerified(c)
            /\ \A s \in Servers \ vouched, k \in Keys : FileConsented(s, k)

IInv == TypeOK /\ Consents

-----------------------------------------------------------------------------
(* One ceremony at a time.                                                 *)

Active(c) == Running(c) \/ Serving(c)
Latest(c) == \A d \in Ceremonies : d > c => pc[d] = "idle"

\* The Agent writes its row only after the Server's answer.
Confirmed(c) == Enrolls(c) /\ pc[c] = "row" => handler[c] = "ok"

\* No expiry lies further ahead than a lifetime.
ExpiriesBounded ==
  /\ row # NoRow => row.exp <= now + TTL
  /\ \A c \in Ceremonies : Enrolls(c) => call[c].sentExp <= now + TTL

\* What a handler has written is there until the next ceremony begins.
Installed(c) ==
  Enrolls(c) /\ Latest(c) =>
    /\ handler[c] \in {"meta", "ok"} => call[c].sentKey \in pub[call[c].server]
    /\ handler[c] = "ok" => meta[call[c].server][call[c].sentKey] = call[c].sentExp

Removed(c) ==
  Removing(c) /\ Latest(c) /\ handler[c] = "ok" => meta[call[c].server][call[c].sentKey] = 0

\* The key that is being removed is one whose removal was asked for.
AskedFor(c) ==
  Removing(c) /\ Active(c) =>
    /\ call[c].sentKey \in asked
    /\ pc[c] = "signed" => row # NoRow /\ row.key = call[c].sentKey

\* An enrollment does not shorten what the row promises.
NotShorter(c) == Enrolls(c) /\ Serving(c) /\ row # NoRow => row.exp <= call[c].sentExp

Orderly(c) ==
  /\ Active(c) => Latest(c)
  /\ Installed(c) /\ Removed(c) /\ AskedFor(c) /\ NotShorter(c)

\* Ceremonies begin one after the other.
InOrder == \A c, d \in Ceremonies : c < d /\ pc[d] # "idle" => pc[c] # "idle"

OrderInv ==
  /\ InOrder
  /\ \A c \in Ceremonies : Confirmed(c)
  /\ ExpiriesBounded
  /\ ~overlapped => ActiveRowIsBacked /\ \A c \in Ceremonies : Orderly(c)

-----------------------------------------------------------------------------
(* Types.                                                                  *)

LEMMA NoCallIsNone == NoCall \notin Calls
BY DEF NoCall, Calls

\* An expiry that is computed now is a time.
LEMMA ExpiryType ==
  ASSUME now \in 0..MaxTime
  PROVE  now + TTL \in Times
BY TimesAssumption DEF Times

\* Beginning a ceremony with a well-formed statement keeps the types.
LEMMA BeginType ==
  ASSUME TypeOK, NEW c \in Ceremonies, NEW r \in Calls, Begin(c, r),
         signed' \subseteq Keys \X Times, asked' \subseteq Keys
  PROVE  TypeOK'
<1>1. pc' = [pc EXCEPT ![c] = "signed"] /\ call' = [call EXCEPT ![c] = r] /\ handler[c] = "none"
  BY DEF Begin, Goto, TypeOK
<1>2. overlapped' \in BOOLEAN
  BY DEF Begin
<1>3. \A d \in Ceremonies : (call[d] = NoCall <=> pc[d] = "idle")'
  BY <1>1, NoCallIsNone DEF TypeOK, Stages
<1> QED
  BY <1>1, <1>2, <1>3 DEF TypeOK, Begin, Stages, files

\* A ceremony's stage, or its handler's, changes after it has been forwarded.
LEMMA StageType ==
  ASSUME TypeOK, NEW c \in Ceremonies, pc[c] \notin {"idle", "signed"},
         UNCHANGED <<now, row, call, vouched, ghosts>>,
         pub' \in [Servers -> SUBSET Keys], meta' \in [Servers -> [Keys -> Times]],
         \/ \E st \in {"row", "done", "failed"} : Goto(c, st) /\ UNCHANGED handler
         \/ \E h \in Handlers : HandlerGoto(c, h) /\ UNCHANGED pc
  PROVE  TypeOK'
BY DEF TypeOK, Goto, HandlerGoto, Stages, Handlers, ghosts

\* A statement to be forwarded, or a handler with one, is a call.
LEMMA CallType ==
  ASSUME TypeOK, NEW c \in Ceremonies, pc[c] # "idle" \/ handler[c] # "none"
  PROVE  call[c] \in Calls /\ call[c].kind \in {"enroll", "revoke", "delete"}
BY DEF TypeOK, Calls

LEMMA TypeStep == TypeOK /\ [Next]_vars => TypeOK'
<1> SUFFICES ASSUME TypeOK, [Next]_vars PROVE TypeOK'
  OBVIOUS
<1>1. CASE Tick
  BY <1>1, TimesAssumption DEF Tick, TypeOK, files, ghosts
<1>2. CASE AgentStops
  BY <1>2 DEF AgentStops, TypeOK, files, ghosts, Running, Stages
<1>3. ASSUME NEW c \in Ceremonies, SignConsent(c) PROVE TypeOK'
  <2>1. PICK k \in Keys, s \in Servers :
          /\ Begin(c, [kind |-> "enroll", key |-> k, exp |-> now + TTL, born |-> now,
                       server |-> s, sentKey |-> k, sentExp |-> 0])
          /\ signed' = signed \cup {<<k, now + TTL>>}
    BY <1>3 DEF SignConsent
  <2>2. now + TTL \in Times /\ 0 \in Times
    BY ExpiryType, TimesAssumption DEF TypeOK, Times
  <2>3. [kind |-> "enroll", key |-> k, exp |-> now + TTL, born |-> now,
         server |-> s, sentKey |-> k, sentExp |-> 0] \in Calls
    BY <2>2 DEF TypeOK, Calls
  <2>4. signed' \subseteq Keys \X Times /\ asked' \subseteq Keys
    BY <1>3, <2>1, <2>2 DEF SignConsent, TypeOK
  <2> QED
    BY <2>1, <2>3, <2>4, BeginType
<1>4. ASSUME NEW c \in Ceremonies, NEW kd \in {"revoke", "delete"}, NEW s \in Servers, row # NoRow,
             Begin(c, [kind |-> kd, key |-> row.key, exp |-> 0, born |-> now,
                       server |-> s, sentKey |-> row.key, sentExp |-> 0]),
             asked' = asked \cup {row.key}, UNCHANGED signed
      PROVE  TypeOK'
  <2>1. row.key \in Keys /\ 0 \in Times
    BY <1>4, TimesAssumption DEF TypeOK, Rows, Times
  <2>2. [kind |-> kd, key |-> row.key, exp |-> 0, born |-> now,
         server |-> s, sentKey |-> row.key, sentExp |-> 0] \in Calls
    BY <2>1 DEF TypeOK, Calls
  <2>3. signed' \subseteq Keys \X Times /\ asked' \subseteq Keys
    BY <1>4, <2>1 DEF TypeOK
  <2> QED
    BY <1>4, <2>2, <2>3, BeginType
<1>5. ASSUME NEW c \in Ceremonies, SignRemoval(c) \/ SignDelete(c) PROVE TypeOK'
  BY <1>4, <1>5 DEF SignRemoval, SignDelete, RowActive
<1>6. ASSUME NEW c \in Ceremonies, ForwardConsent(c) PROVE TypeOK'
  <2>1. call[c] \in Calls /\ now + TTL \in Times
    BY <1>6, CallType, ExpiryType DEF ForwardConsent, TypeOK
  <2>2. [call[c] EXCEPT !.sentExp = now + TTL] \in Calls
    BY <2>1 DEF Calls
  <2>3. call' = [call EXCEPT ![c] = [call[c] EXCEPT !.sentExp = now + TTL]]
    BY <1>6, <2>1 DEF ForwardConsent, TypeOK
  <2> QED
    BY <1>6, <2>2, <2>3, NoCallIsNone DEF ForwardConsent, Goto, TypeOK, files, ghosts, Stages, Handlers
<1>7. ASSUME NEW c \in Ceremonies, ForwardRemoval(c) PROVE TypeOK'
  <2>1. call[c] \in Calls /\ row.key \in Keys
    BY <1>7, CallType DEF ForwardRemoval, TypeOK, Rows
  <2>2. [call[c] EXCEPT !.sentKey = row.key] \in Calls
    BY <2>1 DEF Calls
  <2>3. call' = [call EXCEPT ![c] = [call[c] EXCEPT !.sentKey = row.key]]
    BY <1>7, <2>1 DEF ForwardRemoval, TypeOK
  <2> QED
    BY <1>7, <2>2, <2>3, NoCallIsNone DEF ForwardRemoval, Goto, TypeOK, files, ghosts, Stages, Handlers
<1>8. ASSUME NEW c \in Ceremonies, ForwardDelete(c) \/ Refuse(c) PROVE TypeOK'
  BY <1>8 DEF ForwardDelete, Refuse, Goto, TypeOK, files, ghosts, Stages
<1>9. ASSUME NEW c \in Ceremonies, Answer(c) \/ RowFails(c) PROVE TypeOK'
  BY <1>9, StageType DEF Answer, RowFails, TypeOK, files
<1>10. ASSUME NEW c \in Ceremonies, UpsertRow(c) PROVE TypeOK'
  <2>1. row' \in Rows
    BY <1>10, CallType DEF UpsertRow, TypeOK, Calls, Rows
  <2> QED
    BY <1>10, <2>1 DEF UpsertRow, Goto, TypeOK, files, Stages
<1>11. ASSUME NEW c \in Ceremonies, RevokeRow(c) PROVE TypeOK'
  <2>1. row' \in Rows \cup {NoRow}
    BY <1>11 DEF RevokeRow, TypeOK, Rows
  <2> QED
    BY <1>11, <2>1 DEF RevokeRow, Goto, TypeOK, files, ghosts, Stages
<1>12. ASSUME NEW c \in Ceremonies, ServerStep(c) PROVE TypeOK'
  <2>1. pc[c] \notin {"idle", "signed"} /\ handler[c] # "none"
    BY <1>12 DEF ServerStep, Check, WritePub, WriteMeta, HandlerFails, Serving, TypeOK
  <2>2. call[c].server \in Servers /\ call[c].sentKey \in Keys /\ call[c].sentExp \in Times /\ 0 \in Times
    BY <2>1, CallType, TimesAssumption DEF Calls, Times
  <2>3. CASE Check(c) \/ HandlerFails(c)
    BY <2>1, <2>3, StageType DEF Check, HandlerFails, TypeOK, files, Handlers
  <2>4. CASE WritePub(c)
    BY <2>1, <2>2, <2>4, StageType DEF WritePub, TypeOK, Handlers
  <2>5. CASE WriteMeta(c)
    BY <2>1, <2>2, <2>5, StageType DEF WriteMeta, TypeOK, Handlers
  <2> QED
    BY <1>12, <2>3, <2>4, <2>5 DEF ServerStep
<1>13. CASE UNCHANGED vars
  BY <1>13 DEF vars, TypeOK, files, ghosts
<1> QED
  BY <1>1, <1>2, <1>3, <1>5, <1>6, <1>7, <1>8, <1>9, <1>10, <1>11, <1>12, <1>13 DEF Next, AgentStep

-----------------------------------------------------------------------------
(* Consents.                                                               *)

\* A ceremony whose own state a step leaves alone stays as it was.
LEMMA ConsentKept ==
  ASSUME NEW c \in Ceremonies, ConsentRecorded(c), HandlerVerified(c), signed \subseteq signed',
         call'[c] = call[c], handler'[c] = handler[c], vouched' = vouched,
         pc'[c] # "idle" => pc[c] # "idle"
  PROVE  (ConsentRecorded(c) /\ HandlerVerified(c))'
BY DEF ConsentRecorded, HandlerVerified, Enrolls

LEMMA FilesKept ==
  ASSUME \A s \in Servers \ vouched, k \in Keys : FileConsented(s, k),
         meta' = meta, vouched' = vouched, signed \subseteq signed'
  PROVE  (\A s \in Servers \ vouched, k \in Keys : FileConsented(s, k))'
BY DEF FileConsented

LEMMA BeginConsents ==
  ASSUME IInv, NEW c \in Ceremonies, NEW r \in Calls, Begin(c, r), signed \subseteq signed',
         r.kind = "enroll" => <<r.key, r.exp>> \in signed'
  PROVE  Consents'
<1>1. /\ pc' = [pc EXCEPT ![c] = "signed"] /\ call' = [call EXCEPT ![c] = r]
      /\ handler' = handler /\ handler[c] = "none" /\ meta' = meta /\ vouched' = vouched
  BY DEF Begin, Goto, IInv, TypeOK, files
<1>2. (ConsentRecorded(c) /\ HandlerVerified(c))'
  BY <1>1 DEF IInv, TypeOK, ConsentRecorded, HandlerVerified, Enrolls
<1>3. ASSUME NEW d \in Ceremonies \ {c} PROVE (ConsentRecorded(d) /\ HandlerVerified(d))'
  <2>1. call'[d] = call[d] /\ handler'[d] = handler[d] /\ pc'[d] = pc[d]
    BY <1>1, <1>3 DEF IInv, TypeOK
  <2> QED
    BY <1>1, <1>3, <2>1, ConsentKept DEF IInv, Consents
<1>4. (\A s \in Servers \ vouched, k \in Keys : FileConsented(s, k))'
  BY <1>1, FilesKept DEF IInv, Consents
<1> QED
  BY <1>2, <1>3, <1>4 DEF Consents

\* A step that ends or fails things signs nothing and writes no expiry.
LEMMA QuietConsents ==
  ASSUME IInv, UNCHANGED <<call, vouched, signed, meta>>,
         \A c \in Ceremonies : pc'[c] # "idle" => pc[c] # "idle",
         \A c \in Ceremonies : handler'[c] = handler[c] \/ handler'[c] \notin {"pub", "meta"}
  PROVE  Consents'
<1>1. ASSUME NEW c \in Ceremonies PROVE (ConsentRecorded(c) /\ HandlerVerified(c))'
  BY <1>1 DEF IInv, Consents, ConsentRecorded, HandlerVerified, Enrolls
<1>2. (\A s \in Servers \ vouched, k \in Keys : FileConsented(s, k))'
  BY FilesKept DEF IInv, Consents
<1> QED
  BY <1>1, <1>2 DEF Consents

LEMMA ForwardConsents ==
  ASSUME IInv, NEW c \in Ceremonies, ForwardConsent(c) \/ ForwardRemoval(c)
  PROVE  Consents'
<1>1. /\ pc[c] = "signed" /\ handler' = [handler EXCEPT ![c] = "check"]
      /\ pc' = [pc EXCEPT ![c] = "rpc"] /\ UNCHANGED <<meta, vouched, signed>>
  BY DEF ForwardConsent, ForwardRemoval, Goto, files, ghosts
<1>2. call[c] \in Calls
  BY <1>1, CallType DEF IInv
<1>3. /\ call'[c].kind = call[c].kind /\ call'[c].key = call[c].key /\ call'[c].exp = call[c].exp
      /\ \A d \in Ceremonies \ {c} : call'[d] = call[d]
  BY <1>2 DEF ForwardConsent, ForwardRemoval, IInv, TypeOK, Calls
<1>4. (ConsentRecorded(c) /\ HandlerVerified(c))'
  BY <1>1, <1>3 DEF IInv, TypeOK, Consents, ConsentRecorded, HandlerVerified, Enrolls
<1>5. ASSUME NEW d \in Ceremonies \ {c} PROVE (ConsentRecorded(d) /\ HandlerVerified(d))'
  <2>1. call'[d] = call[d] /\ handler'[d] = handler[d] /\ pc'[d] = pc[d]
    BY <1>1, <1>3, <1>5 DEF IInv, TypeOK
  <2> QED
    BY <1>1, <1>5, <2>1, ConsentKept DEF IInv, Consents
<1>6. (\A s \in Servers \ vouched, k \in Keys : FileConsented(s, k))'
  BY <1>1, FilesKept DEF IInv, Consents
<1> QED
  BY <1>4, <1>5, <1>6 DEF Consents

\* The check is what makes a handler's statement a signed one.
LEMMA CheckConsents ==
  ASSUME IInv, NEW c \in Ceremonies, Check(c)
  PROVE  Consents'
<1>1. UNCHANGED <<pc, call, meta, vouched, signed>> /\ handler[c] = "check"
  BY DEF Check, files, ghosts
<1>2. ASSUME NEW d \in Ceremonies \ {c} PROVE handler'[d] = handler[d]
  BY <1>2 DEF Check, HandlerGoto, IInv, TypeOK
<1>3. pc[c] # "idle"
  BY <1>1 DEF IInv, TypeOK
<1>4. HandlerVerified(c)'
  <2>1. SUFFICES ASSUME handler'[c] \in {"pub", "meta"}, Enrolls(c), call[c].server \notin vouched
                 PROVE  <<call[c].sentKey, call[c].sentExp>> \in signed
    BY <1>1 DEF HandlerVerified, Enrolls
  <2>2. StatementHolds(c)
    BY <2>1 DEF Check, HandlerGoto, IInv, TypeOK
  <2> QED
    BY <1>3, <2>1, <2>2 DEF StatementHolds, IInv, Consents, ConsentRecorded
<1>5. ASSUME NEW d \in Ceremonies PROVE (ConsentRecorded(d) /\ HandlerVerified(d))'
  <2>1. ConsentRecorded(d)'
    BY <1>1, <1>5 DEF IInv, Consents, ConsentRecorded, Enrolls
  <2>2. CASE d = c
    BY <1>4, <2>1, <2>2
  <2>3. CASE d # c
    BY <1>1, <1>2, <1>5, <2>3, ConsentKept DEF IInv, Consents
  <2> QED
    BY <2>2, <2>3
<1>6. (\A s \in Servers \ vouched, k \in Keys : FileConsented(s, k))'
  BY <1>1, FilesKept DEF IInv, Consents
<1> QED
  BY <1>5, <1>6 DEF Consents

\* Writing the files carries a verified statement from the handler to the disk.
LEMMA WriteConsents ==
  ASSUME IInv, NEW c \in Ceremonies, WritePub(c) \/ WriteMeta(c)
  PROVE  Consents'
<1>1. UNCHANGED <<pc, call, vouched, signed>> /\ handler[c] \in {"pub", "meta"}
  BY DEF WritePub, WriteMeta, files, ghosts
<1>2. ASSUME NEW d \in Ceremonies PROVE (ConsentRecorded(d) /\ HandlerVerified(d))'
  <2>1. handler'[d] \in {"pub", "meta"} => handler[d] \in {"pub", "meta"}
    BY <1>1, <1>2 DEF WritePub, WriteMeta, HandlerGoto, IInv, TypeOK
  <2> QED
    BY <1>1, <1>2, <2>1 DEF IInv, Consents, ConsentRecorded, HandlerVerified, Enrolls
<1>3. ASSUME NEW s \in Servers \ vouched, NEW k \in Keys, meta'[s][k] > 0
      PROVE  <<k, meta'[s][k]>> \in signed
  <2>1. CASE meta'[s][k] = meta[s][k]
    BY <1>3, <2>1 DEF IInv, Consents, FileConsented
  <2>2. CASE meta'[s][k] # meta[s][k]
    <3>1. WriteMeta(c)
      BY <2>2 DEF WritePub, WriteMeta
    <3>2. s = call[c].server /\ k = call[c].sentKey
      BY <2>2, <3>1, <1>3 DEF WriteMeta, IInv, TypeOK
    <3>3. meta'[s][k] = IF Removing(c) THEN 0 ELSE call[c].sentExp
      BY <3>1, <3>2, <1>3 DEF WriteMeta, IInv, TypeOK
    <3>4. Enrolls(c) /\ meta'[s][k] = call[c].sentExp
      BY <3>3, <1>3 DEF Removing, Enrolls
    <3> QED
      BY <1>1, <1>3, <3>2, <3>4 DEF IInv, Consents, HandlerVerified
  <2> QED
    BY <2>1, <2>2
<1> QED
  BY <1>1, <1>2, <1>3 DEF Consents, FileConsented

LEMMA ConsentStep == IInv /\ [Next]_vars => Consents'
<1> SUFFICES ASSUME IInv, [Next]_vars PROVE Consents'
  OBVIOUS
<1>1. CASE Tick \/ UNCHANGED vars
  BY <1>1, QuietConsents DEF Tick, vars, files, ghosts
<1>2. CASE AgentStops
  BY <1>2, QuietConsents DEF AgentStops, Running, IInv, TypeOK, files, ghosts
<1>3. ASSUME NEW c \in Ceremonies, SignConsent(c) PROVE Consents'
  <2>1. PICK k \in Keys, s \in Servers :
          /\ Begin(c, [kind |-> "enroll", key |-> k, exp |-> now + TTL, born |-> now,
                       server |-> s, sentKey |-> k, sentExp |-> 0])
          /\ signed' = signed \cup {<<k, now + TTL>>}
    BY <1>3 DEF SignConsent
  <2>2. [kind |-> "enroll", key |-> k, exp |-> now + TTL, born |-> now,
         server |-> s, sentKey |-> k, sentExp |-> 0] \in Calls
    BY ExpiryType, TimesAssumption DEF IInv, TypeOK, Calls, Times
  <2> QED
    BY <2>1, <2>2, BeginConsents
<1>4. ASSUME NEW c \in Ceremonies, NEW kd \in {"revoke", "delete"}, NEW s \in Servers, row # NoRow,
             Begin(c, [kind |-> kd, key |-> row.key, exp |-> 0, born |-> now,
                       server |-> s, sentKey |-> row.key, sentExp |-> 0]),
             UNCHANGED signed
      PROVE  Consents'
  <2>1. [kind |-> kd, key |-> row.key, exp |-> 0, born |-> now,
         server |-> s, sentKey |-> row.key, sentExp |-> 0] \in Calls
    BY <1>4, TimesAssumption DEF IInv, TypeOK, Rows, Calls, Times
  <2> QED
    BY <1>4, <2>1, BeginConsents
<1>5. ASSUME NEW c \in Ceremonies, SignRemoval(c) \/ SignDelete(c) PROVE Consents'
  BY <1>4, <1>5 DEF SignRemoval, SignDelete, RowActive
<1>6. ASSUME NEW c \in Ceremonies,
             \/ ForwardDelete(c) \/ Refuse(c) \/ Answer(c) \/ UpsertRow(c) \/ RevokeRow(c) \/ RowFails(c)
      PROVE  Consents'
  <2>1. pc[c] # "idle" /\ UNCHANGED <<call, vouched, signed, meta, handler>>
    BY <1>6 DEF ForwardDelete, Refuse, Answer, UpsertRow, RevokeRow, RowFails, files, ghosts
  <2>2. \A d \in Ceremonies : pc'[d] # "idle" => pc[d] # "idle"
    BY <1>6, <2>1 DEF ForwardDelete, Refuse, Answer, UpsertRow, RevokeRow, RowFails, Goto, IInv, TypeOK
  <2> QED
    BY <2>1, <2>2, QuietConsents
<1>7. ASSUME NEW c \in Ceremonies, HandlerFails(c) PROVE Consents'
  <2>1. \A d \in Ceremonies : handler'[d] = handler[d] \/ handler'[d] \notin {"pub", "meta"}
    BY <1>7 DEF HandlerFails, HandlerGoto, IInv, TypeOK
  <2> QED
    BY <1>7, <2>1, QuietConsents DEF HandlerFails, files, ghosts
<1> QED
  BY <1>1, <1>2, <1>3, <1>5, <1>6, <1>7, ForwardConsents, CheckConsents, WriteConsents
     DEF Next, AgentStep, ServerStep

-----------------------------------------------------------------------------
(* One ceremony at a time.                                                 *)

\* A step of one ceremony, after it has begun, is that ceremony's alone.
LEMMA OwnStep ==
  ASSUME TypeOK, NEW c \in Ceremonies, AgentStep(c) \/ ServerStep(c)
  PROVE  /\ Active(c) /\ pc[c] # "idle" /\ pc'[c] # "idle" /\ pc'[c] # "signed"
         /\ \A d \in Ceremonies \ {c} : pc'[d] = pc[d] /\ handler'[d] = handler[d] /\ call'[d] = call[d]
         /\ UNCHANGED <<now, overlapped, signed>>
         /\ call'[c].kind = call[c].kind /\ call'[c].server = call[c].server
         /\ handler'[c] = handler[c] \/ (pc[c] = "signed" /\ handler'[c] = "check") \/ Serving(c)
<1>1. CASE ForwardConsent(c) \/ ForwardRemoval(c)
  <2>1. call[c] \in Calls /\ pc[c] = "signed"
    BY <1>1, CallType DEF ForwardConsent, ForwardRemoval
  <2>2. /\ call'[c].kind = call[c].kind /\ call'[c].server = call[c].server
        /\ \A d \in Ceremonies \ {c} : call'[d] = call[d]
    BY <1>1, <2>1 DEF ForwardConsent, ForwardRemoval, TypeOK, Calls
  <2> QED
    BY <1>1, <2>1, <2>2 DEF ForwardConsent, ForwardRemoval, Goto, Active, Running, ghosts, TypeOK
<1>2. CASE ForwardDelete(c) \/ Refuse(c) \/ Answer(c) \/ UpsertRow(c) \/ RevokeRow(c) \/ RowFails(c)
  BY <1>2 DEF ForwardDelete, Refuse, Answer, UpsertRow, RevokeRow, RowFails, Goto, Active, Running, ghosts, TypeOK
<1>3. CASE ServerStep(c)
  BY <1>3 DEF ServerStep, Check, WritePub, WriteMeta, HandlerFails, HandlerGoto, Active, Serving, ghosts, TypeOK
<1> QED
  BY <1>1, <1>2, <1>3 DEF AgentStep

\* Beside an active ceremony every other is over, or has not begun.
LEMMA OthersOrderly ==
  ASSUME TypeOK, NEW c \in Ceremonies, NEW d \in Ceremonies \ {c}, Orderly(c), Orderly(d), Active(c),
         pc[c] # "idle", pc'[c] # "idle",
         pc'[d] = pc[d], handler'[d] = handler[d], call'[d] = call[d]
  PROVE  Orderly(d)'
<1>1. c \in Nat /\ d \in Nat /\ c # d
  BY DEF Ceremonies
<1>2. CASE d < c
  <2>1. ~Latest(d) /\ ~Latest(d)'
    BY <1>2 DEF Latest
  <2>2. ~Active(d)'
    BY <2>1 DEF Orderly, Active, Running, Serving
  <2> QED
    BY <2>1, <2>2 DEF Orderly, Installed, Removed, AskedFor, NotShorter, Active
<1>3. CASE c < d
  <2>1. pc[d] = "idle" /\ handler[d] = "none"
    BY <1>3 DEF Orderly, Latest, TypeOK
  <2> QED
    BY <2>1 DEF Orderly, Active, Running, Serving, Installed, Removed, AskedFor, NotShorter
<1> QED
  BY <1>1, <1>2, <1>3

\* A ceremony's next step does to the row and the files what it was asked for.
LEMMA AgentOrderly ==
  ASSUME TypeOK, OrderInv, ~overlapped, NEW c \in Ceremonies, AgentStep(c), Latest(c)
  PROVE  /\ (Installed(c) /\ Removed(c) /\ AskedFor(c) /\ NotShorter(c))'
         /\ ActiveRowIsBacked'
<1>0. /\ Installed(c) /\ Removed(c) /\ AskedFor(c) /\ NotShorter(c) /\ Confirmed(c) /\ Orderly(c)
      /\ ExpiriesBounded /\ ActiveRowIsBacked
  BY DEF OrderInv, Orderly
<1>1. CASE ForwardConsent(c)
  <2>1. call[c] \in Calls /\ pc[c] = "signed" /\ call[c].kind = "enroll"
    BY <1>1, CallType DEF ForwardConsent
  <2>2. call'[c].kind = "enroll" /\ call'[c].sentExp = now + TTL
    BY <1>1, <2>1 DEF ForwardConsent, TypeOK, Calls
  <2>3. handler'[c] = "check" /\ UNCHANGED <<now, row, pub, meta, asked, overlapped>>
    BY <1>1 DEF ForwardConsent, files, ghosts, TypeOK
  <2> QED
    BY <1>0, <2>2, <2>3 DEF Installed, Removed, AskedFor, NotShorter, Enrolls, Removing, ExpiriesBounded,
                            ActiveRowIsBacked, RowActive
<1>2. CASE ForwardRemoval(c)
  <2>1. call[c] \in Calls /\ pc[c] = "signed" /\ call[c].kind = "revoke"
    BY <1>2, CallType DEF ForwardRemoval
  <2>2. call'[c].kind = "revoke" /\ call'[c].sentKey = row.key
    BY <1>2, <2>1 DEF ForwardRemoval, TypeOK, Calls
  <2>3. /\ handler'[c] = "check" /\ pc'[c] = "rpc" /\ UNCHANGED <<now, row, pub, meta, asked, overlapped>>
    BY <1>2 DEF ForwardRemoval, Goto, files, ghosts, TypeOK
  <2>4. row.key \in asked
    BY <1>0, <2>1 DEF AskedFor, Removing, Active, Running
  <2> QED
    BY <1>0, <2>2, <2>3, <2>4 DEF Installed, Removed, AskedFor, NotShorter, Enrolls,
                            ActiveRowIsBacked, RowActive
<1>3. CASE ForwardDelete(c) \/ Refuse(c) \/ Answer(c) \/ RowFails(c)
  <2>1. UNCHANGED <<now, row, pub, meta, asked, overlapped, handler, call>> /\ Active(c)
    BY <1>3, OwnStep DEF AgentStep, ForwardDelete, Refuse, Answer, RowFails, files, ghosts
  <2>2. pc'[c] # "signed"
    BY <1>3, OwnStep DEF AgentStep
  <2> QED
    BY <1>0, <2>1, <2>2 DEF Installed, Removed, AskedFor, NotShorter, Enrolls, Removing, Latest, Serving,
                            ActiveRowIsBacked, RowActive
<1>4. CASE UpsertRow(c)
  <2>1. /\ pc[c] = "row" /\ Enrolls(c) /\ handler[c] = "ok" /\ UNCHANGED <<now, pub, meta, handler, call>>
    BY <1>0, <1>4 DEF UpsertRow, Removing, Enrolls, Confirmed, files
  <2>2. /\ row' = [key |-> call[c].sentKey, exp |-> call[c].sentExp, revoked |-> FALSE]
        /\ call[c].server \in Servers /\ call[c].sentExp \in Nat
    BY <1>4, <2>1, CallType, TimesAssumption DEF UpsertRow, Calls, Times
  <2>3. /\ call[c].sentKey \in pub[call[c].server]
        /\ meta[call[c].server][call[c].sentKey] = call[c].sentExp
    BY <1>0, <2>1 DEF Installed
  <2>4. ActiveRowIsBacked'
    BY <2>1, <2>2, <2>3 DEF ActiveRowIsBacked
  <2> QED
    BY <2>1, <2>3, <2>4 DEF Installed, Removed, AskedFor, NotShorter, Enrolls, Removing, Serving
<1>5. CASE RevokeRow(c)
  <2>1. /\ Removing(c) /\ Active(c) /\ UNCHANGED <<meta, handler, call, asked>> /\ pc'[c] = "done"
    BY <1>5 DEF RevokeRow, Goto, files, ghosts, Active, Running, TypeOK
  <2>2. ~RowActive'
    BY <1>5 DEF RevokeRow, RowActive, NoRow, TypeOK, Rows
  <2>3. Removed(c)' /\ AskedFor(c)'
    BY <1>0, <2>1 DEF Removed, AskedFor, Removing, Latest
  <2> QED
    BY <2>1, <2>2, <2>3 DEF Installed, NotShorter, Enrolls, Removing, ActiveRowIsBacked
<1> QED
  BY <1>1, <1>2, <1>3, <1>4, <1>5 DEF AgentStep

LEMMA ServerOrderly ==
  ASSUME TypeOK, OrderInv, ~overlapped, NEW c \in Ceremonies, ServerStep(c), Latest(c)
  PROVE  /\ (Installed(c) /\ Removed(c) /\ AskedFor(c) /\ NotShorter(c))'
         /\ ActiveRowIsBacked'
<1>0. /\ Installed(c) /\ Removed(c) /\ AskedFor(c) /\ NotShorter(c) /\ Orderly(c) /\ ActiveRowIsBacked
  BY DEF OrderInv, Orderly
<1>1. /\ Serving(c) /\ Active(c) /\ UNCHANGED <<now, row, pc, call, asked, overlapped>>
      /\ pc[c] \notin {"idle", "signed"}
  BY DEF ServerStep, Check, WritePub, WriteMeta, HandlerFails, Serving, Active, ghosts, TypeOK
<1>2. /\ call[c].server \in Servers /\ call[c].sentKey \in Keys /\ call[c].sentExp \in Nat
      /\ row # NoRow => row.key \in Keys /\ row.exp \in Nat
  BY <1>1, CallType, TimesAssumption DEF Calls, Times, TypeOK, Rows
<1>3. AskedFor(c)' /\ NotShorter(c)'
  BY <1>0, <1>1 DEF AskedFor, NotShorter, Removing, Enrolls
<1>4. CASE Check(c) \/ HandlerFails(c)
  <2>1. UNCHANGED <<pub, meta>> /\ handler'[c] \in {"pub", "error"}
    BY <1>4 DEF Check, HandlerFails, HandlerGoto, files, TypeOK
  <2> QED
    BY <1>0, <1>1, <1>3, <2>1 DEF Installed, Removed, ActiveRowIsBacked, RowActive
<1>5. CASE WritePub(c)
  <2>1. /\ UNCHANGED meta /\ handler'[c] = "meta"
        /\ pub' = [pub EXCEPT ![call[c].server] =
                     IF Removing(c) THEN @ \ {call[c].sentKey} ELSE @ \cup {call[c].sentKey}]
    BY <1>5 DEF WritePub, HandlerGoto, TypeOK
  <2>2. Enrolls(c) => call[c].sentKey \in pub'[call[c].server]
    BY <1>2, <2>1 DEF Enrolls, Removing, TypeOK
  <2>3. ASSUME NEW s \in Servers, NEW k \in Keys, k \in pub[s], k \notin asked
        PROVE  k \in pub'[s]
    BY <1>0, <1>1, <1>2, <2>1, <2>3 DEF AskedFor, TypeOK
  <2>4. ActiveRowIsBacked'
    BY <1>0, <1>1, <1>2, <2>1, <2>3 DEF ActiveRowIsBacked, RowActive
  <2> QED
    BY <1>1, <1>3, <2>1, <2>2, <2>4 DEF Installed, Removed, Enrolls
<1>6. CASE WriteMeta(c)
  <2>1. /\ UNCHANGED pub /\ handler'[c] = "ok" /\ handler[c] = "meta"
        /\ meta' = [meta EXCEPT ![call[c].server][call[c].sentKey] =
                      IF Removing(c) THEN 0 ELSE call[c].sentExp]
    BY <1>6 DEF WriteMeta, HandlerGoto, TypeOK
  <2>2. meta'[call[c].server][call[c].sentKey] = (IF Removing(c) THEN 0 ELSE call[c].sentExp)
    BY <1>2, <2>1 DEF TypeOK
  <2>3. \A s \in Servers, k \in Keys :
          s # call[c].server \/ k # call[c].sentKey => meta'[s][k] = meta[s][k]
    BY <1>2, <2>1 DEF TypeOK
  <2>4. Installed(c)' /\ Removed(c)'
    BY <1>0, <1>1, <2>1, <2>2 DEF Installed, Removed, Enrolls, Removing, Latest
  <2>5. ASSUME NEW s \in Servers, row # NoRow, row.key \notin asked, meta[s][row.key] >= row.exp
        PROVE  meta'[s][row.key] >= row.exp
    <3>1. CASE s = call[c].server /\ row.key = call[c].sentKey
      <4>1. Enrolls(c)
        BY <1>0, <1>1, <2>5, <3>1 DEF AskedFor, Removing, Enrolls
      <4>2. row.exp <= call[c].sentExp
        BY <1>0, <1>1, <2>5, <4>1 DEF NotShorter
      <4>3. meta'[s][row.key] = call[c].sentExp
        BY <2>2, <3>1, <4>1 DEF Removing, Enrolls
      <4> QED
        BY <1>2, <2>5, <4>2, <4>3
    <3>2. CASE s # call[c].server \/ row.key # call[c].sentKey
      BY <1>2, <2>3, <2>5, <3>2
    <3> QED
      BY <3>1, <3>2
  <2>6. ActiveRowIsBacked'
    BY <1>0, <1>1, <2>1, <2>5 DEF ActiveRowIsBacked, RowActive
  <2> QED
    BY <1>3, <2>4, <2>6
<1> QED
  BY <1>4, <1>5, <1>6 DEF ServerStep

LEMMA BeginOrder ==
  ASSUME TypeOK, OrderInv, NEW c \in Ceremonies, NEW r \in Calls, Begin(c, r), ~overlapped',
         asked \subseteq asked',
         r.kind # "enroll" => row # NoRow /\ row.key = r.sentKey /\ r.sentKey \in asked'
  PROVE  ActiveRowIsBacked' /\ \A d \in Ceremonies : Orderly(d)'
<1>1. /\ ~overlapped /\ \A d \in Ceremonies : ~Active(d)
      /\ pc[c] = "idle" /\ \A d \in 1..c - 1 : pc[d] # "idle"
      /\ UNCHANGED <<now, row, pub, meta, handler>>
  BY DEF Begin, Active, files
<1>2. /\ pc'[c] = "signed" /\ call'[c] = r /\ handler[c] = "none"
      /\ \A d \in Ceremonies \ {c} : pc'[d] = pc[d] /\ call'[d] = call[d]
  BY DEF Begin, Goto, TypeOK
<1>3. ActiveRowIsBacked'
  BY <1>1 DEF OrderInv, ActiveRowIsBacked, RowActive
<1>4. \A d \in Ceremonies : d > c => pc'[d] = "idle"
  BY <1>1, <1>2 DEF OrderInv, InOrder, Ceremonies
<1>5. Orderly(c)'
  BY <1>1, <1>2, <1>4 DEF Orderly, Latest, Installed, Removed, AskedFor, NotShorter, Removing, Serving
<1>6. ASSUME NEW d \in Ceremonies \ {c} PROVE Orderly(d)'
  <2>1. ~Active(d)'
    BY <1>1, <1>2 DEF Active, Running, Serving
  <2>2. CASE d < c
    <3>1. ~Latest(d)'
      BY <1>2, <2>2 DEF Latest
    <3> QED
      BY <2>1, <3>1 DEF Orderly, Installed, Removed, AskedFor, NotShorter, Active
  <2>3. CASE d > c
    <3>1. handler'[d] = "none"
      BY <1>1, <1>2, <1>4, <2>3 DEF TypeOK
    <3> QED
      BY <2>1, <3>1 DEF Orderly, Installed, Removed, AskedFor, NotShorter, Active
  <2> QED
    BY <1>6, <2>2, <2>3 DEF Ceremonies
<1> QED
  BY <1>3, <1>5, <1>6

\* The parts of the invariant that hold whatever overlaps.
LEMMA BaseOrder ==
  ASSUME TypeOK, OrderInv, [Next]_vars
  PROVE  (InOrder /\ (\A c \in Ceremonies : Confirmed(c)) /\ ExpiriesBounded)'
<1>0. InOrder /\ (\A c \in Ceremonies : Confirmed(c)) /\ ExpiriesBounded
  BY DEF OrderInv
<1>t. /\ now \in Nat /\ TTL \in Nat /\ (row # NoRow => row.exp \in Nat)
      /\ \A c \in Ceremonies : Enrolls(c) => call[c].sentExp \in Nat
  BY TimesAssumption DEF TypeOK, Rows, Calls, Times, Enrolls, NoCall
<1>1. CASE Tick
  <2>1. now' = now + 1 /\ UNCHANGED <<row, pc, call, handler>>
    BY <1>1 DEF Tick
  <2> QED
    BY <1>0, <1>t, <2>1 DEF InOrder, Confirmed, ExpiriesBounded, Enrolls
<1>2. CASE AgentStops
  <2>1. UNCHANGED <<now, row, call, handler>>
    BY <1>2 DEF AgentStops
  <2>2. \A c \in Ceremonies : /\ pc'[c] = "idle" <=> pc[c] = "idle"
                              /\ pc'[c] # "row"
    BY <1>2 DEF AgentStops, Running
  <2> QED
    BY <1>0, <2>1, <2>2 DEF InOrder, Confirmed, ExpiriesBounded, Enrolls
<1>3. ASSUME NEW c \in Ceremonies, NEW r, Begin(c, r), r.sentExp = 0
      PROVE  (InOrder /\ (\A d \in Ceremonies : Confirmed(d)) /\ ExpiriesBounded)'
  <2>1. /\ pc[c] = "idle" /\ pc'[c] = "signed" /\ call'[c] = r /\ UNCHANGED <<now, row, handler>>
        /\ \A d \in 1..c - 1 : pc[d] # "idle"
        /\ \A d \in Ceremonies \ {c} : pc'[d] = pc[d] /\ call'[d] = call[d]
    BY <1>3 DEF Begin, Goto, TypeOK
  <2>2. \A d \in Ceremonies : d < c => pc[d] # "idle"
    BY <2>1 DEF Ceremonies
  <2>3. InOrder'
    BY <1>0, <2>1, <2>2 DEF InOrder
  <2>4. ExpiriesBounded'
    BY <1>0, <1>3, <1>t, <2>1 DEF ExpiriesBounded, Enrolls
  <2> QED
    BY <1>0, <2>1, <2>3, <2>4 DEF Confirmed, Enrolls
<1>4. ASSUME NEW c \in Ceremonies, SignConsent(c) \/ SignRemoval(c) \/ SignDelete(c)
      PROVE  (InOrder /\ (\A d \in Ceremonies : Confirmed(d)) /\ ExpiriesBounded)'
  BY <1>3, <1>4 DEF SignConsent, SignRemoval, SignDelete
<1>5. ASSUME NEW c \in Ceremonies, AgentStep(c) \/ ServerStep(c)
      PROVE  (InOrder /\ (\A d \in Ceremonies : Confirmed(d)) /\ ExpiriesBounded)'
  <2>0. /\ pc[c] # "idle" /\ pc'[c] # "idle" /\ UNCHANGED now /\ call'[c].kind = call[c].kind
        /\ \A d \in Ceremonies \ {c} : pc'[d] = pc[d] /\ handler'[d] = handler[d] /\ call'[d] = call[d]
        /\ handler[c] = "ok" => handler'[c] = "ok"
    BY <1>5, OwnStep DEF Serving, TypeOK
  <2>1. InOrder'
    BY <1>0, <2>0 DEF InOrder
  <2>2. Confirmed(c)'
    <3>1. pc'[c] = "row" /\ Enrolls(c) => pc[c] = "row" \/ handler[c] = "ok"
      BY <1>5 DEF AgentStep, ServerStep, ForwardConsent, ForwardRemoval, ForwardDelete, Refuse, Answer, UpsertRow,
                  RevokeRow, RowFails, Check, WritePub, WriteMeta, HandlerFails, Goto, Removing, Enrolls, TypeOK
    <3> QED
      BY <1>0, <2>0, <3>1 DEF Confirmed, Enrolls
  <2>3. ExpiriesBounded'
    <3>1. CASE ForwardConsent(c)
      <4>1. call[c] \in Calls
        BY <3>1, CallType DEF ForwardConsent
      <4>2. call'[c].sentExp = now + TTL /\ UNCHANGED row
        BY <3>1, <4>1 DEF ForwardConsent, TypeOK, Calls
      <4> QED
        BY <1>0, <1>t, <2>0, <4>2 DEF ExpiriesBounded, Enrolls
    <3>2. CASE ForwardRemoval(c)
      BY <1>0, <2>0, <3>2 DEF ForwardRemoval, ExpiriesBounded, Enrolls
    <3>3. CASE UpsertRow(c)
      <4>1. row'.exp = call[c].sentExp /\ call' = call /\ Enrolls(c)
        BY <3>3 DEF UpsertRow, Removing, Enrolls
      <4> QED
        BY <1>0, <2>0, <4>1 DEF ExpiriesBounded, Enrolls
    <3>4. CASE RevokeRow(c)
      <4>1. call' = call /\ (row' # NoRow => row # NoRow /\ row'.exp = row.exp)
        BY <3>4 DEF RevokeRow, NoRow, TypeOK, Rows
      <4> QED
        BY <1>0, <2>0, <4>1 DEF ExpiriesBounded, Enrolls
    <3>5. CASE ForwardDelete(c) \/ Refuse(c) \/ Answer(c) \/ RowFails(c) \/ ServerStep(c)
      <4>1. UNCHANGED <<row, call>>
        BY <3>5 DEF ForwardDelete, Refuse, Answer, RowFails, ServerStep, Check, WritePub, WriteMeta, HandlerFails
      <4> QED
        BY <1>0, <2>0, <4>1 DEF ExpiriesBounded, Enrolls
    <3> QED
      BY <1>5, <3>1, <3>2, <3>3, <3>4, <3>5 DEF AgentStep
  <2> QED
    BY <1>0, <2>0, <2>1, <2>2, <2>3 DEF Confirmed, Enrolls
<1>6. CASE UNCHANGED vars
  BY <1>0, <1>6 DEF vars, InOrder, Confirmed, ExpiriesBounded, Enrolls
<1> QED
  BY <1>1, <1>2, <1>4, <1>5, <1>6 DEF Next

LEMMA OneAtATime ==
  ASSUME TypeOK, OrderInv, [Next]_vars, ~overlapped'
  PROVE  ActiveRowIsBacked' /\ \A c \in Ceremonies : Orderly(c)'
<1>1. CASE Tick \/ UNCHANGED vars
  <2>1. /\ UNCHANGED <<row, pub, meta, pc, call, handler, asked, overlapped>>
        /\ RowActive' => RowActive
    BY <1>1, TimesAssumption DEF Tick, vars, files, ghosts, RowActive, NoRow, TypeOK, Rows, Times
  <2> QED
    BY <2>1 DEF OrderInv, ActiveRowIsBacked, Orderly, Active, Running, Serving, Latest, Installed, Removed,
                AskedFor, NotShorter, Enrolls, Removing
<1>2. CASE AgentStops
  <2>1. UNCHANGED <<now, row, pub, meta, call, handler, asked, overlapped>>
    BY <1>2 DEF AgentStops, files, ghosts
  <2>2. \A c \in Ceremonies : /\ pc'[c] = "idle" <=> pc[c] = "idle"
                              /\ pc'[c] # "signed" /\ (Active(c)' => Active(c))
    BY <1>2, <2>1 DEF AgentStops, Active, Running, Serving
  <2>3. \A c \in Ceremonies : Latest(c)' <=> Latest(c)
    BY <2>2 DEF Latest
  <2>4. ActiveRowIsBacked'
    BY <2>1 DEF OrderInv, ActiveRowIsBacked, RowActive
  <2> QED
    BY <2>1, <2>2, <2>3, <2>4 DEF OrderInv, Orderly, Installed, Removed, AskedFor, NotShorter, Enrolls,
                                  Removing, Serving
<1>3. ASSUME NEW c \in Ceremonies, SignConsent(c) PROVE ActiveRowIsBacked' /\ \A d \in Ceremonies : Orderly(d)'
  <2>1. PICK k \in Keys, s \in Servers :
          Begin(c, [kind |-> "enroll", key |-> k, exp |-> now + TTL, born |-> now,
                    server |-> s, sentKey |-> k, sentExp |-> 0])
    BY <1>3 DEF SignConsent
  <2>2. [kind |-> "enroll", key |-> k, exp |-> now + TTL, born |-> now,
         server |-> s, sentKey |-> k, sentExp |-> 0] \in Calls
    BY ExpiryType, TimesAssumption DEF TypeOK, Calls, Times
  <2>3. asked \subseteq asked'
    BY <1>3 DEF SignConsent
  <2> QED
    BY <2>1, <2>2, <2>3, BeginOrder
<1>4. ASSUME NEW c \in Ceremonies, NEW kd \in {"revoke", "delete"}, NEW s \in Servers, row # NoRow,
             Begin(c, [kind |-> kd, key |-> row.key, exp |-> 0, born |-> now,
                       server |-> s, sentKey |-> row.key, sentExp |-> 0]),
             asked' = asked \cup {row.key}
      PROVE  ActiveRowIsBacked' /\ \A d \in Ceremonies : Orderly(d)'
  <2>1. [kind |-> kd, key |-> row.key, exp |-> 0, born |-> now,
         server |-> s, sentKey |-> row.key, sentExp |-> 0] \in Calls
    BY <1>4, TimesAssumption DEF TypeOK, Rows, Calls, Times
  <2> QED
    BY <1>4, <2>1, BeginOrder
<1>5. ASSUME NEW c \in Ceremonies, SignRemoval(c) \/ SignDelete(c)
      PROVE  ActiveRowIsBacked' /\ \A d \in Ceremonies : Orderly(d)'
  BY <1>4, <1>5 DEF SignRemoval, SignDelete, RowActive
<1>6. ASSUME NEW c \in Ceremonies, AgentStep(c) \/ ServerStep(c)
      PROVE  ActiveRowIsBacked' /\ \A d \in Ceremonies : Orderly(d)'
  <2>1. /\ Active(c) /\ pc[c] # "idle" /\ pc'[c] # "idle" /\ ~overlapped
        /\ \A d \in Ceremonies \ {c} : pc'[d] = pc[d] /\ handler'[d] = handler[d] /\ call'[d] = call[d]
    BY <1>6, OwnStep
  <2>2. Latest(c) /\ Latest(c)' /\ \A d \in Ceremonies : Orderly(d)
    BY <2>1 DEF OrderInv, Orderly, Latest, Ceremonies
  <2>3. \A d \in Ceremonies \ {c} : Orderly(d)'
    BY <2>1, <2>2, OthersOrderly
  <2>4. (Installed(c) /\ Removed(c) /\ AskedFor(c) /\ NotShorter(c))' /\ ActiveRowIsBacked'
    BY <1>6, <2>1, <2>2, AgentOrderly, ServerOrderly
  <2> QED
    BY <2>2, <2>3, <2>4 DEF Orderly
<1> QED
  BY <1>1, <1>2, <1>3, <1>5, <1>6 DEF Next

LEMMA OrderStep == TypeOK /\ OrderInv /\ [Next]_vars => OrderInv'
BY BaseOrder, OneAtATime DEF OrderInv

-----------------------------------------------------------------------------

LEMMA InitInv == Init => IInv
<1> SUFFICES ASSUME Init PROVE IInv
  OBVIOUS
<1>1. 0 \in Times
  BY TimesAssumption DEF Times
<1>2. TypeOK
  <2>1. pub \in [Servers -> SUBSET Keys] /\ meta \in [Servers -> [Keys -> Times]]
    BY <1>1 DEF Init
  <2>2. call \in [Ceremonies -> Calls \cup {NoCall}] /\ handler \in [Ceremonies -> Handlers]
    BY DEF Init, Handlers
  <2>3. now \in 0..MaxTime /\ pc \in [Ceremonies -> Stages] /\ vouched \subseteq Servers
    BY TimesAssumption DEF Init, Stages
  <2>4. \A c \in Ceremonies : call[c] = NoCall /\ pc[c] = "idle" /\ handler[c] = "none"
    BY DEF Init
  <2> QED
    BY <2>1, <2>2, <2>3, <2>4 DEF Init, TypeOK
<1>3. Consents
  BY DEF Init, Consents, ConsentRecorded, HandlerVerified, FileConsented
<1> QED
  BY <1>2, <1>3 DEF IInv

LEMMA Invariance == Spec => []IInv
<1>1. IInv /\ [Next]_vars => IInv'
  BY TypeStep, ConsentStep DEF IInv
<1> QED
  BY InitInv, <1>1, PTL DEF Spec

\* The types hold for any number of keys, Servers, ceremonies and seconds.
THEOREM TypeCorrect == Spec => []TypeOK
<1>1. IInv => TypeOK
  BY DEF IInv
<1> QED
  BY Invariance, <1>1, PTL

\* EnrollWebDelegation and RegisterDelegationKey never give a Server that verifies signatures
\* a usable key with an expiry that the user has not signed exactly so.
THEOREM OnlyConsentedKeys == Spec => []KeysAreConsented
<1>1. IInv => KeysAreConsented
  <2> SUFFICES ASSUME IInv, NEW s \in Servers \ vouched, NEW k \in Keys, Loadable(s, k)
               PROVE  <<k, meta[s][k]>> \in signed
    BY DEF KeysAreConsented
  <2>1. meta[s][k] \in Times /\ now \in 0..MaxTime /\ meta[s][k] > now
    BY DEF IInv, TypeOK, Loadable
  <2>2. meta[s][k] > 0
    BY <2>1, TimesAssumption DEF Times
  <2> QED
    BY <2>2 DEF IInv, Consents, FileConsented
<1> QED
  BY Invariance, <1>1, PTL

LEMMA InitOrder == Init => OrderInv
<1> SUFFICES ASSUME Init PROVE OrderInv
  OBVIOUS
<1>1. \A c \in Ceremonies : pc[c] = "idle" /\ handler[c] = "none" /\ call[c] = NoCall /\ ~Active(c)
  BY DEF Init, Active, Running, Serving
<1>2. InOrder /\ ExpiriesBounded /\ \A c \in Ceremonies : Confirmed(c) /\ Orderly(c)
  BY <1>1 DEF Init, InOrder, ExpiriesBounded, Confirmed, Orderly, Installed, Removed, AskedFor, NotShorter,
              Serving, Enrolls, NoCall
<1> QED
  BY <1>2 DEF OrderInv, ActiveRowIsBacked, RowActive, Init

LEMMA Ordered == Spec => []OrderInv
<1>1. IInv /\ OrderInv /\ [Next]_vars => OrderInv'
  BY OrderStep DEF IInv
<1> QED
  BY Invariance, InitOrder, <1>1, PTL DEF Spec

\* The row that UpsertWebDelegation writes names a key that a Server has accepted for as long,
\* and while ceremonies do not overlap no failed enrollment, late handler or restart of the
\* Agent takes that copy away before somebody asks for it.
THEOREM ActiveRowsAreBacked == Spec => []ActiveRowIsBacked
<1>1. OrderInv => ActiveRowIsBacked
  BY DEF OrderInv, ActiveRowIsBacked
<1> QED
  BY Ordered, <1>1, PTL

\* What RemoveDelegationKey has answered stays removed on that Server until a later ceremony,
\* as long as ceremonies do not overlap.
THEOREM RevocationsHold == Spec => []AnsweredRevocationHolds
<1>1. TypeOK /\ OrderInv => AnsweredRevocationHolds
  <2> SUFFICES ASSUME TypeOK, OrderInv, NEW c \in Ceremonies, ~overlapped, call[c].kind = "revoke",
                      handler[c] = "ok", Latest(c)
               PROVE  ~Loadable(call[c].server, call[c].sentKey)
    BY DEF AnsweredRevocationHolds, Latest
  <2>1. meta[call[c].server][call[c].sentKey] = 0
    BY DEF OrderInv, Orderly, Removed, Removing
  <2> QED
    BY <2>1, TimesAssumption DEF Loadable, TypeOK
<1> QED
  BY Ordered, TypeCorrect, <1>1, PTL

=============================================================================
