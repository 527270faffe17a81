------------------------------- MODULE ConnPool -------------------------------
(***************************************************************************)
(* The Agent's cache of gRPC connections: looked up under a read lock,     *)
(* looked up again and filled under the write lock, closed at exit while   *)
(* background syncs may still ask for a client.                            *)
(***************************************************************************)
EXTENDS Naturals, FiniteSets

CONSTANTS
  Callers,  \* goroutines that want the client of one address
  Conns     \* bound: the connections that are dialled

VARIABLES
  cached,   \* the connection in the maps, as a set; Closed when the maps are gone
  mutex,    \* who holds the write lock
  open,     \* connections that are dialled and not closed
  given,      \* given[c]: the connection of the client c was given, as a set
  callAt    \* callAt[c]: where the goroutine is

poolVars == <<cached, mutex, open, given, callAt>>

Closed == {"closed"}

TypeOK ==
  /\ cached \in {{k} : k \in Conns} \cup {{}, Closed}
  /\ mutex \in {{c} : c \in Callers} \cup {{}}
  /\ open \subseteq Conns
  /\ given \in [Callers -> SUBSET Conns]
  /\ callAt \in [Callers -> {"start", "lock", "check", "dial", "done", "failed", "panic"}]

Init ==
  /\ cached = {}
  /\ mutex = {}
  /\ open = {}
  /\ given = [c \in Callers |-> {}]
  /\ callAt = [c \in Callers |-> "start"]

Goto(c, s) == callAt' = [callAt EXCEPT ![c] = s]
Hit == cached \notin {{}, Closed}

\* Under the read lock, so not while somebody writes.
Lookup(c) ==
  /\ callAt[c] = "start" /\ mutex = {}
  /\ IF Hit THEN Goto(c, "done") /\ given' = [given EXCEPT ![c] = cached]
            ELSE Goto(c, "lock") /\ UNCHANGED given
  /\ UNCHANGED <<cached, mutex, open>>

Lock(c) ==
  /\ callAt[c] = "lock" /\ mutex = {}
  /\ mutex' = {c}
  /\ Goto(c, "check")
  /\ UNCHANGED <<cached, open, given>>

\* As if the miss under the read lock were enough.
CheckSkipped(c) ==
  /\ callAt[c] = "check"
  /\ Goto(c, "dial")
  /\ UNCHANGED <<cached, mutex, open, given>>

Check(c) ==
  /\ callAt[c] = "check"
  /\ IF Hit THEN Goto(c, "done") /\ given' = [given EXCEPT ![c] = cached] /\ mutex' = {}
            ELSE Goto(c, "dial") /\ UNCHANGED <<given, mutex>>
  /\ UNCHANGED <<cached, open>>

\* After Close the maps are nil: the new connection is dialled, and storing it panics.
Dial(c) ==
  /\ callAt[c] = "dial"
  /\ \E k \in Conns \ (open \cup UNION {given[d] : d \in Callers}) :
       /\ open' = open \cup {k}
       /\ IF cached = Closed
          THEN Goto(c, "panic") /\ UNCHANGED <<cached, given>>
          ELSE Goto(c, "done") /\ cached' = {k} /\ given' = [given EXCEPT ![c] = {k}]
  /\ mutex' = {}

DialFails(c) ==
  /\ callAt[c] = "dial"
  /\ Goto(c, "failed")
  /\ mutex' = {}
  /\ UNCHANGED <<cached, open, given>>

\* The deferred Close of main, when the listeners have stopped.
Close ==
  /\ mutex = {} /\ cached # Closed
  /\ open' = open \ cached
  /\ cached' = Closed
  /\ UNCHANGED <<mutex, given, callAt>>

Again(c) ==
  /\ callAt[c] \in {"done", "failed"} /\ cached # Closed
  /\ Goto(c, "start")
  /\ UNCHANGED <<cached, mutex, open, given>>

Next ==
  \/ Close
  \/ \E c \in Callers : Lookup(c) \/ Lock(c) \/ Check(c) \/ Dial(c) \/ DialFails(c) \/ Again(c)

Spec == Init /\ [][Next]_poolVars

-----------------------------------------------------------------------------
(* Properties.                                                             *)

\* Until Close, every open connection is the one in the cache: simultaneous first calls
\* leave none behind that Close would not find, and every client handed out works.
NoStrayConnection ==
  cached # Closed => /\ open = cached
                     /\ \A c \in Callers : given[c] \subseteq open

=============================================================================
