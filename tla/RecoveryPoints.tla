--------------------------- MODULE RecoveryPoints ---------------------------
(***************************************************************************)
(* What snapshot retention promises: the recovery points of a dataset are  *)
(* a window of the snapshots ever taken.  It grows at the new end, one     *)
(* snapshot at a time, and shrinks only at the old end, and only while     *)
(* more than MinKeep of them are left.                                     *)
(***************************************************************************)
EXTENDS Integers

CONSTANT MinKeep
VARIABLES first, last

\* The recovery points.
Kept == first..last

\* The first points may be older than the behaviour.
Init == first = 1 /\ last \in Nat

Take == last' = last + 1 /\ UNCHANGED first

Prune ==
  /\ last - first + 1 > MinKeep
  /\ first' = first + 1
  /\ UNCHANGED last

Next == Take \/ Prune

Spec == Init /\ [][Next]_<<first, last>>

=============================================================================
