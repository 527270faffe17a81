---------------------------- MODULE RestoreTarget ----------------------------
(***************************************************************************)
(* dvault restore: the Agent receives a user's whole tree into a temporary *)
(* directory beside the target, removes the old target, renames the new    *)
(* tree into its place and gives it to the user.  Restores run as          *)
(* goroutines of their own, also two of one target, or one of a directory  *)
(* inside the other's target.                                              *)
(***************************************************************************)
EXTENDS Naturals, FiniteSets

CONSTANT Restores

VARIABLES
  target,  \* target[r]: the directory restore r was asked for
  tree,    \* tree[p]: what is at path p in the user's home
  tmp,     \* tmp[r]: the files in r's temporary directory, NoDir without one
  got,     \* got[r]: the files whose last batch r has accepted
  stage,   \* stage[r]: where restore r is
  halted,  \* the Agent has stopped while a restore ran
  cut      \* history: <<r, d>> when r's RemoveAll of d, "target" or "tmp", did not end

restoreVars == <<target, tree, tmp, got, stage, halted, cut>>

\* Two directories of a home: "outer", and "inner" below it.
Paths == {"outer", "inner"}
\* A file of one batch and one of two chunks; "part" is the latter after its first chunk.
Files == {"small", "large"}
NoDir == {"no dir"}

\* "old": the user's directory before; "foreign": a link, a file or a directory of another
\* user; "half": what RemoveAll has left so far; "stray": made by MkdirAll for a temporary
\* directory whose parent had gone.
Plain    == [kind : {"absent", "old", "foreign"}]
Partial  == [kind : {"half", "stray"}, owned : BOOLEAN]
Restored == [kind : {"restored"}, by : Restores, files : SUBSET (Files \cup {"part"}), owned : BOOLEAN]
Absent   == [kind |-> "absent"]

Stages == {"idle", "temp", "receive", "inspect", "remove", "removing", "rename", "chown",
           "undo", "undoing", "cleanup", "completed", "failed"}
Running(r) == stage[r] \notin {"idle", "completed", "failed"}

TypeOK ==
  /\ target \in [Restores -> Paths]
  /\ tree \in [Paths -> Plain \cup Partial \cup Restored]
  /\ tmp \in [Restores -> {NoDir} \cup SUBSET (Files \cup {"part"})]
  /\ got \in [Restores -> SUBSET Files]
  /\ stage \in [Restores -> Stages]
  /\ halted \in BOOLEAN
  /\ cut \subseteq Restores \X {"target", "tmp"}

Init ==
  /\ target \in [Restores -> Paths]
  /\ tree \in [Paths -> [kind : {"absent", "old", "foreign"}]]
  /\ tree["inner"].kind # "absent" => tree["outer"].kind = "old"
  /\ tmp = [r \in Restores |-> NoDir]
  /\ got = [r \in Restores |-> {}]
  /\ stage = [r \in Restores |-> "idle"]
  /\ halted = FALSE
  /\ cut = {}

Goto(r, s) == stage' = [stage EXCEPT ![r] = s]

UserDir(t) == t.kind = "old" \/ (t.kind \in {"half", "stray", "restored"} /\ t.owned)
\* The parent of a target: the home itself, or the outer directory.
ParentThere(p) == p = "inner" => tree["outer"].kind \notin {"absent", "foreign"}

\* RunRestore up to validateRestoreTarget: a directory of the user, or a free name in one.
Valid(p) ==
  \/ UserDir(tree[p])
  \/ tree[p].kind = "absent" /\ (p = "inner" => UserDir(tree["outer"]))

Ask(r) ==
  /\ stage[r] = "idle" /\ ~halted
  /\ IF Valid(target[r]) THEN Goto(r, "temp") ELSE Goto(r, "failed")
  /\ UNCHANGED <<target, tree, tmp, got, halted, cut>>

\* No Server, no client, no signature, a refused call or a failing MkdirTemp.
NoStream(r) ==
  /\ stage[r] = "temp"
  /\ Goto(r, "failed")
  /\ UNCHANGED <<target, tree, tmp, got, halted, cut>>

\* As if the old target were removed before the new tree is received.
MakeTempInPlace(r) ==
  /\ stage[r] = "temp"
  /\ ParentThere(target[r])
  /\ tmp' = [tmp EXCEPT ![r] = {}]
  /\ tree' = [tree EXCEPT ![target[r]] = Absent]
  /\ Goto(r, "receive")
  /\ UNCHANGED <<target, got, halted, cut>>

MakeTemp(r) ==
  /\ stage[r] = "temp"
  /\ ParentThere(target[r])
  /\ tmp' = [tmp EXCEPT ![r] = {}]
  /\ Goto(r, "receive")
  /\ UNCHANGED <<target, tree, got, halted, cut>>

\* MkdirAll makes a temporary directory again that somebody removed, and its parent.
PutFile(r, f) ==
  /\ tmp' = [tmp EXCEPT ![r] = (@ \ NoDir) \cup {f}]
  /\ tree' = IF ParentThere(target[r]) THEN tree ELSE [tree EXCEPT !["outer"] = [kind |-> "stray", owned |-> FALSE]]

ReceiveFile(r) ==
  /\ stage[r] = "receive" /\ "small" \notin got[r]
  /\ PutFile(r, "small")
  /\ got' = [got EXCEPT ![r] = @ \cup {"small"}]
  /\ UNCHANGED <<target, stage, halted, cut>>

ReceiveFirstChunk(r) ==
  /\ stage[r] = "receive" /\ "large" \notin got[r] /\ "part" \notin tmp[r]
  /\ PutFile(r, "part")
  /\ UNCHANGED <<target, got, stage, halted, cut>>

\* The open file takes the bytes even when its name has gone; the Chmod by name finds out.
ReceiveFinalChunk(r) ==
  /\ stage[r] = "receive" /\ "part" \in tmp[r]
  /\ tmp' = [tmp EXCEPT ![r] = (@ \ {"part"}) \cup {"large"}]
  /\ got' = [got EXCEPT ![r] = @ \cup {"large"}]
  /\ UNCHANGED <<target, tree, stage, halted, cut>>

\* As if the end of the stream were the end of the tree.
EndOfStreamAccepted(r) ==
  /\ stage[r] = "receive"
  /\ Goto(r, "inspect")
  /\ UNCHANGED <<target, tree, tmp, got, halted, cut>>

\* The stream ends without a last batch, or fails, or a file cannot be written.
StreamFails(r) ==
  /\ stage[r] = "receive"
  /\ Goto(r, "cleanup")
  /\ UNCHANGED <<target, tree, tmp, got, halted, cut>>

\* The last batch, which the Server sends after every file.
LastBatch(r) ==
  /\ stage[r] = "receive" /\ got[r] = Files /\ "part" \notin tmp[r]
  /\ Goto(r, "inspect")
  /\ UNCHANGED <<target, tree, tmp, got, halted, cut>>

\* The Lstat before the swap stops at a link; one that is not there now never was.
Inspect(r) ==
  /\ stage[r] = "inspect"
  /\ Goto(r, "remove") \/ Goto(r, "cleanup")
  /\ UNCHANGED <<target, tree, tmp, got, halted, cut>>

\* What is below a removed directory goes with it, temporary directories included.
GoneWith(p) ==
  /\ tree' = [q \in Paths |-> IF q = p \/ p = "outer" THEN Absent ELSE tree[q]]
  /\ tmp' = [r \in Restores |-> IF p = "outer" /\ target[r] = "inner" THEN NoDir ELSE tmp[r]]

\* On the way there a part of it is left, and of what is below it all, a part or nothing.
HalfGone(p) ==
  LET Half(t) == IF t = Absent THEN t ELSE [kind |-> "half", owned |-> UserDir(t)] IN
  \E below \in {"whole", "half", "gone"} :
    /\ tree' = [q \in Paths |->
                 CASE q = p \/ (p = "outer" /\ below = "half") -> Half(tree[q])
                   [] q # p /\ p = "outer" /\ below = "gone"   -> Absent
                   [] OTHER                                     -> tree[q]]
    /\ tmp' = [r \in Restores |->
                 IF p = "outer" /\ below = "gone" /\ target[r] = "inner" THEN NoDir ELSE tmp[r]]

RemoveBegins(r) ==
  /\ stage[r] = "remove"
  /\ HalfGone(target[r])
  /\ Goto(r, "removing")
  /\ UNCHANGED <<target, got, halted, cut>>

RemoveEnds(r) ==
  /\ stage[r] = "removing"
  /\ GoneWith(target[r])
  /\ Goto(r, "rename")
  /\ UNCHANGED <<target, got, halted, cut>>

RemoveFails(r) ==
  /\ stage[r] = "removing"
  /\ Goto(r, "cleanup")
  /\ cut' = cut \cup {<<r, "target">>}
  /\ UNCHANGED <<target, tree, tmp, got, halted>>

\* rename(2) wants a free name (or an empty directory), and both parents.
Rename(r) ==
  /\ stage[r] = "rename"
  /\ tree[target[r]] = Absent /\ ParentThere(target[r]) /\ tmp[r] # NoDir
  /\ tree' = [tree EXCEPT ![target[r]] =
                [kind |-> "restored", by |-> r, files |-> tmp[r], owned |-> FALSE]]
  /\ tmp' = [tmp EXCEPT ![r] = NoDir]
  /\ Goto(r, "chown")
  /\ UNCHANGED <<target, got, halted, cut>>

RenameFails(r) ==
  /\ stage[r] = "rename"
  /\ Goto(r, "cleanup")
  /\ UNCHANGED <<target, tree, tmp, got, halted, cut>>

\* The walk gives whatever tree is there now, and what is below it, to the user.
Given(t) == IF t.kind \in {"half", "stray", "restored"} THEN [t EXCEPT !.owned = TRUE] ELSE t

Chown(r) ==
  /\ stage[r] = "chown" /\ tree[target[r]] # Absent
  /\ tree' = [p \in Paths |-> IF p = target[r] \/ target[r] = "outer" THEN Given(tree[p]) ELSE tree[p]]
  /\ Goto(r, "completed")
  /\ UNCHANGED <<target, tmp, got, halted, cut>>

\* The directory itself comes first in the walk: it may be the user's already.
ChownFails(r) ==
  /\ stage[r] = "chown"
  /\ \/ UNCHANGED tree
     \/ tree' = [tree EXCEPT ![target[r]] = Given(@)]
  /\ Goto(r, "undo")
  /\ UNCHANGED <<target, tmp, got, halted, cut>>

\* The target is removed again, whoever put there what is there now.
UndoBegins(r) ==
  /\ stage[r] = "undo"
  /\ HalfGone(target[r])
  /\ Goto(r, "undoing")
  /\ UNCHANGED <<target, got, halted, cut>>

UndoEnds(r) ==
  /\ stage[r] = "undoing"
  /\ GoneWith(target[r])
  /\ Goto(r, "failed")
  /\ UNCHANGED <<target, got, halted, cut>>

\* An error of this RemoveAll is dropped.
UndoFails(r) ==
  /\ stage[r] = "undoing"
  /\ Goto(r, "failed")
  /\ cut' = cut \cup {<<r, "target">>}
  /\ UNCHANGED <<target, tree, tmp, got, halted>>

\* The deferred abortRestoreChunks and RemoveAll of the temporary directory.
Cleanup(r) ==
  /\ stage[r] = "cleanup"
  /\ tmp' = [tmp EXCEPT ![r] = NoDir]
  /\ Goto(r, "failed")
  /\ UNCHANGED <<target, tree, got, halted, cut>>

\* Its error is dropped too; what is left, all or a part, nobody looks at again.
CleanupFails(r) ==
  /\ stage[r] = "cleanup" /\ tmp[r] # NoDir
  /\ Goto(r, "failed")
  /\ cut' = cut \cup {<<r, "tmp">>}
  /\ UNCHANGED <<target, tree, tmp, got, halted>>

\* A restore does not survive the Agent; what it left on the disk does.
AgentStops ==
  /\ \E r \in Restores : Running(r)
  /\ stage' = [r \in Restores |-> IF Running(r) THEN "failed" ELSE stage[r]]
  /\ halted' = TRUE
  /\ cut' = cut \cup {<<r, "target">> : r \in {q \in Restores : stage[q] \in {"removing", "undoing"}}}
                 \cup {<<r, "tmp">> : r \in {q \in Restores : Running(q) /\ tmp[q] # NoDir}}
  /\ UNCHANGED <<target, tree, tmp, got>>

RestoreStep(r) ==
  \/ Ask(r) \/ NoStream(r) \/ MakeTemp(r)
  \/ ReceiveFile(r) \/ ReceiveFirstChunk(r) \/ ReceiveFinalChunk(r)
  \/ StreamFails(r) \/ LastBatch(r) \/ Inspect(r)
  \/ RemoveBegins(r) \/ RemoveEnds(r) \/ RemoveFails(r) \/ Rename(r) \/ RenameFails(r)
  \/ Chown(r) \/ ChownFails(r) \/ UndoBegins(r) \/ UndoEnds(r) \/ UndoFails(r)
  \/ Cleanup(r) \/ CleanupFails(r)

Next == AgentStops \/ \E r \in Restores : RestoreStep(r)

Spec == Init /\ [][Next]_restoreVars

-----------------------------------------------------------------------------
(* Properties.                                                             *)

Alone(r) == \A q \in Restores \ {r} : stage[q] = "idle"
Enclosed(r) == target[r] = "inner" /\ \E q \in Restores : target[q] = "outer" /\ stage[q] # "idle"

\* A restored tree that is visible at its target is whole: interrupted, failing and
\* simultaneous restores of one target never leave a part of the files or a mixture there.
\* (A restore of a directory inside the target of another one is out of this promise.)
RestoredIsWhole ==
  \A p \in Paths : tree[p].kind = "restored" /\ ~Enclosed(tree[p].by) => tree[p].files = Files

\* A part of a tree, old or restored, is visible only while a restore removes it, or where
\* a stop cut such a removal or its RemoveAll failed: no other failure, and no overlap of
\* restores, leaves one.
PartHasCause ==
  \A p \in Paths : tree[p].kind = "half" =>
    \E r \in Restores : /\ p = target[r] \/ target[r] = "outer"
                        /\ stage[r] \in {"removing", "undoing"} \/ <<r, "target">> \in cut

\* A directory of the user is taken away only for a whole new tree that waits beside it.
OldGoesForWhole ==
  [][\A p \in Paths :
       tree[p].kind = "old" /\ tree'[p].kind # "old" =>
         \E r \in Restores : /\ stage[r] \in {"remove", "removing"}
                             /\ p = target[r] \/ target[r] = "outer"
                             /\ tmp[r] = Files \/ Enclosed(r)]_restoreVars

\* A restore that completed, and ran beside no other, has left its whole tree, the user's.
CompletedIsOwned ==
  \A r \in Restores :
    stage[r] = "completed" /\ Alone(r) =>
      tree[target[r]] = [kind |-> "restored", by |-> r, files |-> Files, owned |-> TRUE]

\* A temporary directory outlives its restore only where the Agent stopped while it was
\* there, or where its own removal failed.
NoTempLeft ==
  \A r \in Restores : ~Running(r) /\ tmp[r] # NoDir => <<r, "tmp">> \in cut

=============================================================================
