---------------------------- MODULE MCBackupSync ----------------------------
(* Small instances of BackupSync for TLC. *)
EXTENDS BackupSync, TLC

CONSTANTS f1, f2

Root(under, scanned) == [under |-> under, scanned |-> scanned]

\* One root with both files; the same with one of them excluded; the other file alone in
\* a root of its own; two roots with one file each; a root below another, which the rule
\* of the outer one excludes.
OneFile   == <<Root({f1}, {f1})>>
OneRoot   == <<Root({f1, f2}, {f1, f2})>>
Excluding == <<Root({f1, f2}, {f1})>>
TwoRoots  == <<Root({f1}, {f1}), Root({f2}, {f2})>>
Nested    == <<Root({f1, f2}, {f1}), Root({f2}, {f2})>>

ChangingRules == {OneRoot, Excluding, TwoRoots, <<>>}
NestedRules   == {Nested}
OneFileRules  == {OneFile}

RunSymmetry == Permutations(Runs) \cup Permutations(Streams)

=============================================================================
