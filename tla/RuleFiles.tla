------------------------------ MODULE RuleFiles ------------------------------
(***************************************************************************)
(* Edits of backup rules, from the Unix socket and from web gateways.  A   *)
(* user's rules are a YAML file that every edit loads, changes and writes  *)
(* in place; the machine's are a list in the Agent's memory that an edit   *)
(* changes and saves beside the configuration, to be renamed over it, and  *)
(* that SIGHUP reads again.  No edit holds a lock.                         *)
(***************************************************************************)
EXTENDS Naturals, FiniteSets

CONSTANTS Edits, Names

VARIABLES
  store,     \* "user" or "machine": whose rules
  file,      \* the file: absent, truncated, broken (no YAML), or rules, as the decoder sees it
  doubled,   \* two edits have had the user's file open for writing since it was truncated
  memory,    \* the machine's rules in memory
  edit,      \* edit[e]: the operation and the name it is about
  loaded,    \* loaded[e]: the list an edit works on, and later writes
  editAt,    \* editAt[e]: where edit e is
  reload,    \* what a reload has read but not yet put in place
  expected,  \* history: what the rules from before and the acknowledged edits add up to
  contested, \* history: names of edits that overlapped an edit or a reload, all names once
             \* two edits wrote into the file together
  torn       \* history: a write or save of an edit failed or was cut short

ruleVars ==
  <<store, file, doubled, memory, edit, loaded, editAt, reload, expected, contested, torn>>

\* A list of rules: its names, each enabled or not.
Lists   == UNION {[S -> BOOLEAN] : S \in SUBSET Names}
NoRules == [n \in {} |-> TRUE]
File(l) == [state |-> "rules", rules |-> l]
NoFile(s) == [state |-> s, rules |-> NoRules]
NoEdit  == [op |-> "none"]

Active(e) == editAt[e] \in {"load", "create", "write", "assign", "marshal", "rename"}
Quiet     == reload = {} /\ \A e \in Edits : ~Active(e)

TypeOK ==
  /\ store \in {"user", "machine"}
  /\ file \in [state : {"none", "empty", "broken", "rules"}, rules : Lists]
  /\ doubled \in BOOLEAN
  /\ memory \in Lists
  /\ edit \in [Edits -> {NoEdit} \cup [op : {"add", "remove", "enable", "disable"}, name : Names]]
  /\ loaded \in [Edits -> Lists]
  /\ editAt \in [Edits -> {"idle", "load", "create", "write", "assign", "marshal", "rename",
                           "over"}]
  /\ reload \subseteq Lists /\ Cardinality(reload) <= 1
  /\ expected \in Lists
  /\ contested \subseteq Names
  /\ torn \in BOOLEAN

\* Any rules from before; a user who has none may have no file.
Init ==
  /\ store \in {"user", "machine"}
  /\ expected \in Lists
  /\ file = File(expected) \/ (store = "user" /\ expected = NoRules /\ file = NoFile("none"))
  /\ doubled = FALSE
  /\ memory = IF store = "machine" THEN expected ELSE NoRules
  /\ edit = [e \in Edits |-> NoEdit]
  /\ loaded = [e \in Edits |-> NoRules]
  /\ editAt = [e \in Edits |-> "idle"]
  /\ reload = {}
  /\ contested = {}
  /\ torn = FALSE

Goto(e, s) == editAt' = [editAt EXCEPT ![e] = s]

\* The edit is answered, with success or an error.
Over(e) ==
  /\ Goto(e, "over")
  /\ edit' = [edit EXCEPT ![e] = NoEdit]
  /\ loaded' = [loaded EXCEPT ![e] = NoRules]

Permitted(o, l) == o.op = "add" <=> o.name \notin DOMAIN l

\* A rule is added enabled; one that is not there is not switched.
Result(o, l) ==
  CASE o.op = "add"    -> [n \in DOMAIN l \cup {o.name} |-> IF n = o.name THEN TRUE ELSE l[n]]
    [] o.op = "remove" -> [n \in DOMAIN l \ {o.name} |-> l[n]]
    [] OTHER           -> [n \in DOMAIN l |-> IF n = o.name THEN o.op = "enable" ELSE l[n]]

Acknowledged(e) ==
  /\ Over(e)
  /\ expected' = Result(edit[e], expected)

UserEdits    == {"add", "remove", "enable", "disable"}
MachineEdits == {"add", "remove"}

\* A valid request of the user whose rules they are, or of root for the machine's.
Ask(e) ==
  /\ editAt[e] = "idle"
  /\ \E o \in IF store = "user" THEN UserEdits ELSE MachineEdits, n \in Names :
       /\ edit' = [edit EXCEPT ![e] = [op |-> o, name |-> n]]
       /\ contested' = IF Quiet THEN contested
                       ELSE contested \cup {n} \cup {edit[d].name : d \in {d \in Edits : Active(d)}}
  /\ Goto(e, "load")
  /\ UNCHANGED <<store, file, doubled, memory, loaded, reload, expected, torn>>

-----------------------------------------------------------------------------
(* A user's rules.                                                         *)

\* A missing file is no rules; the decoder fails on an empty one.
Load(e) ==
  /\ editAt[e] = "load" /\ store = "user"
  /\ IF file.state \in {"none", "rules"} /\ Permitted(edit[e], file.rules)
     THEN Goto(e, "create") /\ loaded' = [loaded EXCEPT ![e] = file.rules] /\ UNCHANGED edit
     ELSE Over(e)
  /\ UNCHANGED <<store, file, doubled, memory, reload, expected, contested, torn>>

Writing(e) == editAt[e] = "write"

\* Save truncates the file it is going to write, also under the hands of another edit.
Create(e) ==
  /\ editAt[e] = "create"
  /\ file' = NoFile("empty")
  /\ doubled' = \E d \in Edits \ {e} : Writing(d)
  /\ contested' = IF doubled' THEN Names ELSE contested
  /\ Goto(e, "write")
  /\ UNCHANGED <<store, memory, edit, loaded, reload, expected, torn>>

CreateFails(e) ==
  /\ editAt[e] = "create"
  /\ Over(e)
  /\ UNCHANGED <<store, file, doubled, memory, reload, expected, contested, torn>>

\* As if only the rule of the edit were written.
WriteOnlyEdited(e) ==
  /\ Writing(e)
  /\ file' = File(Result(edit[e], NoRules))
  /\ Acknowledged(e)
  /\ UNCHANGED <<store, doubled, memory, reload, contested, torn>>

\* What a decoder may make of the beginning of a written list: rules are missing, and the
\* last one may lack its last key, "enabled".
Beginnings(l) == {k \in Lists : \A n \in DOMAIN k : n \in DOMAIN l /\ (k[n] => l[n])}

\* Two edits that have the file open write at offsets of their own: a shorter list leaves
\* the longer's end, a later truncation a hole.  Such a mixture may decode to anything.
Decodable(whole) == IF doubled THEN Lists ELSE whole

\* The encoder writes whenever its buffer is full.
WritePiece(e) ==
  /\ Writing(e)
  /\ \/ file' = NoFile("broken")
     \/ \E l \in Decodable(Beginnings(Result(edit[e], loaded[e]))) : file' = File(l)
  /\ UNCHANGED <<store, doubled, memory, edit, loaded, editAt, reload, expected, contested, torn>>

\* The last piece.
Write(e) ==
  /\ Writing(e)
  /\ \/ \E l \in Decodable({Result(edit[e], loaded[e])}) : file' = File(l)
     \/ doubled /\ file' = NoFile("broken")
  /\ Acknowledged(e)
  /\ UNCHANGED <<store, doubled, memory, reload, contested, torn>>

-----------------------------------------------------------------------------
(* The machine's rules.                                                    *)

\* AddMachineRule appends even a name that is there; RemoveMachineRule wants to find it.
ReadMemory(e) ==
  /\ editAt[e] = "load" /\ store = "machine"
  /\ IF edit[e].op = "add" \/ edit[e].name \in DOMAIN memory
     THEN Goto(e, "assign") /\ loaded' = [loaded EXCEPT ![e] = memory] /\ UNCHANGED edit
     ELSE Over(e)
  /\ UNCHANGED <<store, file, doubled, memory, reload, expected, contested, torn>>

Assign(e) ==
  /\ editAt[e] = "assign"
  /\ memory' = Result(edit[e], loaded[e])
  /\ Goto(e, "marshal")
  /\ UNCHANGED <<store, file, doubled, edit, loaded, reload, expected, contested, torn>>

\* saveAgentConfig marshals what is in memory by now, into a temporary file.
Marshal(e) ==
  /\ editAt[e] = "marshal"
  /\ loaded' = [loaded EXCEPT ![e] = memory]
  /\ Goto(e, "rename")
  /\ UNCHANGED <<store, file, doubled, memory, edit, reload, expected, contested, torn>>

Rename(e) ==
  /\ editAt[e] = "rename"
  /\ file' = File(loaded[e])
  /\ Acknowledged(e)
  /\ UNCHANGED <<store, doubled, memory, reload, contested, torn>>

\* SIGHUP: LoadAgentConfig, then *cfg = *newCfg.
ReloadReads ==
  /\ store = "machine" /\ reload = {}
  /\ reload' = {file.rules}
  /\ contested' = contested \cup {edit[d].name : d \in {d \in Edits : Active(d)}}
  /\ UNCHANGED <<store, file, doubled, memory, edit, loaded, editAt, expected, torn>>

ReloadAssigns ==
  /\ \E l \in reload : memory' = l
  /\ reload' = {}
  /\ UNCHANGED <<store, file, doubled, edit, loaded, editAt, expected, contested, torn>>

-----------------------------------------------------------------------------

\* A failing write, marshalling or rename: an edit in place has truncated the file by now
\* and leaves what it has written, a machine edit has changed the memory.
SaveFails(e) ==
  /\ editAt[e] \in {"write", "marshal", "rename"}
  /\ Over(e)
  /\ torn' = TRUE
  /\ UNCHANGED <<store, file, doubled, memory, reload, expected, contested>>

\* The next Agent reads the configuration; edits of before are not resumed.  (A rule that
\* LoadAgentConfig refuses, which AddMachineRule lets pass, would keep it from starting.)
Restart ==
  /\ \E e \in Edits : Active(e)
  /\ torn' = (torn \/ \E e \in Edits : Writing(e))
  /\ editAt' = [e \in Edits |-> IF Active(e) THEN "over" ELSE editAt[e]]
  /\ edit' = [e \in Edits |-> NoEdit]
  /\ loaded' = [e \in Edits |-> NoRules]
  /\ reload' = {}
  /\ memory' = IF store = "machine" THEN file.rules ELSE memory
  /\ UNCHANGED <<store, file, doubled, expected, contested>>

EditStep(e) ==
  \/ Ask(e) \/ Load(e) \/ Create(e) \/ CreateFails(e)
  \/ WritePiece(e) \/ Write(e)
  \/ ReadMemory(e) \/ Assign(e) \/ Marshal(e) \/ Rename(e) \/ SaveFails(e)

Next == Restart \/ ReloadReads \/ ReloadAssigns \/ \E e \in Edits : EditStep(e)

Spec == Init /\ [][Next]_ruleVars

-----------------------------------------------------------------------------
(* Properties.                                                             *)

\* Without a failed or interrupted write, what the acknowledged edits of a name that did not
\* overlap another edit or a reload add up to is what the file says, and no later stop, reload
\* or overlap of machine edits of other names undoes it.  In a user's file an overlap of edits
\* of other names may lose or disable the rule (one loads what the other has only half
\* written), but brings none back and enables none; two writes at once may do anything.
EditsAddUp ==
  Quiet /\ ~torn /\ file.state # "broken" =>
    \A n \in Names \ contested :
      /\ n \in DOMAIN file.rules => n \in DOMAIN expected /\ (file.rules[n] => expected[n])
      /\ store = "machine" \/ contested = {} =>
           /\ n \in DOMAIN file.rules <=> n \in DOMAIN expected
           /\ n \in DOMAIN expected => file.rules[n] = expected[n]

\* Only a write that was cut short, or two at once, leave a file no later edit can load.
UnreadableHasCause ==
  Quiet /\ file.state \in {"empty", "broken"} => torn \/ contested = Names

\* While edits and reloads do not overlap and no save fails, what the Agent backs up by is
\* what the file says: memory and disk do not drift apart.
MemoryIsDisk ==
  store = "machine" /\ Quiet /\ ~torn /\ contested = {} => memory = file.rules

=============================================================================
